------------------------------ MODULE Accounts ------------------------------
(***************************************************************************)
(* Accounts, login sessions and the login limit of one user name           *)
(* (src/src/storage.py, auth_service.py, the auth and user handlers of     *)
(* api.py).  Every SQLite transaction is one action: a login or a          *)
(* registration is several of them, and an administrator's run in between. *)
(***************************************************************************)
EXTENDS Integers, FiniteSets

CONSTANTS
    Ids,      \* values of users.id; AUTOINCREMENT never uses one twice
    Names,    \* user names
    Tokens,   \* session tokens, random and never repeated
    Procs,    \* threads that serve logins and registrations
    Limit,    \* AUTH_RATE_LIMIT_ACCOUNT_FAILURES
    MaxFaults, \* bound: transactions that fail
    None

ASSUME LimitAssumption == Limit \in Nat \ {0}
ASSUME FaultsAssumption == MaxFaults \in Nat
ASSUME NoneAssumption == None \notin Ids \cup Names \cup Tokens \cup Procs

VARIABLES
    account,  \* id |-> unused, enabled, disabled or deleted
    nameOf,   \* id |-> users.username
    session,  \* token |-> unused, live, or ended (revoked, expired, deleted)
    userOf,   \* token |-> auth_sessions.user_id
    failures, \* name |-> failed logins in the window since the last success
    lock,     \* name |-> the thread holding _login_lock_for(name)
    req,      \* where each thread is
    ended,    \* history: sessions that were usable once and then were not
    faults    \* transactions that failed so far

vars == <<account, nameOf, session, userOf, failures, lock, req, ended, faults>>

Present(i) == account[i] \in {"enabled", "disabled"}

\* get_user_by_auth_session accepts the token.
Usable(s) == session[s] = "live" /\ account[userOf[s]] = "enabled"

Idle == [op |-> "none", pc |-> "idle", name |-> None, id |-> None]

InLock == {"count", "password", "fail", "audit"}

Request == [op   : {"none", "login", "register", "create"},
            pc   : InLock \cup {"idle", "lock", "validate", "insertUser", "reload",
                                "user", "session", "compensate", "failed", "stranded"},
            name : Names \cup {None},
            id   : Ids \cup {None}]

\* Whether the thread p is inside _try_login_locked.
Holds(p) == req[p].op = "login" /\ req[p].pc \in InLock \cup {"user", "session"}

TypeOK ==
    /\ account \in [Ids -> {"unused", "enabled", "disabled", "deleted"}]
    /\ nameOf \in [Ids -> Names \cup {None}]
    /\ session \in [Tokens -> {"unused", "live", "ended"}]
    /\ userOf \in [Tokens -> Ids \cup {None}]
    /\ failures \in [Names -> Nat]
    /\ lock \in [Names -> Procs \cup {None}]
    /\ req \in [Procs -> Request]
    /\ ended \subseteq Tokens /\ faults \in 0..MaxFaults
    /\ \A i \in Ids : Present(i) => nameOf[i] # None
    /\ \A s \in Tokens : session[s] = "live" => userOf[s] # None
    /\ \A p \in Procs : req[p].pc # "idle" => req[p].op # "none" /\ req[p].name # None
    /\ \A p \in Procs : req[p].pc \in {"user", "session", "compensate", "failed"}
                          => req[p].id # None

Init ==
    /\ account = [i \in Ids |-> "unused"]
    /\ nameOf = [i \in Ids |-> None]
    /\ session = [s \in Tokens |-> "unused"]
    /\ userOf = [s \in Tokens |-> None]
    /\ failures = [n \in Names |-> 0]
    /\ lock = [n \in Names |-> None]
    /\ req = [p \in Procs |-> Idle]
    /\ ended = {} /\ faults = 0

-----------------------------------------------------------------------------
(* Threads.                                                                *)

Goto(p, pc) == req' = [req EXCEPT ![p].pc = pc]

ReleaseOnReturn(p) ==
    lock' = IF Holds(p) /\ req[p].pc \notin {"user", "session"}
              THEN [lock EXCEPT ![req[p].name] = None] ELSE lock
\* Leaving "with _login_lock_for(...)", by return or by exception.
ReleaseFor(p) == lock' = IF Holds(p) THEN [lock EXCEPT ![req[p].name] = None] ELSE lock

Finish(p) == req' = [req EXCEPT ![p] = Idle] /\ ReleaseFor(p)

\* What an exception does: a login ends, a registration that knows its account
\* removes it, one that does not know it ends.
Raise(p) ==
    IF req[p].op = "register" /\ req[p].pc \in {"user", "session"}
      THEN Goto(p, "compensate") /\ UNCHANGED lock
      ELSE Finish(p)

\* Sessions that stop being usable by this step.
Record == ended' = ended \cup {s \in Tokens : Usable(s) /\ ~Usable(s)'}

Rows == <<account, nameOf>>
Sessions == <<session, userOf>>

-----------------------------------------------------------------------------
(* _try_login                                                              *)

\* Bound: a token and an id are left for every thread under way.
MayStart ==
    LET busy == {p \in Procs : req[p].pc # "idle"} IN
    /\ Cardinality(busy) < Cardinality({s \in Tokens : session[s] = "unused"})
    /\ Cardinality(busy) < Cardinality({i \in Ids : account[i] = "unused"})

StartLogin(p, n) ==
    /\ req[p].pc = "idle"
    /\ MayStart
    /\ req' = [req EXCEPT ![p] = [op |-> "login", pc |-> "lock", name |-> n, id |-> None]]
    /\ UNCHANGED <<Rows, Sessions, failures, lock, ended, faults>>

LockLoginUnlocked(p) ==
    /\ req[p].pc = "lock"
    /\ Goto(p, "count")
    /\ lock' = [lock EXCEPT ![req[p].name] = p]
    /\ UNCHANGED <<Rows, Sessions, failures, ended, faults>>
LockLogin(p) ==
    /\ req[p].pc = "lock"
    /\ lock[req[p].name] = None
    /\ lock' = [lock EXCEPT ![req[p].name] = p]
    /\ Goto(p, "count")
    /\ UNCHANGED <<Rows, Sessions, failures, ended, faults>>

\* The name or the client's address has reached its limit, or the login goes on.
CheckLimit(p) ==
    /\ req[p].pc = "count"
    /\ \/ Finish(p)
       \/ failures[req[p].name] < Limit /\ Goto(p, "password") /\ UNCHANGED lock
    /\ UNCHANGED <<Rows, Sessions, failures, ended, faults>>

\* authenticate_user
CheckPassword(p) ==
    /\ req[p].pc = "password"
    /\ \/ \E i \in Ids :
            /\ account[i] = "enabled" /\ nameOf[i] = req[p].name
            /\ req' = [req EXCEPT ![p].pc = "user", ![p].id = i]
       \/ Goto(p, "fail")
    /\ UNCHANGED <<Rows, Sessions, failures, lock, ended, faults>>

RecordFailure(p) ==
    /\ req[p].pc = "fail"
    /\ failures' = [failures EXCEPT ![req[p].name] = @ + 1]
    /\ Finish(p)
    /\ UNCHANGED <<Rows, Sessions, ended, faults>>

\* Counting restarts at the success; times are whole seconds, so failures of
\* the same second may go on counting.
RecordSuccess(p) ==
    /\ req[p].pc = "audit"
    /\ \E kept \in 0..failures[req[p].name] :
         failures' = [failures EXCEPT ![req[p].name] = kept]
    /\ Finish(p)
    /\ UNCHANGED <<Rows, Sessions, ended, faults>>

-----------------------------------------------------------------------------
(* create_auth_session: it reads the account in one transaction and         *)
(* inserts the session in another.                                          *)

CheckUser(p) ==
    /\ req[p].pc = "user"
    /\ IF account[req[p].id] = "enabled" THEN Goto(p, "session") /\ UNCHANGED lock
                                         ELSE Raise(p)
    /\ UNCHANGED <<Rows, Sessions, failures, ended, faults>>

\* The foreign key of auth_sessions.user_id.
ForeignKey(i) == Present(i)

InsertSession(p) ==
    /\ req[p].pc = "session"
    /\ \/ /\ ForeignKey(req[p].id)
          /\ \E s \in Tokens :
               /\ session[s] = "unused"
               /\ session' = [session EXCEPT ![s] = "live"]
               /\ userOf' = [userOf EXCEPT ![s] = req[p].id]
          /\ IF req[p].op = "login" THEN Goto(p, "audit") /\ UNCHANGED lock ELSE Finish(p)
       \/ ~ForeignKey(req[p].id) /\ Raise(p) /\ UNCHANGED Sessions
    /\ UNCHANGED <<Rows, failures, ended, faults>>

-----------------------------------------------------------------------------
(* Registration, and creation by an administrator, which makes no session. *)

NameTaken(n) == \E i \in Ids : Present(i) /\ nameOf[i] = n

StartCreate(p, op, n) ==
    /\ req[p].pc = "idle"
    /\ MayStart
    /\ req' = [req EXCEPT ![p] = [op |-> op, pc |-> "validate", name |-> n, id |-> None]]
    /\ UNCHANGED <<Rows, Sessions, failures, lock, ended, faults>>

\* validate_new_user_credentials
ValidateName(p) ==
    /\ req[p].pc = "validate"
    /\ IF NameTaken(req[p].name) THEN Raise(p) ELSE Goto(p, "insertUser") /\ UNCHANGED lock
    /\ UNCHANGED <<Rows, Sessions, failures, ended, faults>>

\* create_user; users.username is UNIQUE.
InsertUser(p) ==
    /\ req[p].pc = "insertUser"
    /\ \/ /\ ~NameTaken(req[p].name)
          /\ \E i \in Ids :
               /\ account[i] = "unused"
               /\ account' = [account EXCEPT ![i] = "enabled"]
               /\ nameOf' = [nameOf EXCEPT ![i] = req[p].name]
               /\ req' = [req EXCEPT ![p].pc = "reload", ![p].id = i]
          /\ UNCHANGED lock
       \/ NameTaken(req[p].name) /\ Raise(p) /\ UNCHANGED Rows
    /\ UNCHANGED <<Sessions, failures, ended, faults>>

\* create_user reads the account back before it returns it.
ReloadUser(p) ==
    /\ req[p].pc = "reload"
    /\ IF Present(req[p].id) /\ req[p].op = "register"
         THEN Goto(p, "user") /\ UNCHANGED lock
         ELSE Finish(p)
    /\ UNCHANGED <<Rows, Sessions, failures, ended, faults>>

\* DELETE FROM users, which ends the sessions of the account by cascade.
DeleteRow(i) ==
    /\ account' = [account EXCEPT ![i] = "deleted"]
    /\ session' = [s \in Tokens |-> IF session[s] = "live" /\ userOf[s] = i THEN "ended"
                                                                           ELSE session[s]]
    /\ UNCHANGED <<nameOf, userOf>>

CompensateIfEnabled(p) ==
    /\ req[p].pc = "compensate"
    /\ IF account[req[p].id] = "enabled" THEN DeleteRow(req[p].id)
                                         ELSE UNCHANGED <<Rows, Sessions>>
    /\ Goto(p, "failed")
    /\ UNCHANGED <<failures, lock, faults>>
    /\ Record
\* delete_regular_user in the handler of a registration that failed.
Compensate(p) ==
    /\ req[p].pc = "compensate"
    /\ IF Present(req[p].id) THEN DeleteRow(req[p].id) ELSE UNCHANGED <<Rows, Sessions>>
    /\ Goto(p, "failed")
    /\ UNCHANGED <<failures, lock, faults>>
    /\ Record

\* The error is answered.
Respond(p) ==
    /\ req[p].pc \in {"failed", "stranded"}
    /\ Finish(p)
    /\ UNCHANGED <<Rows, Sessions, failures, ended, faults>>

\* A transaction raises (locked or full database).  After create_user's reload
\* the handler has no account to remove; a compensation may fail as well.
Fail(p) ==
    /\ req[p].pc \notin {"idle", "lock", "failed", "stranded"}
    /\ faults < MaxFaults /\ faults' = faults + 1
    /\ IF req[p].pc = "compensate" THEN Goto(p, "stranded") /\ UNCHANGED lock ELSE Raise(p)
    /\ UNCHANGED <<Rows, Sessions, failures, ended>>

-----------------------------------------------------------------------------
(* The administrator, logout and time.                                     *)

RevokeNone(i) == session
\* set_user_enabled revokes with the same transaction.
Revoke(i) == [s \in Tokens |-> IF session[s] = "live" /\ userOf[s] = i THEN "ended"
                                                                      ELSE session[s]]

\* _toggle_user_with_admin, serialized by the lifecycle lock of the account.
Toggle(i) ==
    /\ Present(i)
    /\ \/ /\ account[i] = "enabled"
          /\ account' = [account EXCEPT ![i] = "disabled"]
          /\ session' = Revoke(i)
       \/ /\ account[i] = "disabled"
          /\ account' = [account EXCEPT ![i] = "enabled"]
          /\ UNCHANGED session
    /\ UNCHANGED <<nameOf, userOf, failures, lock, req, faults>>
    /\ Record

\* _delete_user_with_rulesets
Delete(i) ==
    /\ Present(i)
    /\ DeleteRow(i)
    /\ UNCHANGED <<failures, lock, req, faults>>
    /\ Record

\* revoke_auth_session by logout, or the session's expiry.
EndSession(s) ==
    /\ session[s] = "live"
    /\ session' = [session EXCEPT ![s] = "ended"]
    /\ UNCHANGED <<Rows, userOf, failures, lock, req, faults>>
    /\ Record

\* The oldest failure leaves the window.
FailureAges(n) ==
    /\ failures[n] > 0
    /\ failures' = [failures EXCEPT ![n] = @ - 1]
    /\ UNCHANGED <<Rows, Sessions, lock, req, ended, faults>>

Step(p) ==
    \/ LockLogin(p) \/ CheckLimit(p) \/ CheckPassword(p)
    \/ RecordFailure(p) \/ RecordSuccess(p)
    \/ CheckUser(p) \/ InsertSession(p)
    \/ ValidateName(p) \/ InsertUser(p) \/ ReloadUser(p)
    \/ Compensate(p) \/ Respond(p)

Next ==
    \/ \E p \in Procs, n \in Names : StartLogin(p, n)
    \/ \E p \in Procs, op \in {"register", "create"}, n \in Names : StartCreate(p, op, n)
    \/ \E p \in Procs : Step(p)
    \/ \E p \in Procs : Fail(p)
    \/ \E i \in Ids : Toggle(i)
    \/ \E i \in Ids : Delete(i)
    \/ \E s \in Tokens : EndSession(s)
    \/ \E n \in Names : FailureAges(n)

Spec == Init /\ [][Next]_vars

\* A thread keeps running; threading.Lock does not promise an order.
FairSpec == Spec /\ \A p \in Procs : WF_vars(Step(p))

-----------------------------------------------------------------------------
(* Properties                                                              *)

\* A session that stopped being usable (logout, expiry, disabled or deleted
\* account) never becomes usable again, also when the account is enabled again.
EndedStaysEnded == \A s \in ended : ~Usable(s)

\* No live session belongs to an account that is gone, although sessions are
\* inserted after a check made in an earlier transaction.
LiveSessionsHaveAccounts ==
    \A s \in Tokens : session[s] = "live" => Present(userOf[s])

\* Two accounts never share a name, although registrations check the name in
\* one transaction and insert in another.
NamesAreUnique ==
    \A i, k \in Ids : Present(i) /\ Present(k) /\ nameOf[i] = nameOf[k] => i = k

\* A name collects at most Limit failures in a window, however many logins
\* run at once: what the comment of auth_service.py:76 asks of the lock.
FailuresWithinLimit == \A n \in Names : failures[n] <= Limit

\* A registration that answers with an error after it removed its account
\* leaves nothing behind.
FailedRegistrationLeavesNothing ==
    \A p \in Procs : req[p].pc = "failed"
        => ~Present(req[p].id) /\ \A s \in Tokens : session[s] = "live" => userOf[s] # req[p].id

\* README.md:129 says that disabling a user revokes its sessions at once.
DisabledHasNoSession ==
    \A s \in Tokens : session[s] = "live" => account[userOf[s]] # "disabled"

\* The login lock of a name is always released, failing logins included.
LoginLockReleased == \A n \in Names : []<>(lock[n] = None)
=============================================================================
