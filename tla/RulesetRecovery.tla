-------------------------- MODULE RulesetRecovery --------------------------
(***************************************************************************)
(* The life of users' ruleset directories across deletions, restarts and   *)
(* databases: _delete_user_with_rulesets, _retry_ruleset_tombstones and    *)
(* the instance marker of src/src/ruleset_store.py, the start-up of        *)
(* api.py and the page load of web_app.py.  The database and the ruleset   *)
(* directory are two volumes: a restart may bring another database.        *)
(***************************************************************************)
EXTENDS Naturals

CONSTANTS
    MaxId,       \* bound: ids of accounts
    Dbs,         \* databases that may be mounted
    Procs,       \* threads of the two server processes
    Tombs,       \* names in .trash: <id>-<random>
    MaxRestarts, \* bound: restarts
    MaxFaults,   \* bound: failed file operations and transactions
    None

\* AUTOINCREMENT gives ids out in order and never twice.
Users == 1..MaxId

ASSUME IdAssumption == MaxId \in Nat \ {0}
ASSUME BoundsAssumption == MaxRestarts \in Nat /\ MaxFaults \in Nat
ASSUME NoneAssumption == None \notin Users \cup Dbs \cup Procs \cup Tombs

VARIABLES
    mounted,  \* the database in use
    rows,     \* database |-> ids in its users table
    used,     \* database |-> ids it has given out
    dir,      \* id |-> databases whose account wrote files into users/<id>
    usersDir, \* whether the directory users exists
    reserved, \* ids with a directory .pending/<id>
    tomb,     \* name |-> a directory in .trash
    marker,   \* .db-instance-id
    lock,     \* id |-> the thread inside _ruleset_user_lock(id)
    req,      \* where each thread is
    scope,    \* history: ids a recovery has to clear, see RecoveryReclaims
    restarts, faults

disk == <<dir, usersDir, reserved, tomb, marker>>
database == <<mounted, rows, used>>
bounds == <<restarts, faults>>
vars == <<database, disk, lock, req, scope, bounds>>

\* The account that ensure_admin_from_env creates; it cannot be deleted here.
Admin == 1

Exists(u) == u \in rows[mounted]

NoTomb == [user |-> None, by |-> {}]

Idle == [op |-> "none", pc |-> "idle", user |-> None, tomb |-> None,
         back |-> "none", todo |-> {}, pending |-> FALSE, skipped |-> FALSE]

Critical == {"tomb", "orphan", "move", "purge", "reservation", "deleteRow",
             "moveAway", "unreserve", "remove", "write"}

Item == [name : Tombs \cup {None}, user : Users]

Request ==
    [op : {"none", "boot", "delete", "upload"},
     pc : Critical \cup {"idle", "boot", "bootEmpty", "scan", "tombs", "match", "orphans",
                        "reservations", "recovered", "target", "upload"},
     user : Users \cup {None}, tomb : Tombs \cup {None},
     back : {"none", "tombs", "orphans", "reservations"},
     todo : SUBSET Item, pending : BOOLEAN, skipped : BOOLEAN]

TypeOK ==
    /\ mounted \in Dbs
    /\ rows \in [Dbs -> SUBSET Users] /\ used \in [Dbs -> SUBSET Users]
    /\ \A d \in Dbs : rows[d] \subseteq used[d]
    /\ dir \in [Users -> SUBSET Dbs]
    /\ reserved \subseteq Users
    /\ usersDir \in BOOLEAN
    /\ tomb \in [Tombs -> ({NoTomb} \cup [user : Users, by : SUBSET Dbs])]
    /\ marker \in Dbs \cup {None}
    /\ lock \in [Users -> Procs \cup {None}]
    /\ req \in [Procs -> Request]
    /\ \A p \in Procs : req[p].pc \in Critical => req[p].user \in Users /\ lock[req[p].user] = p
    /\ scope \in [Procs -> SUBSET Users]
    /\ restarts \in 0..MaxRestarts /\ faults \in 0..MaxFaults

Init ==
    /\ mounted \in Dbs
    /\ rows = [d \in Dbs |-> {}] /\ used = [d \in Dbs |-> {}]
    /\ dir = [u \in Users |-> {}] /\ usersDir = FALSE
    /\ reserved = {}
    /\ tomb = [t \in Tombs |-> NoTomb]
    /\ marker = None
    /\ lock = [u \in Users |-> None]
    /\ \E p \in Procs : req = [q \in Procs |-> IF q = p THEN [Idle EXCEPT !.op = "boot", !.pc = "boot"]
                                                        ELSE Idle]
    /\ scope = [p \in Procs |-> {}]
    /\ restarts = 0 /\ faults = 0

-----------------------------------------------------------------------------
(* Threads and locks.                                                      *)

At(p, pc) == req[p].pc = pc
Goto(p, pc) == req' = [req EXCEPT ![p].pc = pc]
Scan(p, pc, todo) == req' = [req EXCEPT ![p].pc = pc, ![p].todo = todo]

\* _ruleset_user_lock(u): thread lock and flock.
Acquire(p, u, next) ==
    /\ lock[u] = None
    /\ lock' = [lock EXCEPT ![u] = p]
    /\ req' = [req EXCEPT ![p] = next]
    /\ scope' = [q \in Procs |-> IF q = p THEN scope[q] ELSE scope[q] \ {u}]

Release(p, next) ==
    /\ lock' = [lock EXCEPT ![req[p].user] = None]
    /\ req' = [req EXCEPT ![p] = next]

\* The loop of a recovery goes on with the next item.
Continue(p) == Release(p, [req[p] EXCEPT !.pc = req[p].back, !.user = None, !.tomb = None])
PutOffSilently(p) == Continue(p)
\* The item waits for the next recovery.
PutOff(p) == Release(p, [req[p] EXCEPT !.pc = req[p].back, !.user = None, !.tomb = None,
                                     !.pending = TRUE])

NewAccount(u) ==
    /\ u \notin used[mounted] /\ 1..(u - 1) \subseteq used[mounted]
    /\ rows' = [rows EXCEPT ![mounted] = @ \cup {u}]
    /\ used' = [used EXCEPT ![mounted] = @ \cup {u}]
    /\ UNCHANGED mounted

EnsureAdmin ==
    IF used[mounted] = {} THEN NewAccount(Admin) ELSE UNCHANGED database

-----------------------------------------------------------------------------
(* Start-up.                                                               *)

\* lifespan: had_users is read before the administrator is created.
Boot(p) ==
    /\ At(p, "boot")
    /\ IF rows[mounted] = {} THEN Goto(p, "bootEmpty") ELSE Goto(p, "scan")
    /\ UNCHANGED <<database, disk, lock, scope, bounds>>
BootEmpty(p) ==
    /\ At(p, "bootEmpty")
    /\ EnsureAdmin
    /\ req' = [req EXCEPT ![p] = Idle]
    /\ UNCHANGED <<disk, lock, scope, bounds>>

\* A Streamlit page load does not wait for the API.
Visit ==
    /\ used[mounted] = {}
    /\ EnsureAdmin
    /\ UNCHANGED <<disk, lock, req, scope, bounds>>

Booting == \E p \in Procs : req[p].op = "boot"

Register(u) ==
    /\ ~Booting /\ used[mounted] # {}
    /\ NewAccount(u)
    /\ UNCHANGED <<disk, lock, req, scope, bounds>>

-----------------------------------------------------------------------------
(* _retry_ruleset_tombstones                                               *)

End(p, skipped) == req' = [req EXCEPT ![p].pc = "recovered", ![p].skipped = skipped]

RemoveTomb(t) == tomb' = [tomb EXCEPT ![t] = NoTomb]

\* What iterdir() returns for users and .pending, and for .trash, whose names
\* contain the id.
Items(S) == {[name |-> None, user |-> u] : u \in S}
Trash == {[name |-> t, user |-> tomb[t].user] : t \in {t \in Tombs : tomb[t] # NoTomb}}

StartRecovery(p) ==
    /\ At(p, "scan")
    /\ IF rows[mounted] = {} THEN End(p, TRUE) ELSE Scan(p, "tombs", Trash)
    /\ scope' = [scope EXCEPT ![p] = {u \in used[mounted] : ~Exists(u) /\ lock[u] = None}]
    /\ UNCHANGED <<database, disk, lock, bounds>>

\* Every loop takes the next item under the lock of its user.
TakeItem(p, loop, pc) ==
    /\ At(p, loop)
    /\ \E item \in req[p].todo :
         Acquire(p, item.user, [req[p] EXCEPT !.pc = pc, !.back = loop, !.tomb = item.name,
                                              !.user = item.user, !.todo = @ \ {item}])
    /\ UNCHANGED <<database, disk, bounds>>

TakeTomb(p) == TakeItem(p, "tombs", "tomb")

SettleTombOverwriting(p) ==
    /\ At(p, "tomb")
    /\ LET t == req[p].tomb IN
       \/ tomb[t] = NoTomb /\ PutOff(p) /\ UNCHANGED disk
       \/ /\ tomb[t] # NoTomb /\ Exists(req[p].user)
          /\ dir' = [dir EXCEPT ![req[p].user] = tomb[t].by]
          /\ usersDir' = TRUE
          /\ RemoveTomb(t) /\ Continue(p) /\ UNCHANGED <<reserved, marker>>
       \/ /\ tomb[t] # NoTomb /\ ~Exists(req[p].user)
          /\ Goto(p, "purge") /\ UNCHANGED <<disk, lock>>
    /\ UNCHANGED <<database, scope, bounds>>
\* An account that exists gets its directory back unless it has one; the
\* directory of an account that does not exist is removed.
SettleTomb(p) ==
    /\ At(p, "tomb")
    /\ LET t == req[p].tomb
           u == req[p].user
       IN
       \/ tomb[t] = NoTomb /\ PutOff(p) /\ UNCHANGED disk
       \/ tomb[t] # NoTomb /\ Exists(u) /\ dir[u] # {} /\ PutOff(p) /\ UNCHANGED disk
       \/ /\ tomb[t] # NoTomb /\ Exists(u) /\ dir[u] = {}
          /\ dir' = [dir EXCEPT ![u] = tomb[t].by]
          /\ usersDir' = TRUE
          /\ RemoveTomb(t) /\ Continue(p) /\ UNCHANGED <<reserved, marker>>
       \/ tomb[t] # NoTomb /\ ~Exists(u) /\ Goto(p, "purge") /\ UNCHANGED <<disk, lock>>
    /\ UNCHANGED <<database, scope, bounds>>

Purge(p) ==
    /\ At(p, "purge")
    /\ RemoveTomb(req[p].tomb)
    /\ Continue(p)
    /\ UNCHANGED <<database, dir, usersDir, reserved, marker, scope, bounds>>

TombsDone(p) ==
    /\ At(p, "tombs") /\ req[p].todo = {}
    /\ IF usersDir THEN Goto(p, "match") ELSE Scan(p, "reservations", Items(reserved))
    /\ UNCHANGED <<database, disk, lock, scope, bounds>>

MatchLogging(p) ==
    /\ At(p, "match")
    /\ marker' = IF marker = None THEN mounted ELSE marker
    /\ Scan(p, "orphans", Items({u \in Users : dir[u] # {}}))
    /\ UNCHANGED <<database, dir, usersDir, reserved, tomb, lock, scope, bounds>>
\* _ruleset_db_instance_matches: a directory without a marker is claimed by
\* the mounted database and left alone this time.
Match(p) ==
    /\ At(p, "match")
    /\ \/ marker = None /\ marker' = mounted /\ End(p, TRUE)
       \/ marker \notin {None, mounted} /\ End(p, TRUE) /\ UNCHANGED marker
       \/ /\ marker = mounted
          /\ Scan(p, "orphans", Items({u \in Users : dir[u] # {}})) /\ UNCHANGED marker
    /\ UNCHANGED <<database, dir, usersDir, reserved, tomb, lock, scope, bounds>>

TakeOrphan(p) == TakeItem(p, "orphans", "orphan")

Orphan(p) ==
    /\ At(p, "orphan")
    /\ IF Exists(req[p].user) THEN Continue(p) ELSE Goto(p, "move") /\ UNCHANGED lock
    /\ UNCHANGED <<database, disk, scope, bounds>>

\* A name nobody has listed is as good as a new one.
Fresh(t) ==
    /\ tomb[t] = NoTomb
    /\ \A q \in Procs : t # req[q].tomb /\ \A item \in req[q].todo : item.name # t

\* _move_user_ruleset_to_tombstone, when there is a directory to move.
MoveToTomb(p, next) ==
    LET u == req[p].user IN
    \E t \in Tombs :
        /\ Fresh(t)
        /\ tomb' = [tomb EXCEPT ![t] = [user |-> u, by |-> dir[u]]]
        /\ dir' = [dir EXCEPT ![u] = {}]
        /\ req' = [req EXCEPT ![p].pc = next, ![p].tomb = t]
        /\ UNCHANGED <<lock, usersDir, reserved, marker>>

Move(p) ==
    /\ At(p, "move")
    /\ \/ dir[req[p].user] = {} /\ Continue(p) /\ UNCHANGED disk
       \/ dir[req[p].user] # {} /\ MoveToTomb(p, "purge")
    /\ UNCHANGED <<database, scope, bounds>>

OrphansDone(p) ==
    /\ At(p, "orphans") /\ req[p].todo = {}
    /\ Scan(p, "reservations", Items(reserved))
    /\ UNCHANGED <<database, disk, lock, scope, bounds>>

TakeReservation(p) == TakeItem(p, "reservations", "reservation")

SettleReservation(p) ==
    /\ At(p, "reservation")
    /\ reserved' = IF Exists(req[p].user) THEN reserved ELSE reserved \ {req[p].user}
    /\ Continue(p)
    /\ UNCHANGED <<database, dir, usersDir, tomb, marker, scope, bounds>>

ReservationsDone(p) ==
    /\ At(p, "reservations") /\ req[p].todo = {}
    /\ End(p, FALSE)
    /\ UNCHANGED <<database, disk, lock, scope, bounds>>

\* A boot is over; a deletion goes on with the account itself.
Recovered(p) ==
    /\ At(p, "recovered")
    /\ req' = [req EXCEPT ![p] = IF req[p].op = "delete" THEN [Idle EXCEPT !.op = "delete", !.pc = "target"]
                                                         ELSE Idle]
    /\ UNCHANGED <<database, disk, lock, scope, bounds>>

-----------------------------------------------------------------------------
(* _delete_user_with_rulesets; its callers run the recovery first.         *)

StartDelete(p) ==
    /\ At(p, "idle") /\ Exists(Admin)
    /\ req' = [req EXCEPT ![p] = [Idle EXCEPT !.op = "delete", !.pc = "scan"]]
    /\ UNCHANGED <<database, disk, lock, scope, bounds>>

TakeTarget(p) ==
    /\ At(p, "target")
    /\ \E u \in Users \ {Admin} : Acquire(p, u, [Idle EXCEPT !.op = "delete", !.pc = "deleteRow", !.user = u])
    /\ UNCHANGED <<database, disk, bounds>>

DeleteRow(p) ==
    /\ At(p, "deleteRow")
    /\ \/ /\ Exists(req[p].user)
          /\ rows' = [rows EXCEPT ![mounted] = @ \ {req[p].user}]
          /\ Goto(p, "moveAway") /\ UNCHANGED lock
       \/ ~Exists(req[p].user) /\ Release(p, Idle) /\ UNCHANGED rows
    /\ UNCHANGED <<mounted, used, disk, scope, bounds>>

MoveAway(p) ==
    /\ At(p, "moveAway")
    /\ \/ dir[req[p].user] = {} /\ Goto(p, "unreserve") /\ UNCHANGED <<disk, lock>>
       \/ dir[req[p].user] # {} /\ MoveToTomb(p, "unreserve")
    /\ UNCHANGED <<database, scope, bounds>>

Unreserve(p) ==
    /\ At(p, "unreserve")
    /\ reserved' = reserved \ {req[p].user}
    /\ IF req[p].tomb = None THEN Release(p, Idle) ELSE Goto(p, "remove") /\ UNCHANGED lock
    /\ UNCHANGED <<database, dir, usersDir, tomb, marker, scope, bounds>>

RemoveEntry(p) ==
    /\ At(p, "remove")
    /\ RemoveTomb(req[p].tomb)
    /\ Release(p, Idle)
    /\ UNCHANGED <<database, dir, usersDir, reserved, marker, scope, bounds>>

-----------------------------------------------------------------------------
(* An upload, authenticated before it takes the lock; its details are in   *)
(* RulesetStore.                                                           *)

StartUpload(p, u) ==
    /\ At(p, "idle") /\ ~Booting /\ Exists(u)
    /\ req' = [req EXCEPT ![p] = [Idle EXCEPT !.op = "upload", !.pc = "upload", !.user = u]]
    /\ UNCHANGED <<database, disk, lock, scope, bounds>>

TakeUpload(p) ==
    /\ At(p, "upload")
    /\ Acquire(p, req[p].user, [req[p] EXCEPT !.pc = "write"])
    /\ UNCHANGED <<database, disk, bounds>>

Write(p) ==
    /\ At(p, "write")
    /\ IF Exists(req[p].user)
         THEN /\ dir' = [dir EXCEPT ![req[p].user] = @ \cup {mounted}]
              /\ reserved' = reserved \cup {req[p].user}
              /\ usersDir' = TRUE
         ELSE UNCHANGED <<dir, reserved, usersDir>>
    /\ Release(p, Idle)
    /\ UNCHANGED <<database, tomb, marker, scope, bounds>>

-----------------------------------------------------------------------------
(* Failures and restarts.                                                  *)

\* The next effect of a critical section raises.  A recovery puts the item off
\* until the next one; the others answer with an error or "cleanup pending".
Fail(p) ==
    /\ req[p].pc \in Critical
    /\ faults < MaxFaults /\ faults' = faults + 1
    /\ IF req[p].op \in {"boot", "delete"} /\ req[p].back # "none" THEN PutOff(p) ELSE Release(p, Idle)
    /\ UNCHANGED <<database, disk, scope, restarts>>

\* Both processes stop at any point, as start.sh makes them do, and start on
\* one of the databases.
Restart(p, d) ==
    /\ restarts < MaxRestarts /\ restarts' = restarts + 1
    /\ mounted' = d
    /\ lock' = [u \in Users |-> None]
    /\ req' = [q \in Procs |-> IF q = p THEN [Idle EXCEPT !.op = "boot", !.pc = "boot"] ELSE Idle]
    /\ scope' = [q \in Procs |-> {}]
    /\ UNCHANGED <<rows, used, disk, faults>>

Recover(p) ==
    \/ StartRecovery(p)
    \/ TakeTomb(p) \/ SettleTomb(p) \/ Purge(p) \/ TombsDone(p)
    \/ Match(p)
    \/ TakeOrphan(p) \/ Orphan(p) \/ Move(p) \/ OrphansDone(p)
    \/ TakeReservation(p) \/ SettleReservation(p) \/ ReservationsDone(p)
    \/ Recovered(p)

Step(p) ==
    \/ Boot(p) \/ BootEmpty(p)
    \/ Recover(p)
    \/ TakeTarget(p) \/ DeleteRow(p) \/ MoveAway(p) \/ Unreserve(p) \/ RemoveEntry(p)
    \/ TakeUpload(p) \/ Write(p)

Next ==
    \/ \E p \in Procs : Step(p)
    \/ \E p \in Procs : StartDelete(p)
    \/ \E p \in Procs, u \in Users : StartUpload(p, u)
    \/ \E p \in Procs : Fail(p)
    \/ \E p \in Procs, d \in Dbs : Restart(p, d)
    \/ Visit
    \/ \E u \in Users : Register(u)

Spec == Init /\ [][Next]_vars

-----------------------------------------------------------------------------
(* Properties                                                              *)

\* A living account of the mounted database keeps its files and reservations,
\* whatever recoveries, deletions, failures and restarts run beside it
\* (ruleset_store.py:530: "A database row wins over filesystem cleanup").
LivingKeepFiles ==
    [][\A u \in Users :
         mounted' = mounted /\ u \in rows[mounted] \cap rows'[mounted]
           => /\ mounted \in dir[u] => mounted \in dir'[u]
              /\ u \in reserved => u \in reserved']_vars

Leftover(u) == dir[u] # {} \/ u \in reserved \/ \E t \in Tombs : tomb[t].user = u

\* A recovery that skipped nothing and reports nothing pending has cleared the
\* accounts that were gone when it began, unless another thread has since
\* worked on them, in which case that thread reports.
RecoveryReclaims ==
    \A p \in Procs : At(p, "recovered") /\ ~req[p].skipped /\ ~req[p].pending
        => \A u \in scope[p] : ~Leftover(u)

\* Once a database has claimed the ruleset directory, recoveries under another
\* one keep the files of its accounts (ids that the other one has never used).
ClaimedFilesKept ==
    [][\A u \in Users, d \in Dbs :
         marker = d /\ u \in rows[d] /\ d \in dir[u] /\ u \notin used[mounted]
           => d \in dir'[u]]_vars

\* storage.py:181 says that the instance id keeps a wrongly mounted database
\* from taking the files of other users for orphans: ClaimedFilesKept without
\* the claim.
ForeignFilesKept ==
    [][\A u \in Users, d \in Dbs :
         u \in rows[d] /\ d \in dir[u] /\ u \notin used[mounted] => d \in dir'[u]]_vars
=============================================================================
