---------------------------- MODULE AuthServiceProofs ----------------------------
(***************************************************************************)
(* Proofs about the parts of auth_service.py, for any accounts, names,     *)
(* threads, addresses and limits.  Accounts: a session that ended stays    *)
(* ended, no live session outlives its account, names stay unique, a       *)
(* failed registration leaves nothing and a name collects no more failures *)
(* than its limit.  LoginThrottle: the failures and the registrations of   *)
(* an address stay within their bounds.                                    *)
(***************************************************************************)
EXTENDS Accounts, LoginThrottle, FiniteSetTheorems, TLAPS

-----------------------------------------------------------------------------
(* Accounts                                                                *)

\* What a thread's place in the code implies: which operation it serves,
\* that the account in its hand has existed, that it has the lock.
Place(p) ==
    /\ req[p].pc \in InLock \cup {"lock"} => req[p].op = "login"
    /\ req[p].pc \in {"user", "session"} => req[p].op \in {"login", "register"}
    /\ req[p].pc \in {"compensate", "failed"} => req[p].op = "register"
    /\ req[p].pc \in {"reload", "user", "session", "compensate", "failed"}
         => req[p].id \in Ids /\ account[req[p].id] # "unused"
    /\ req[p].pc = "failed" => account[req[p].id] = "deleted"
    /\ Holds(p) => lock[req[p].name] = p

\* Who is past the limit's test has found the count below the limit, and the
\* lock has kept it there.
BelowLimit(p) ==
    req[p].pc \in {"password", "fail"} => failures[req[p].name] < Limit

\* A session enters the history as ended, whatever made it unusable.
HistoryEnded == \A s \in ended : session[s] = "ended"

AccountsInv ==
    /\ TypeOK
    /\ \A p \in Procs : Place(p) /\ BelowLimit(p)
    /\ NamesAreUnique
    /\ LiveSessionsHaveAccounts
    /\ HistoryEnded
    /\ FailuresWithinLimit

\* The field updates of a request, and what leaving the lock does.
LEMMA RequestMoves ==
    ASSUME TypeOK, NEW p \in Procs
    PROVE  /\ \A pc \in {r.pc : r \in Request} :
                 Goto(p, pc) => /\ req' \in [Procs -> Request]
                                /\ req'[p].pc = pc
                                /\ req'[p].op = req[p].op
                                /\ req'[p].name = req[p].name
                                /\ req'[p].id = req[p].id
                                /\ \A q \in Procs : q # p => req'[q] = req[q]
           /\ Finish(p) => /\ req' \in [Procs -> Request]
                           /\ req'[p] = Idle
                           /\ \A q \in Procs : q # p => req'[q] = req[q]
                           /\ lock' \in [Names -> Procs \cup {None}]
                           /\ \A q \in Procs, n \in Names :
                                q # p /\ lock[n] = q /\ (Holds(p) => lock[req[p].name] = p)
                                  => lock'[n] = q
<1> USE DEF TypeOK
<1>1. Idle \in Request
  BY DEF Idle, Request
<1>2. ASSUME NEW pc \in {r.pc : r \in Request}, Goto(p, pc)
      PROVE  /\ req' \in [Procs -> Request]
             /\ req'[p].pc = pc
             /\ req'[p].op = req[p].op
             /\ req'[p].name = req[p].name
             /\ req'[p].id = req[p].id
             /\ \A q \in Procs : q # p => req'[q] = req[q]
  <2>1. [req[p] EXCEPT !.pc = pc] \in Request
    BY DEF Request
  <2>2. req' = [req EXCEPT ![p].pc = pc]
    BY <1>2 DEF Goto
  <2>3. req[p] \in Request
    OBVIOUS
  <2> QED BY <2>1, <2>2, <2>3 DEF Request
<1>3. ASSUME Finish(p)
      PROVE  /\ req' \in [Procs -> Request]
             /\ req'[p] = Idle
             /\ \A q \in Procs : q # p => req'[q] = req[q]
             /\ lock' \in [Names -> Procs \cup {None}]
             /\ \A q \in Procs, n \in Names :
                  q # p /\ lock[n] = q /\ (Holds(p) => lock[req[p].name] = p) => lock'[n] = q
  <2>1. Holds(p) => req[p].name \in Names
    BY DEF Holds, InLock, Request
  <2> QED BY <1>1, <1>3, <2>1 DEF Finish, ReleaseFor
<1> QED BY <1>2, <1>3

\* An id is used once: an account that has existed never becomes unused, one
\* that was deleted stays deleted.
LEMMA AccountsMove ==
    ASSUME TypeOK, [Next]_vars, NEW i \in Ids
    PROVE  /\ account[i] # "unused" => account'[i] # "unused"
           /\ account[i] = "deleted" => account'[i] = "deleted"
<1> USE DEF TypeOK, Present, Rows
<1>1. CASE \/ \E p \in Procs, n \in Names : StartLogin(p, n)
           \/ \E p \in Procs, op \in {"register", "create"}, n \in Names : StartCreate(p, op, n)
           \/ \E p \in Procs : Fail(p)
           \/ \E s \in Tokens : EndSession(s)
           \/ \E n \in Names : FailureAges(n)
           \/ UNCHANGED vars
  BY <1>1 DEF StartLogin, StartCreate, Fail, EndSession, FailureAges, vars
<1>2. ASSUME NEW p \in Procs, Step(p), ~InsertUser(p), ~Compensate(p)
      PROVE  account' = account
  BY <1>2 DEF Step, LockLogin, CheckLimit, CheckPassword, RecordFailure, RecordSuccess, CheckUser,
              InsertSession, ValidateName, ReloadUser, Respond
<1>3. ASSUME NEW p \in Procs, InsertUser(p) \/ Compensate(p)
      PROVE  /\ account[i] # "unused" => account'[i] # "unused"
             /\ account[i] = "deleted" => account'[i] = "deleted"
  BY <1>3 DEF InsertUser, Compensate, DeleteRow
<1>4. ASSUME NEW k \in Ids, Toggle(k) \/ Delete(k)
      PROVE  /\ account[i] # "unused" => account'[i] # "unused"
             /\ account[i] = "deleted" => account'[i] = "deleted"
  BY <1>4 DEF Toggle, Delete, DeleteRow
<1> QED BY <1>1, <1>2, <1>3, <1>4 DEF Next

\* What a step of a thread or of the system leaves to another thread.
Undisturbed(q) ==
    /\ req'[q] = req[q]
    /\ Holds(q) => /\ lock'[req[q].name] = lock[req[q].name]
                   /\ failures'[req[q].name] <= failures[req[q].name]

LEMMA UndisturbedKeeps ==
    ASSUME TypeOK, TypeOK', LimitAssumption, [Next]_vars, NEW q \in Procs, Place(q), BelowLimit(q),
           Undisturbed(q)
    PROVE  Place(q)' /\ BelowLimit(q)'
<1>1. Place(q)'
  BY AccountsMove DEF Undisturbed, Place, Holds
<1>2. req[q].pc \in {"password", "fail"} => Holds(q) /\ req[q].name \in Names
  BY DEF Place, Holds, InLock, TypeOK, Request
<1>3. BelowLimit(q)'
  BY <1>2 DEF Undisturbed, BelowLimit, TypeOK, LimitAssumption
<1> QED BY <1>1, <1>3

\* A step of p disturbs nobody else: what p writes under a name it writes while
\* it holds the name's lock.
LEMMA OthersUndisturbed ==
    ASSUME AccountsInv, NEW p \in Procs,
           \/ Step(p) \/ Fail(p)
           \/ \E n \in Names : StartLogin(p, n)
           \/ \E op \in {"register", "create"}, n \in Names : StartCreate(p, op, n),
           NEW q \in Procs, q # p
    PROVE  Undisturbed(q)
<1> DEFINE free == Holds(q) => lock'[req[q].name] = lock[req[q].name]
<1>1. req'[q] = req[q]
  BY DEF AccountsInv, TypeOK, Step, Fail, StartLogin, StartCreate, LockLogin, CheckLimit,
         CheckPassword, RecordFailure, RecordSuccess, CheckUser, InsertSession, ValidateName,
         InsertUser, ReloadUser, Compensate, Respond, Goto, Finish, Raise
<1>2. Holds(q) => lock[req[q].name] = q /\ req[q].name \in Names
  BY DEF AccountsInv, Place, Holds, InLock, TypeOK, Request
<1>3. Holds(p) => lock[req[p].name] = p
  BY DEF AccountsInv, Place
<1>4. Finish(p) => free
  BY <1>2, <1>3 DEF Finish, ReleaseFor, AccountsInv, TypeOK
<1>5. Raise(p) => free
  BY <1>4 DEF Raise
<1>6. LockLogin(p) => free
  BY <1>2, NoneAssumption DEF LockLogin, AccountsInv, TypeOK
<1> HIDE DEF free
<1>7. UNCHANGED lock => free
  BY DEF free
<1>8. free
  BY <1>4, <1>5, <1>6, <1>7
     DEF Step, Fail, StartLogin, StartCreate, CheckLimit, CheckPassword, RecordFailure,
         RecordSuccess, CheckUser, InsertSession, ValidateName, InsertUser, ReloadUser,
         Compensate, Respond
<1>9. Holds(q) => failures'[req[q].name] <= failures[req[q].name]
  <2> SUFFICES ASSUME Holds(q) PROVE failures'[req[q].name] <= failures[req[q].name]
    OBVIOUS
  <2>1. failures[req[q].name] \in Nat
    BY <1>2 DEF AccountsInv, TypeOK
  <2>2. CASE RecordFailure(p) \/ RecordSuccess(p)
    <3>1. Holds(p)
      BY <2>2 DEF AccountsInv, Place, RecordFailure, RecordSuccess, Holds, InLock
    <3>2. req[p].name # req[q].name
      BY <1>2, <1>3, <3>1
    <3> QED BY <1>2, <2>1, <2>2, <3>2 DEF RecordFailure, RecordSuccess, AccountsInv, TypeOK
  <2>3. CASE failures' = failures
    BY <2>1, <2>3
  <2> QED BY <2>2, <2>3 DEF Step, Fail, StartLogin, StartCreate, LockLogin, CheckLimit,
         CheckPassword, CheckUser, InsertSession, ValidateName,
         InsertUser, ReloadUser, Compensate, Respond
<1> QED BY <1>1, <1>8, <1>9 DEF Undisturbed, free

\* Types, one group of variables at a time: accounts and sessions first.
LEMMA TableTypes ==
    ASSUME TypeOK, NoneAssumption, FaultsAssumption, [Next]_vars
    PROVE  /\ account' \in [Ids -> {"unused", "enabled", "disabled", "deleted"}]
           /\ nameOf' \in [Ids -> Names \cup {None}]
           /\ session' \in [Tokens -> {"unused", "live", "ended"}]
           /\ userOf' \in [Tokens -> Ids \cup {None}]
           /\ \A i \in Ids : Present(i)' => nameOf'[i] # None
           /\ \A s \in Tokens : session'[s] = "live" => userOf'[s] # None
<1> DEFINE Tables == /\ account' \in [Ids -> {"unused", "enabled", "disabled", "deleted"}]
                     /\ nameOf' \in [Ids -> Names \cup {None}]
                     /\ session' \in [Tokens -> {"unused", "live", "ended"}]
                     /\ userOf' \in [Tokens -> Ids \cup {None}]
                     /\ \A i \in Ids : Present(i)' => nameOf'[i] # None
                     /\ \A s \in Tokens : session'[s] = "live" => userOf'[s] # None
<1> USE DEF TypeOK, Present
<1>1. ASSUME UNCHANGED <<Rows, Sessions>> PROVE Tables
  BY <1>1 DEF Rows, Sessions
<1>2. ASSUME NEW i \in Ids, DeleteRow(i) PROVE Tables
  BY <1>2 DEF DeleteRow
<1>3. ASSUME NEW p \in Procs, InsertUser(p) PROVE Tables
  <2>1. CASE UNCHANGED Rows
    BY <1>3, <2>1 DEF InsertUser, Rows, Sessions
  <2>2. CASE \E i \in Ids : /\ account' = [account EXCEPT ![i] = "enabled"]
                            /\ nameOf' = [nameOf EXCEPT ![i] = req[p].name]
    <3>1. req[p].name \in Names \cup {None} /\ req[p].name # None
      BY <1>3 DEF InsertUser, Request
    <3>2. UNCHANGED Sessions
      BY <1>3 DEF InsertUser
    <3> QED BY <2>2, <3>1, <3>2 DEF Sessions
  <2> QED BY <1>3, <2>1, <2>2 DEF InsertUser
<1>4. ASSUME NEW p \in Procs, InsertSession(p) PROVE Tables
  <2>1. CASE UNCHANGED Sessions
    BY <1>4, <2>1 DEF InsertSession, Rows, Sessions
  <2>2. CASE \E s \in Tokens : /\ session' = [session EXCEPT ![s] = "live"]
                               /\ userOf' = [userOf EXCEPT ![s] = req[p].id]
    <3>1. req[p].id \in Ids \cup {None} /\ req[p].id # None
      BY <1>4 DEF InsertSession, Request
    <3>2. UNCHANGED Rows
      BY <1>4 DEF InsertSession
    <3> QED BY <2>2, <3>1, <3>2 DEF Rows
  <2> QED BY <1>4, <2>1, <2>2 DEF InsertSession
<1>5. ASSUME NEW p \in Procs, Compensate(p) PROVE Tables
  <2>1. req[p].id \in Ids
    BY <1>5 DEF Compensate, Request
  <2> QED BY <1>1, <1>2, <1>5, <2>1 DEF Compensate
<1>6. ASSUME NEW p \in Procs, Step(p) \/ Fail(p) PROVE Tables
  <2> HIDE DEF Tables
  <2> QED BY <1>1, <1>3, <1>4, <1>5, <1>6
          DEF Step, Fail, LockLogin, CheckLimit, CheckPassword, RecordFailure, RecordSuccess,
              CheckUser, ValidateName, ReloadUser, Respond
<1>7. ASSUME NEW i \in Ids, Toggle(i) PROVE Tables
  BY <1>7 DEF Toggle, Revoke
<1>8. ASSUME NEW s \in Tokens, EndSession(s) PROVE Tables
  BY <1>8 DEF EndSession, Rows
<1>9. ASSUME \/ \E p \in Procs, n \in Names : StartLogin(p, n)
             \/ \E p \in Procs, op \in {"register", "create"}, n \in Names : StartCreate(p, op, n)
             \/ \E n \in Names : FailureAges(n)
             \/ UNCHANGED vars
      PROVE  Tables
  <2>1. UNCHANGED <<Rows, Sessions>>
    BY <1>9 DEF StartLogin, StartCreate, FailureAges, vars, Rows, Sessions
  <2> QED BY <1>1, <2>1
<1>10. ASSUME NEW i \in Ids, Delete(i) PROVE Tables
  BY <1>2, <1>10 DEF Delete
<1> HIDE DEF Tables
<1>11. Tables
  BY <1>6, <1>7, <1>8, <1>9, <1>10 DEF Next
<1> QED BY <1>11 DEF Tables

\* A request of p that is well formed after the step of p, with its lock.
RequestTyped(p) ==
    /\ req' \in [Procs -> Request]
    /\ lock' \in [Names -> Procs \cup {None}]
    /\ \A q \in Procs : q # p => req'[q] = req[q]
    /\ req'[p].pc # "idle" => req'[p].op # "none" /\ req'[p].name # None
    /\ req'[p].pc \in {"user", "session", "compensate", "failed"} => req'[p].id # None

\* The request and its place after a step of its own thread.
LEMMA OwnStep ==
    ASSUME AccountsInv, NoneAssumption, NEW p \in Procs,
           \/ Step(p) \/ Fail(p)
           \/ \E n \in Names : StartLogin(p, n)
           \/ \E op \in {"register", "create"}, n \in Names : StartCreate(p, op, n)
    PROVE  RequestTyped(p) /\ Place(p)' /\ BelowLimit(p)'
<1> DEFINE Goal == RequestTyped(p) /\ Place(p)' /\ BelowLimit(p)'
           Same == /\ req'[p].op = req[p].op /\ req'[p].name = req[p].name
                   /\ req'[p].id = req[p].id
<1>0. /\ TypeOK /\ Place(p) /\ req[p] \in Request
      /\ Idle \in Request /\ Idle.pc = "idle"
  BY DEF AccountsInv, TypeOK, Request, Idle, InLock
<1>1. Finish(p) => Goal
  BY <1>0, RequestMoves DEF RequestTyped, Place, BelowLimit, Holds, Idle, InLock
<1>2. ASSUME NEW pc \in {r.pc : r \in Request}, Goto(p, pc)
      PROVE  /\ Same /\ req'[p].pc = pc
             /\ req' \in [Procs -> Request]
             /\ \A q \in Procs : q # p => req'[q] = req[q]
  BY <1>0, <1>2, RequestMoves
<1>3. \A pc \in {"idle", "lock", "validate", "insertUser", "reload", "user", "session",
                 "compensate", "failed", "stranded", "count", "password", "fail", "audit"} :
         pc \in {r.pc : r \in Request}
  <2> TAKE pc \in {"idle", "lock", "validate", "insertUser", "reload", "user", "session",
                   "compensate", "failed", "stranded", "count", "password", "fail", "audit"}
  <2>1. [op |-> "none", pc |-> pc, name |-> None, id |-> None] \in Request
    BY DEF Request, InLock
  <2> QED BY <2>1
<1>4. ASSUME NEW i \in Ids PROVE account[i] # "unused" => account'[i] # "unused"
  BY <1>0, AccountsMove DEF Next, Step
<1> SUFFICES Goal
  OBVIOUS
<1> HIDE DEF Goal, Same
<1>5. ASSUME UNCHANGED lock,
             NEW pc \in {"stranded", "insertUser"}, Goto(p, pc),
             req[p].op # "none" /\ req[p].name # None
      PROVE  Goal
  <2>1. Same /\ req'[p].pc = pc
    BY <1>2, <1>3, <1>5
  <2> QED BY <1>0, <1>2, <1>3, <1>5, <2>1 DEF Goal, Same, RequestTyped, Place, BelowLimit, Holds, InLock, TypeOK
<1>6. ASSUME UNCHANGED lock, Goto(p, "compensate"), req[p].op = "register",
             req[p].pc \in {"user", "session"}
      PROVE  Goal
  BY <1>0, <1>2, <1>3, <1>4, <1>6
     DEF Goal, Same, RequestTyped, Place, BelowLimit, Holds, InLock, TypeOK, Request
<1>7. Raise(p) => Goal
  BY <1>1, <1>6 DEF Raise
<1>8. CASE LockLogin(p)
  <2>1. req[p].name \in Names /\ req[p].op = "login"
    BY <1>0, <1>8 DEF LockLogin, TypeOK, Request, Place
  <2>2. lock' \in [Names -> Procs \cup {None}] /\ lock'[req[p].name] = p
    BY <1>0, <1>8, <2>1 DEF LockLogin, TypeOK
  <2>3. Same /\ req'[p].pc = "count"
    BY <1>2, <1>3, <1>8 DEF LockLogin
  <2> QED BY <1>0, <1>2, <1>3, <1>8, <2>1, <2>2, <2>3
          DEF LockLogin, Goal, Same, RequestTyped, Place, BelowLimit, Holds, InLock, TypeOK
<1>9. CASE CheckLimit(p)
  <2>1. CASE failures[req[p].name] < Limit /\ Goto(p, "password") /\ UNCHANGED lock
    BY <1>0, <1>2, <1>3, <1>9, <2>1
       DEF CheckLimit, Goal, Same, RequestTyped, Place, BelowLimit, Holds, InLock, TypeOK
  <2> QED BY <1>1, <1>9, <2>1 DEF CheckLimit
<1>10. CASE CheckPassword(p)
  <2>1. ASSUME NEW i \in Ids, account[i] = "enabled",
               req' = [req EXCEPT ![p].pc = "user", ![p].id = i]
        PROVE  Goal
    <3>1. [req[p] EXCEPT !.pc = "user", !.id = i] \in Request
      BY <1>0 DEF Request
    <3>2. /\ req'[p].pc = "user" /\ req'[p].id = i
          /\ req'[p].op = req[p].op /\ req'[p].name = req[p].name
      BY <1>0, <2>1 DEF TypeOK, Request
    <3>3. req' \in [Procs -> Request] /\ \A q \in Procs : q # p => req'[q] = req[q]
      BY <1>0, <2>1, <3>1 DEF TypeOK
    <3>4. account' = account /\ lock' = lock /\ req[p].op = "login"
      BY <1>0, <1>10 DEF CheckPassword, Place, InLock, Rows
    <3> QED BY <1>0, <1>10, <2>1, <3>2, <3>3, <3>4, NoneAssumption
            DEF CheckPassword, Goal, RequestTyped, Place, BelowLimit, Holds, InLock, TypeOK
  <2>2. CASE Goto(p, "fail")
    BY <1>0, <1>2, <1>3, <1>10, <2>2
       DEF CheckPassword, Goal, Same, RequestTyped, Place, BelowLimit, Holds, InLock, TypeOK,
           AccountsInv
  <2> QED BY <1>10, <2>1, <2>2 DEF CheckPassword
<1>11. CASE RecordFailure(p) \/ RecordSuccess(p) \/ Respond(p)
  BY <1>1, <1>11 DEF RecordFailure, RecordSuccess, Respond
<1>12. CASE CheckUser(p)
  <2>1. CASE Goto(p, "session") /\ UNCHANGED lock
    BY <1>0, <1>2, <1>3, <1>4, <1>12, <2>1
       DEF CheckUser, Goal, Same, RequestTyped, Place, BelowLimit, Holds, InLock, TypeOK, Request
  <2> QED BY <1>7, <1>12, <2>1 DEF CheckUser
<1>13. CASE InsertSession(p)
  <2>1. CASE req[p].op = "login" /\ Goto(p, "audit") /\ UNCHANGED lock
    BY <1>0, <1>2, <1>3, <1>13, <2>1
       DEF InsertSession, Goal, Same, RequestTyped, Place, BelowLimit, Holds, InLock, TypeOK
  <2> QED BY <1>1, <1>7, <1>13, <2>1 DEF InsertSession
<1>14. CASE ValidateName(p)
  <2>1. req[p].op # "none" /\ req[p].name # None
    BY <1>0, <1>14 DEF ValidateName, TypeOK
  <2> QED BY <1>5, <1>7, <1>14, <2>1 DEF ValidateName
<1>15. CASE InsertUser(p)
  <2>1. ASSUME NEW i \in Ids, account' = [account EXCEPT ![i] = "enabled"], UNCHANGED lock,
               req' = [req EXCEPT ![p].pc = "reload", ![p].id = i]
        PROVE  Goal
    <3>1. [req[p] EXCEPT !.pc = "reload", !.id = i] \in Request
      BY <1>0 DEF Request
    <3>2. /\ req'[p].pc = "reload" /\ req'[p].id = i
          /\ req'[p].op = req[p].op /\ req'[p].name = req[p].name
      BY <1>0, <2>1 DEF TypeOK, Request
    <3>3. req' \in [Procs -> Request] /\ \A q \in Procs : q # p => req'[q] = req[q]
      BY <1>0, <2>1, <3>1 DEF TypeOK
    <3>4. account'[i] = "enabled" /\ req[p].op # "none" /\ req[p].name # None
      BY <1>0, <1>15, <2>1 DEF InsertUser, TypeOK
    <3> QED BY <1>0, <2>1, <3>2, <3>3, <3>4
            DEF Goal, RequestTyped, Place, BelowLimit, Holds, InLock, TypeOK
  <2> QED BY <1>7, <1>15, <2>1 DEF InsertUser
<1>16. CASE ReloadUser(p)
  <2>1. CASE Present(req[p].id) /\ req[p].op = "register" /\ Goto(p, "user") /\ UNCHANGED lock
    BY <1>0, <1>2, <1>3, <1>4, <1>16, <2>1, NoneAssumption
       DEF ReloadUser, Goal, Same, RequestTyped, Place, BelowLimit, Holds, InLock, TypeOK
  <2> QED BY <1>1, <1>16, <2>1 DEF ReloadUser
<1>17. CASE Compensate(p)
  <2>1. account[req[p].id] \in {"enabled", "disabled", "deleted"} /\ req[p].id \in Ids
        /\ req[p].op = "register"
    BY <1>0, <1>17 DEF Compensate, Place, TypeOK
  <2>2. account'[req[p].id] = "deleted"
    BY <1>0, <1>17, <2>1 DEF Compensate, DeleteRow, Present, Rows, TypeOK
  <2>3. Same /\ req'[p].pc = "failed" /\ UNCHANGED lock
    BY <1>2, <1>3, <1>17 DEF Compensate
  <2> QED BY <1>0, <1>2, <1>3, <1>17, <2>1, <2>2, <2>3, NoneAssumption
          DEF Compensate, Goal, Same, RequestTyped, Place, BelowLimit, Holds, InLock, TypeOK
<1>18. CASE Fail(p)
  <2>1. CASE Goto(p, "stranded") /\ UNCHANGED lock
    <3>1. req[p].op # "none" /\ req[p].name # None
      BY <1>0, <1>18 DEF Fail, TypeOK
    <3> QED BY <1>5, <2>1, <3>1
  <2> QED BY <1>7, <1>18, <2>1 DEF Fail
<1>19. ASSUME NEW n \in Names, NEW r \in Request, r.name = n, req' = [req EXCEPT ![p] = r],
              \/ r.op = "login" /\ r.pc = "lock"
              \/ r.op \in {"register", "create"} /\ r.pc = "validate",
              UNCHANGED lock
       PROVE  Goal
  BY <1>0, <1>19, NoneAssumption
     DEF Goal, RequestTyped, Place, BelowLimit, Holds, InLock, TypeOK
<1>20. ASSUME NEW n \in Names, StartLogin(p, n) PROVE Goal
  <2>1. [op |-> "login", pc |-> "lock", name |-> n, id |-> None] \in Request
    BY DEF Request
  <2> QED BY <1>19, <1>20, <2>1 DEF StartLogin
<1>21. ASSUME NEW op \in {"register", "create"}, NEW n \in Names, StartCreate(p, op, n)
       PROVE  Goal
  <2>1. [op |-> op, pc |-> "validate", name |-> n, id |-> None] \in Request
    BY DEF Request
  <2> QED BY <1>19, <1>21, <2>1 DEF StartCreate
<1>22. Goal
  BY <1>8, <1>9, <1>10, <1>11, <1>12, <1>13, <1>14, <1>15, <1>16, <1>17, <1>18, <1>20, <1>21
     DEF Step
<1> QED BY <1>22 DEF Goal

\* The administrator, logout and time touch no request and no lock.
LEMMA SystemStep ==
    ASSUME AccountsInv,
           \/ \E i \in Ids : Toggle(i) \/ Delete(i)
           \/ \E s \in Tokens : EndSession(s)
           \/ \E n \in Names : FailureAges(n)
           \/ UNCHANGED vars
    PROVE  UNCHANGED <<req, lock>> /\ \A q \in Procs : Undisturbed(q)
<1>1. UNCHANGED <<req, lock>>
  BY DEF Toggle, Delete, DeleteRow, EndSession, FailureAges, vars
<1>2. \A n \in Names : failures'[n] <= failures[n]
  <2>1. CASE failures' = failures
    BY <2>1 DEF AccountsInv, TypeOK
  <2>2. ASSUME NEW n \in Names, FailureAges(n) PROVE \A m \in Names : failures'[m] <= failures[m]
    BY <2>2 DEF FailureAges, AccountsInv, TypeOK
  <2> QED BY <2>1, <2>2 DEF Toggle, Delete, DeleteRow, EndSession, vars
<1>3. \A q \in Procs : Holds(q) => req[q].name \in Names
  BY DEF AccountsInv, TypeOK, Place, Holds, InLock, Request
<1> QED BY <1>1, <1>2, <1>3 DEF Undisturbed

LEMMA FailuresStep ==
    ASSUME AccountsInv, LimitAssumption, [Next]_vars
    PROVE  failures' \in [Names -> Nat] /\ FailuresWithinLimit'
<1> USE DEF AccountsInv, TypeOK, FailuresWithinLimit, LimitAssumption
<1>1. ASSUME NEW p \in Procs, RecordFailure(p)
      PROVE  failures' \in [Names -> Nat] /\ FailuresWithinLimit'
  <2>1. req[p].name \in Names /\ failures[req[p].name] < Limit
    BY <1>1 DEF RecordFailure, BelowLimit, Request
  <2> QED BY <1>1, <2>1 DEF RecordFailure
<1>2. ASSUME NEW p \in Procs, RecordSuccess(p)
      PROVE  failures' \in [Names -> Nat] /\ FailuresWithinLimit'
  <2>1. req[p].name \in Names
    BY <1>2 DEF RecordSuccess, Request
  <2> QED BY <1>2, <2>1 DEF RecordSuccess
<1>3. ASSUME NEW n \in Names, FailureAges(n)
      PROVE  failures' \in [Names -> Nat] /\ FailuresWithinLimit'
  BY <1>3 DEF FailureAges
<1>4. CASE failures' = failures
  BY <1>4
<1> QED
  BY <1>1, <1>2, <1>3, <1>4
     DEF Next, vars, Step, Fail, StartLogin, StartCreate, Toggle, Delete, DeleteRow, EndSession,
         LockLogin, CheckLimit, CheckPassword, CheckUser, InsertSession, ValidateName,
         InsertUser, ReloadUser, Compensate, Respond

LEMMA HistoryTypes ==
    ASSUME AccountsInv, FaultsAssumption, [Next]_vars
    PROVE  ended' \subseteq Tokens /\ faults' \in 0..MaxFaults
<1>1. ended' = ended \/ Record
  BY DEF Next, vars, Step, Fail, StartLogin, StartCreate, Toggle, Delete, DeleteRow, EndSession,
         FailureAges, LockLogin, CheckLimit, CheckPassword, RecordFailure, RecordSuccess,
         CheckUser, InsertSession, ValidateName, InsertUser, ReloadUser, Compensate, Respond
<1>2. ended' \subseteq Tokens
  BY <1>1 DEF Record, AccountsInv, TypeOK
<1>3. faults' = faults \/ (faults < MaxFaults /\ faults' = faults + 1)
  BY DEF Next, vars, Step, Fail, StartLogin, StartCreate, Toggle, Delete, DeleteRow, EndSession,
         FailureAges, LockLogin, CheckLimit, CheckPassword, RecordFailure, RecordSuccess,
         CheckUser, InsertSession, ValidateName, InsertUser, ReloadUser, Compensate, Respond
<1> QED BY <1>2, <1>3 DEF AccountsInv, TypeOK, FaultsAssumption

LEMMA ThreadsStep ==
    ASSUME AccountsInv, LimitAssumption, FaultsAssumption, NoneAssumption, [Next]_vars
    PROVE  TypeOK' /\ \A q \in Procs : Place(q)' /\ BelowLimit(q)'
<1> DEFINE Thread(p) == \/ Step(p) \/ Fail(p)
                        \/ \E n \in Names : StartLogin(p, n)
                        \/ \E op \in {"register", "create"}, n \in Names : StartCreate(p, op, n)
           System == \/ \E i \in Ids : Toggle(i) \/ Delete(i)
                     \/ \E s \in Tokens : EndSession(s)
                     \/ \E n \in Names : FailureAges(n)
                     \/ UNCHANGED vars
<1>1. (\E p \in Procs : Thread(p)) \/ System
  BY DEF Next
<1>2. TypeOK
  BY DEF AccountsInv
<1>3. ASSUME NEW p \in Procs, Thread(p) PROVE TypeOK' /\ \A q \in Procs : Place(q)' /\ BelowLimit(q)'
  <2>1. RequestTyped(p) /\ Place(p)' /\ BelowLimit(p)'
    BY <1>3, OwnStep
  <2>2. TypeOK'
    BY <1>2, <2>1, TableTypes, FailuresStep, HistoryTypes DEF TypeOK, RequestTyped
  <2>3. \A q \in Procs : q # p => Undisturbed(q)
    BY <1>3, OthersUndisturbed
  <2> QED BY <1>2, <2>1, <2>2, <2>3, UndisturbedKeeps DEF AccountsInv
<1>4. CASE System
  <2>1. UNCHANGED <<req, lock>> /\ \A q \in Procs : Undisturbed(q)
    BY <1>4, SystemStep
  <2>2. TypeOK'
    BY <1>2, <2>1, TableTypes, FailuresStep, HistoryTypes DEF TypeOK
  <2> QED BY <1>2, <2>1, <2>2, UndisturbedKeeps DEF AccountsInv
<1> QED BY <1>1, <1>3, <1>4

\* Only InsertUser gives a name, and to one account at a time.
LEMMA NamesStep == ASSUME AccountsInv, [Next]_vars PROVE NamesAreUnique'
<1> USE DEF AccountsInv, TypeOK, NamesAreUnique, Present
<1>1. ASSUME \A i \in Ids : Present(i)' => Present(i), nameOf' = nameOf PROVE NamesAreUnique'
  BY <1>1
<1>2. ASSUME NEW p \in Procs, InsertUser(p), ~UNCHANGED Rows PROVE NamesAreUnique'
  BY <1>2 DEF InsertUser, NameTaken
<1>3. ASSUME NEW i \in Ids, DeleteRow(i) PROVE NamesAreUnique'
  BY <1>1, <1>3 DEF DeleteRow
<1>4. ASSUME NEW i \in Ids, Toggle(i) PROVE NamesAreUnique'
  BY <1>1, <1>4 DEF Toggle
<1>5. CASE UNCHANGED Rows
  BY <1>1, <1>5 DEF Rows
<1>6. ASSUME NEW p \in Procs, Compensate(p) PROVE NamesAreUnique'
  <2>1. req[p].id \in Ids
    BY <1>6 DEF Compensate, Request
  <2> QED BY <1>3, <1>5, <1>6, <2>1 DEF Compensate
<1> HIDE DEF AccountsInv, TypeOK, NamesAreUnique, Present
<1>7. \/ UNCHANGED Rows
      \/ \E p \in Procs : InsertUser(p) \/ Compensate(p)
      \/ \E i \in Ids : DeleteRow(i) \/ Toggle(i)
  BY DEF Next, vars, Step, Fail, StartLogin, StartCreate, Delete, EndSession,
         FailureAges, LockLogin, CheckLimit, CheckPassword, RecordFailure, RecordSuccess,
         CheckUser, InsertSession, ValidateName, ReloadUser, Respond, Rows
<1> QED BY <1>2, <1>3, <1>4, <1>5, <1>6, <1>7

\* Sessions: an account that goes takes its live sessions along, and a session
\* is inserted only for an account that is there.
LEMMA SessionsStep ==
    ASSUME AccountsInv, [Next]_vars PROVE LiveSessionsHaveAccounts' /\ HistoryEnded'
<1> DEFINE Goal == LiveSessionsHaveAccounts' /\ HistoryEnded'
<1> USE DEF AccountsInv, TypeOK, LiveSessionsHaveAccounts, HistoryEnded, Present
<1>1. ASSUME UNCHANGED <<Rows, Sessions, ended>> PROVE Goal
  BY <1>1 DEF Rows, Sessions
<1>2. ASSUME NEW i \in Ids, DeleteRow(i), Record PROVE Goal
  BY <1>2 DEF DeleteRow, Record, Usable
<1>3. ASSUME NEW i \in Ids, Toggle(i) PROVE Goal
  BY <1>3 DEF Toggle, Revoke, Record, Usable
<1>4. ASSUME NEW p \in Procs, InsertUser(p) PROVE Goal
  BY <1>4 DEF InsertUser, Rows, Sessions
<1>5. ASSUME NEW p \in Procs, InsertSession(p) PROVE Goal
  BY <1>5 DEF InsertSession, ForeignKey, Rows, Sessions
<1>6. ASSUME NEW s \in Tokens, EndSession(s) PROVE Goal
  BY <1>6 DEF EndSession, Record, Usable, Rows
<1>7. ASSUME NEW p \in Procs, Compensate(p) PROVE Goal
  <2>1. req[p].id \in Ids
    BY <1>7 DEF Compensate, Request
  <2>2. CASE DeleteRow(req[p].id)
    BY <1>2, <1>7, <2>1, <2>2 DEF Compensate
  <2>3. CASE UNCHANGED <<Rows, Sessions>>
    <3>1. UNCHANGED ended
      BY <1>7, <2>3 DEF Compensate, Record, Usable, Rows, Sessions
    <3> QED BY <1>1, <2>3, <3>1
  <2> QED BY <1>7, <2>2, <2>3 DEF Compensate
<1> HIDE DEF AccountsInv, TypeOK, LiveSessionsHaveAccounts, HistoryEnded, Present, Goal
<1>8. \/ UNCHANGED <<Rows, Sessions, ended>>
      \/ \E p \in Procs : InsertUser(p) \/ InsertSession(p) \/ Compensate(p)
      \/ \E i \in Ids : (DeleteRow(i) /\ Record) \/ Toggle(i)
      \/ \E s \in Tokens : EndSession(s)
  BY DEF Next, vars, Step, Fail, StartLogin, StartCreate, Delete,
         FailureAges, LockLogin, CheckLimit, CheckPassword, RecordFailure, RecordSuccess,
         CheckUser, ValidateName, ReloadUser, Respond, Rows, Sessions
<1>9. Goal
  BY <1>1, <1>2, <1>3, <1>4, <1>5, <1>6, <1>7, <1>8
<1> QED BY <1>9 DEF Goal

\* What each thread may rely on, and what the tables contain, in every
\* reachable state.
THEOREM AccountsInvariant == Spec => []AccountsInv
<1>1. Init => AccountsInv
  BY FaultsAssumption, LimitAssumption
     DEF Init, AccountsInv, TypeOK, Place, BelowLimit, Holds, InLock, Idle, Request, Present,
         NamesAreUnique, LiveSessionsHaveAccounts, HistoryEnded, FailuresWithinLimit
<1>2. AccountsInv /\ [Next]_vars => AccountsInv'
  <2> SUFFICES ASSUME AccountsInv, [Next]_vars PROVE AccountsInv'
    OBVIOUS
  <2>1. TypeOK' /\ \A q \in Procs : Place(q)' /\ BelowLimit(q)'
    BY ThreadsStep, LimitAssumption, FaultsAssumption, NoneAssumption
  <2> QED BY <2>1, NamesStep, SessionsStep, FailuresStep, LimitAssumption DEF AccountsInv
<1> QED BY <1>1, <1>2, PTL DEF Spec

\* Whatever logout, expiry, the administrator, failing registrations and
\* concurrent logins do, a session that was usable and then was not is never
\* accepted again.
THEOREM EndedForGood == Spec => []EndedStaysEnded
<1>1. AccountsInv => EndedStaysEnded
  BY DEF AccountsInv, HistoryEnded, EndedStaysEnded, Usable
<1> QED BY <1>1, AccountsInvariant, PTL

\* Logins of one name that run at once never record more failures than the
\* limit, since each counts and records under the lock of the name.
THEOREM FailuresBounded == Spec => []FailuresWithinLimit
<1>1. AccountsInv => FailuresWithinLimit
  BY DEF AccountsInv
<1> QED BY <1>1, AccountsInvariant, PTL

\* When a registration answers that it failed, neither its account nor a
\* session of it is left, whatever an administrator did to it meanwhile.
THEOREM FailedLeavesNothing == Spec => []FailedRegistrationLeavesNothing
<1>1. AccountsInv => FailedRegistrationLeavesNothing
  BY DEF AccountsInv, Place, LiveSessionsHaveAccounts, Present, FailedRegistrationLeavesNothing
<1> QED BY <1>1, AccountsInvariant, PTL

\* Two accounts never share a name, and no live session belongs to an account
\* that is gone, although names and accounts are checked in transactions
\* before the one that inserts.
THEOREM TablesConsistent == Spec => [](NamesAreUnique /\ LiveSessionsHaveAccounts)
<1>1. AccountsInv => NamesAreUnique /\ LiveSessionsHaveAccounts
  BY DEF AccountsInv
<1> QED BY <1>1, AccountsInvariant, PTL

-----------------------------------------------------------------------------
(* LoginThrottle                                                           *)

\* A login that is past the lock of its stripe holds it.
HasStripe(p) ==
    login[p].pc \in {"count", "password", "fail", "success"} =>
        login[p].name \in UserNames /\ stripeLock[Stripe(p)] = p

\* Logins that passed the test of the limits and may still add a failure.
Passed == {p \in Threads : login[p].pc \in {"password", "fail"}}

\* Each of them is in a stripe of its own, and what they may still add is
\* within the bound.
AddressInv ==
    /\ rows \in [UserNames -> Nat]
    /\ stripeLock \in [Stripes -> Threads \cup {NoThread}]
    /\ login \in [Threads -> [pc : {"idle", "lock", "count", "password", "fail", "success"},
                              name : UserNames \cup {NoThread}]]
    /\ \A p \in Threads : login[p].pc # "idle" => login[p].name \in UserNames
    /\ \A p \in Threads : HasStripe(p)
    /\ IsFiniteSet(Audited)
    /\ IsFiniteSet(Passed)
    /\ AddressFailures + Cardinality(Passed) <= AddressLimit + Cardinality(Stripes) - 1

LEMMA StripeExists ==
    ASSUME ThrottleAssumption, NEW n \in UserNames PROVE StripeOf(n) \in Stripes
BY DEF ThrottleAssumption, StripeOf

\* As many logins can be between the test and the record as there are stripes:
\* log and held are login and stripeLock, before or after a step.
LEMMA OnePerStripe ==
    ASSUME ThrottleAssumption, NEW log, NEW held,
           \A p \in Threads : log[p].pc \in {"password", "fail"} =>
               log[p].name \in UserNames /\ held[StripeOf(log[p].name)] = p,
           NEW P, P = {p \in Threads : log[p].pc \in {"password", "fail"}}
    PROVE  IsFiniteSet(P) /\ Cardinality(P) <= Cardinality(Stripes)
<1> DEFINE f == [p \in P |-> StripeOf(log[p].name)]
<1>1. f \in Injection(P, Stripes)
  BY StripeExists DEF Injection, IsInjective
<1>2. IsFiniteSet(Stripes)
  BY DEF ThrottleAssumption
<1> HIDE DEF f
<1> QED BY <1>1, <1>2, FS_Injection

\* The audited failures with one more of a name, and with one less.
LEMMA AuditedGrows ==
    ASSUME rows \in [UserNames -> Nat], IsFiniteSet(Audited), NEW n \in UserNames,
           rows' = [rows EXCEPT ![n] = @ + 1]
    PROVE  IsFiniteSet(Audited') /\ Cardinality(Audited') = Cardinality(Audited) + 1
<1>1. Audited' = Audited \cup {<<n, rows[n] + 1>>}
  BY DEF Audited
<1>2. <<n, rows[n] + 1>> \notin Audited
  BY DEF Audited
<1> QED BY <1>1, <1>2, FS_AddElement

LEMMA AuditedShrinks ==
    ASSUME rows \in [UserNames -> Nat], IsFiniteSet(Audited), NEW n \in UserNames, rows[n] > 0,
           rows' = [rows EXCEPT ![n] = @ - 1]
    PROVE  IsFiniteSet(Audited') /\ Cardinality(Audited') <= Cardinality(Audited)
<1>1. Audited' \subseteq Audited
  BY DEF Audited
<1> QED BY <1>1, FS_Subset

LEMMA AddressStep ==
    ASSUME ThrottleAssumption, AddressInv, [NextThrottle]_throttleVars PROVE AddressInv'
<1> DEFINE Types == /\ rows' \in [UserNames -> Nat]
                    /\ stripeLock' \in [Stripes -> Threads \cup {NoThread}]
                    /\ login' \in [Threads -> [pc : {"idle", "lock", "count", "password", "fail",
                                                     "success"},
                                               name : UserNames \cup {NoThread}]]
                    /\ \A p \in Threads : login'[p].pc # "idle" => login'[p].name \in UserNames
                    /\ \A p \in Threads : HasStripe(p)'
<1>0. /\ AddressFailures \in Nat /\ Cardinality(Passed) \in Nat
      /\ Cardinality(Stripes) \in Nat /\ AddressLimit \in Nat
  BY FS_CardinalityType DEF AddressInv, AddressFailures, ThrottleAssumption
\* Who returns has nothing left to add, and gives back no stripe but its own.
<1>1. ASSUME NEW p \in Threads, Return(p),
             login[p].pc \in {"count", "password", "fail", "success"}, rows' \in [UserNames -> Nat]
      PROVE  Types /\ Passed' = Passed \ {p}
  <2>1. Away \in [pc : {"idle"}, name : UserNames \cup {NoThread}]
    BY DEF Away
  <2>2. login' = [login EXCEPT ![p] = Away]
    BY <1>1 DEF Return
  <2>3. stripeLock' = [stripeLock EXCEPT ![Stripe(p)] = NoThread] /\ stripeLock[Stripe(p)] = p
    BY <1>1 DEF Return, AddressInv, HasStripe
  <2>4. \A q \in Threads : q # p => login'[q] = login[q] /\ HasStripe(q)'
    BY <2>2, <2>3 DEF AddressInv, HasStripe, Stripe
  <2>5. login'[p] = Away /\ login'[p].pc = "idle"
    BY <2>2 DEF AddressInv, Away
  <2>6. Passed' = Passed \ {p}
    BY <2>4, <2>5 DEF Passed
  <2> QED BY <1>1, <2>1, <2>2, <2>3, <2>4, <2>5, <2>6 DEF AddressInv, HasStripe
<1>2. ASSUME NEW p \in Threads, NEW pc \in {"count", "password", "fail", "success"}, Move(p, pc),
             login[p].name \in UserNames, UNCHANGED rows,
             \/ UNCHANGED stripeLock /\ stripeLock[Stripe(p)] = p
             \/ StripeFree(p) /\ stripeLock' = [stripeLock EXCEPT ![Stripe(p)] = p]
      PROVE  /\ Types
             /\ Passed' = IF pc \in {"password", "fail"} THEN Passed \cup {p} ELSE Passed \ {p}
  <2>1. /\ login'[p].pc = pc /\ login'[p].name = login[p].name
        /\ \A q \in Threads : q # p => login'[q] = login[q]
        /\ login' \in [Threads -> [pc : {"idle", "lock", "count", "password", "fail", "success"},
                                   name : UserNames \cup {NoThread}]]
    BY <1>2 DEF Move, AddressInv
  <2>2. Stripe(p) \in Stripes /\ Stripe(p)' = Stripe(p)
    BY <1>2, <2>1, StripeExists DEF Stripe
  <2>3. /\ stripeLock'[Stripe(p)] = p
        /\ stripeLock' \in [Stripes -> Threads \cup {NoThread}]
        /\ \A s \in Stripes, q \in Threads : q # p /\ stripeLock[s] = q => stripeLock'[s] = q
    BY <1>2, <2>2 DEF AddressInv, StripeFree, ThrottleAssumption
  <2>4. \A q \in Threads : q # p => HasStripe(q)'
    <3> TAKE q \in Threads
    <3> SUFFICES ASSUME q # p, login[q].pc \in {"count", "password", "fail", "success"}
                 PROVE  login[q].name \in UserNames /\ stripeLock'[Stripe(q)] = q
      BY <2>1 DEF HasStripe, Stripe
    <3>1. login[q].name \in UserNames /\ stripeLock[Stripe(q)] = q
      BY DEF AddressInv, HasStripe
    <3> QED BY <2>3, <3>1, StripeExists DEF Stripe
  <2>5. HasStripe(p)'
    BY <1>2, <2>1, <2>2, <2>3 DEF HasStripe
  <2>6. Passed' = IF pc \in {"password", "fail"} THEN Passed \cup {p} ELSE Passed \ {p}
    BY <2>1 DEF Passed
  <2> QED BY <1>2, <2>1, <2>3, <2>4, <2>5, <2>6 DEF AddressInv
<1>3. ASSUME Types PROVE IsFiniteSet(Passed') /\ Cardinality(Passed') <= Cardinality(Stripes)
  <2>1. \A p \in Threads : login'[p].pc \in {"password", "fail"} =>
           login'[p].name \in UserNames /\ stripeLock'[StripeOf(login'[p].name)] = p
    BY <1>3 DEF HasStripe, Stripe
  <2>2. Passed' = {p \in Threads : login'[p].pc \in {"password", "fail"}}
    BY DEF Passed
  <2> HIDE DEF Types
  <2> QED BY <2>1, <2>2, OnePerStripe
\* Without a new failure the sum grows only when a login passes the test, which
\* it does below the limit.
<1>4. ASSUME Types, IsFiniteSet(Audited'), AddressFailures' \in Nat,
             \/ AddressFailures' <= AddressFailures /\ Cardinality(Passed') <= Cardinality(Passed)
             \/ AddressFailures' = AddressFailures + 1 /\ Cardinality(Passed') = Cardinality(Passed) - 1
             \/ AddressFailures' < AddressLimit
      PROVE  AddressInv'
  <2>1. IsFiniteSet(Passed') /\ Cardinality(Passed') <= Cardinality(Stripes)
    BY <1>3, <1>4
  <2>2. Cardinality(Passed') \in Nat
    BY <2>1, FS_CardinalityType
  <2>3. AddressFailures' + Cardinality(Passed') <= AddressLimit + Cardinality(Stripes) - 1
    BY <1>0, <1>4, <2>1, <2>2 DEF AddressInv
  <2> QED BY <1>4, <2>1, <2>3 DEF AddressInv
<1>5. IsFiniteSet(Passed)
  BY DEF AddressInv
<1>6. ASSUME NEW p \in Threads PROVE Cardinality(Passed \ {p}) <= Cardinality(Passed)
  BY <1>5, Passed \ {p} \in SUBSET Passed, FS_Subset
<1>7. ASSUME UNCHANGED rows
      PROVE  IsFiniteSet(Audited') /\ AddressFailures' = AddressFailures /\ AddressFailures' \in Nat
  BY <1>0, <1>7 DEF AddressInv, Audited, AddressFailures
<1>8. ASSUME NEW p \in Threads, Login(p) PROVE AddressInv'
  <2>1. CASE Arrive(p)
    <3>1. PICK n \in UserNames : login' = [login EXCEPT ![p] = [pc |-> "lock", name |-> n]]
      BY <2>1 DEF Arrive
    <3>2. Types
      BY <2>1, <3>1 DEF Arrive, AddressInv, HasStripe, Stripe
    <3>3. Passed' = Passed
      BY <2>1, <3>1 DEF Arrive, Passed, AddressInv
    <3> HIDE DEF Types
    <3> QED BY <1>0, <1>4, <1>7, <2>1, <3>2, <3>3 DEF Arrive
  <2>2. CASE TakeStripe(p)
    <3>1. login[p].name \in UserNames /\ p \notin Passed
      BY <2>2 DEF TakeStripe, AddressInv, Passed
    <3>2. Types /\ Passed' = Passed \ {p}
      BY <1>2, <2>2, <3>1 DEF TakeStripe
    <3> HIDE DEF Types
    <3> QED BY <1>0, <1>4, <1>6, <1>7, <2>2, <3>2 DEF TakeStripe
  <2>3. CASE Count(p)
    <3>1. CASE BelowLimits(p) /\ Move(p, "password") /\ UNCHANGED stripeLock
      <4>1. login[p].name \in UserNames /\ stripeLock[Stripe(p)] = p
        BY <2>3 DEF Count, AddressInv, HasStripe
      <4>2. Types
        BY <1>2, <2>3, <3>1, <4>1 DEF Count
      <4> HIDE DEF Types
      <4> QED BY <1>4, <1>7, <2>3, <3>1, <4>2 DEF Count, BelowLimits
    <3>2. CASE Return(p)
      <4>1. Types /\ Passed' = Passed \ {p}
        BY <1>1, <2>3, <3>2 DEF Count, AddressInv
      <4> HIDE DEF Types
      <4> QED BY <1>0, <1>4, <1>6, <1>7, <2>3, <4>1 DEF Count
    <3> QED BY <2>3, <3>1, <3>2 DEF Count
  <2>4. CASE Password(p)
    <3>1. ASSUME NEW pc \in {"fail", "success"}, Move(p, pc), UNCHANGED stripeLock PROVE AddressInv'
      <4>1. login[p].name \in UserNames /\ stripeLock[Stripe(p)] = p /\ p \in Passed
        BY <2>4 DEF Password, AddressInv, HasStripe, Passed
      <4>2. /\ Types
            /\ Passed' = IF pc \in {"password", "fail"} THEN Passed \cup {p} ELSE Passed \ {p}
        <5>1. UNCHANGED rows /\ pc \in {"count", "password", "fail", "success"}
          BY <2>4 DEF Password
        <5> HIDE DEF Types
        <5> QED BY <1>2, <3>1, <4>1, <5>1
      <4>3. Passed' \in {Passed, Passed \ {p}}
        BY <4>1, <4>2
      <4> HIDE DEF Types
      <4> QED BY <1>0, <1>4, <1>6, <1>7, <2>4, <4>2, <4>3 DEF Password
    <3>2. CASE Return(p)
      <4>1. Types /\ Passed' = Passed \ {p}
        BY <1>1, <2>4, <3>2 DEF Password, AddressInv
      <4> HIDE DEF Types
      <4> QED BY <1>0, <1>4, <1>6, <1>7, <2>4, <4>1 DEF Password
    <3> QED BY <2>4, <3>1, <3>2 DEF Password
  <2>5. CASE AuditFailure(p)
    <3>1. login[p].name \in UserNames /\ p \in Passed /\ rows \in [UserNames -> Nat]
      BY <2>5 DEF AuditFailure, AddressInv, HasStripe, Passed
    <3>2. IsFiniteSet(Audited') /\ AddressFailures' = AddressFailures + 1
      BY <2>5, <3>1, AuditedGrows DEF AuditFailure, AddressInv, AddressFailures
    <3>3. rows' \in [UserNames -> Nat]
      BY <2>5, <3>1 DEF AuditFailure
    <3>4. Types /\ Passed' = Passed \ {p}
      BY <1>1, <2>5, <3>3 DEF AuditFailure
    <3>5. Cardinality(Passed') = Cardinality(Passed) - 1
      BY <1>5, <3>1, <3>4, FS_RemoveElement
    <3> HIDE DEF Types
    <3> QED BY <1>0, <1>4, <3>2, <3>4, <3>5
  <2>6. CASE AuditSuccess(p)
    <3>1. Types /\ Passed' = Passed \ {p}
      BY <1>1, <2>6 DEF AuditSuccess, AddressInv
    <3> HIDE DEF Types
    <3> QED BY <1>0, <1>4, <1>6, <1>7, <2>6, <3>1 DEF AuditSuccess
  <2> QED BY <1>8, <2>1, <2>2, <2>3, <2>4, <2>5, <2>6 DEF Login
<1>9. ASSUME UNCHANGED <<stripeLock, login>>, rows' \in [UserNames -> Nat]
      PROVE  Types /\ Passed' = Passed
  BY <1>9 DEF AddressInv, HasStripe, Stripe, Passed
<1>10. ASSUME NEW n \in UserNames, Age(n) PROVE AddressInv'
  <2>1. rows \in [UserNames -> Nat] /\ rows[n] > 0 /\ rows' = [rows EXCEPT ![n] = @ - 1]
    BY <1>10 DEF Age, AddressInv
  <2>2. IsFiniteSet(Audited') /\ AddressFailures' <= AddressFailures
    BY <2>1, AuditedShrinks DEF AddressInv, AddressFailures
  <2>3. AddressFailures' \in Nat
    BY <2>2, FS_CardinalityType DEF AddressFailures
  <2>4. rows' \in [UserNames -> Nat]
    BY <2>1
  <2>5. Types /\ Passed' = Passed
    BY <1>9, <1>10, <2>4 DEF Age
  <2> HIDE DEF Types
  <2> QED BY <1>0, <1>4, <2>2, <2>3, <2>5
<1>11. CASE UNCHANGED loginVars
  <2>1. Types /\ Passed' = Passed
    BY <1>9, <1>11 DEF loginVars, AddressInv
  <2> HIDE DEF Types
  <2> QED BY <1>0, <1>4, <1>7, <1>11, <2>1 DEF loginVars
<1> QED BY <1>8, <1>10, <1>11 DEF NextThrottle, throttleVars

\* Failures and logins past their test stay within the bound, in every reachable
\* state.
THEOREM AddressInvariant == ASSUME ThrottleAssumption PROVE SpecThrottle => []AddressInv
<1>1. ASSUME InitThrottle PROVE AddressInv
  <2>1. Audited = {} /\ Passed = {}
    BY <1>1 DEF InitThrottle, Audited, Passed, Away
  <2>2. Cardinality(Stripes) \in Nat /\ AddressLimit \in Nat \ {0}
    BY FS_CardinalityType DEF ThrottleAssumption
  <2> QED BY <1>1, <2>1, <2>2, FS_EmptySet
          DEF InitThrottle, AddressInv, AddressFailures, Away, HasStripe
<1> QED BY <1>1, AddressStep, PTL DEF SpecThrottle

\* The failures of an address pass its limit by less than the number of
\* stripes, however many threads try however many names at once.
THEOREM OvershootBounded ==
    ASSUME ThrottleAssumption PROVE SpecThrottle => []AddressOvershootIsBounded
<1>1. AddressInv => AddressOvershootIsBounded
  <2> SUFFICES ASSUME AddressInv PROVE AddressOvershootIsBounded
    OBVIOUS
  <2>1. /\ AddressFailures \in Nat /\ Cardinality(Passed) \in Nat
        /\ Cardinality(Stripes) \in Nat /\ AddressLimit \in Nat
    BY FS_CardinalityType DEF AddressInv, AddressFailures, ThrottleAssumption
  <2> QED BY <2>1 DEF AddressInv, AddressOvershootIsBounded
<1> QED BY <1>1, AddressInvariant, PTL

\* The times kept for an address are the last of those at which it was let
\* through, no more than the limit, and all before them have left the window.
Suffix(kept, all, t) ==
    /\ kept \in Seq(Nat) /\ all \in Seq(Nat)
    /\ Len(kept) <= Len(all) /\ Len(kept) <= RegisterLimit
    /\ \A j \in 1..Len(kept) : kept[j] = all[Len(all) - Len(kept) + j]
    /\ \A i \in 1..(Len(all) - Len(kept)) : t - all[i] >= Window

RegisterInv ==
    /\ now \in Nat
    /\ attempts \in [Addresses -> Seq(Nat)] /\ admitted \in [Addresses -> Seq(Nat)]
    /\ \A a \in Addresses : Suffix(attempts[a], admitted[a], now)

LEMMA SuffixEmpty ==
    ASSUME ThrottleAssumption, NEW t \in Nat PROVE Suffix(<<>>, <<>>, t)
BY DEF Suffix, ThrottleAssumption

LEMMA SuffixLater ==
    ASSUME ThrottleAssumption, NEW kept, NEW all, NEW t \in Nat, NEW u \in Nat, t <= u,
           Suffix(kept, all, t)
    PROVE  Suffix(kept, all, u)
<1>0. kept \in Seq(Nat) /\ all \in Seq(Nat) /\ Window \in Nat
  BY DEF Suffix, ThrottleAssumption
<1>1. ASSUME NEW i \in 1..(Len(all) - Len(kept)) PROVE u - all[i] >= Window
  <2>1. i \in 1..Len(all) /\ all[i] \in Nat
    BY <1>0
  <2>2. t - all[i] >= Window
    BY DEF Suffix
  <2> DEFINE x == all[i]
  <2>3. x \in Nat /\ t - x >= Window
    BY <2>1, <2>2
  <2> HIDE DEF x
  <2>4. u - x >= Window
    BY <1>0, <2>3
  <2> QED BY <2>4 DEF x
<1> QED BY <1>1 DEF Suffix

\* Popping times that are old by a clock read earlier: they are old.
LEMMA SuffixPopped ==
    ASSUME ThrottleAssumption, NEW kept, NEW all, NEW n \in Nat, NEW t \in 0..n, Suffix(kept, all, n),
           NEW old \in 0..Len(kept), \A i \in 1..old : ~Fresh(t, kept[i])
    PROVE  Suffix(SubSeq(kept, old + 1, Len(kept)), all, n)
<1> DEFINE rest == SubSeq(kept, old + 1, Len(kept))
           d == Len(all) - Len(kept)
<1>1. /\ kept \in Seq(Nat) /\ all \in Seq(Nat) /\ Len(kept) \in Nat /\ Len(all) \in Nat
      /\ Len(kept) <= Len(all) /\ Len(kept) <= RegisterLimit
      /\ \A j \in 1..Len(kept) : kept[j] = all[d + j]
      /\ \A i \in 1..d : n - all[i] >= Window
      /\ RegisterLimit \in Nat /\ Window \in Nat
  BY DEF Suffix, ThrottleAssumption
<1>2. /\ rest \in Seq(Nat) /\ Len(rest) = Len(kept) - old
      /\ \A j \in 1..(Len(kept) - old) : rest[j] = kept[old + j]
  BY <1>1
<1>3. Len(all) - Len(rest) = d + old /\ d \in Nat
  <2> HIDE DEF rest
  <2> QED BY <1>1, <1>2
<1> HIDE DEF rest, d
<1>4. ASSUME NEW j \in 1..Len(rest) PROVE rest[j] = all[(d + old) + j]
  <2>1. old + j \in 1..Len(kept) /\ rest[j] = kept[old + j]
    BY <1>1, <1>2
  <2>2. kept[old + j] = all[d + (old + j)]
    BY <1>1, <2>1
  <2> QED BY <1>1, <1>3, <2>1, <2>2
<1>5. ASSUME NEW i \in 1..(d + old) PROVE n - all[i] >= Window
  <2>1. CASE i \in 1..d
    BY <1>1, <2>1
  <2>2. CASE i \notin 1..d
    <3> DEFINE j == i - d
    <3>1. j \in 1..old /\ j \in 1..Len(kept) /\ d + j = i
      BY <1>1, <1>3, <2>2
    <3> HIDE DEF j
    <3>a. kept[j] = all[i]
      BY <1>1, <3>1
    <3>b. kept[j] \in Nat
      BY <1>1, <3>1
    <3>c. ~(t - kept[j] < Window)
      BY <3>1 DEF Fresh
    <3>2. kept[j] = all[i] /\ kept[j] \in Nat /\ ~(t - kept[j] < Window)
      BY <3>a, <3>b, <3>c
    <3>3. n - kept[j] >= Window
      BY <1>1, <3>2
    <3> QED BY <3>2, <3>3
  <2> QED BY <2>1, <2>2
<1>6. Suffix(rest, all, n)
  BY <1>1, <1>2, <1>3, <1>4, <1>5 DEF Suffix
<1> QED BY <1>6 DEF rest

LEMMA SuffixPushed ==
    ASSUME ThrottleAssumption, NEW kept, NEW all, NEW n \in Nat, Suffix(kept, all, n),
           Len(kept) < RegisterLimit, NEW t \in 0..n
    PROVE  Suffix(Append(kept, t), Append(all, t), n)
<1> DEFINE k == Append(kept, t)
           s == Append(all, t)
           d == Len(all) - Len(kept)
<1>1. /\ kept \in Seq(Nat) /\ all \in Seq(Nat) /\ Len(kept) \in Nat /\ Len(all) \in Nat
      /\ Len(kept) <= Len(all) /\ RegisterLimit \in Nat
      /\ \A j \in 1..Len(kept) : kept[j] = all[d + j]
      /\ \A i \in 1..d : n - all[i] >= Window
  BY DEF Suffix, ThrottleAssumption
<1>2. /\ k \in Seq(Nat) /\ Len(k) = Len(kept) + 1 /\ k[Len(kept) + 1] = t
      /\ \A j \in 1..Len(kept) : k[j] = kept[j]
  BY <1>1
<1>3. /\ s \in Seq(Nat) /\ Len(s) = Len(all) + 1 /\ s[Len(all) + 1] = t
      /\ \A j \in 1..Len(all) : s[j] = all[j]
  BY <1>1
<1>4. Len(s) - Len(k) = d /\ d \in Nat
  <2> HIDE DEF k, s
  <2> QED BY <1>1, <1>2, <1>3
<1> HIDE DEF k, s, d
<1>5. ASSUME NEW j \in 1..Len(k) PROVE k[j] = s[d + j]
  <2>1. CASE j = Len(kept) + 1
    <3>1. d + j = Len(all) + 1
      BY <1>1, <2>1 DEF d
    <3> QED BY <1>2, <1>3, <2>1, <3>1
  <2>2. CASE j \in 1..Len(kept)
    <3>1. d + j \in 1..Len(all)
      BY <1>1, <1>4, <2>2 DEF d
    <3> QED BY <1>1, <1>2, <1>3, <2>2, <3>1
  <2> QED BY <1>1, <1>2, <2>1, <2>2
<1>6. ASSUME NEW i \in 1..d PROVE n - s[i] >= Window
  <2>1. i \in 1..Len(all)
    BY <1>1 DEF d
  <2> QED BY <1>1, <1>3, <2>1
<1>7. Suffix(k, s, n)
  <2>1. Len(k) <= Len(s) /\ Len(k) <= RegisterLimit
    BY <1>1, <1>2, <1>3
  <2>2. /\ \A j \in 1..Len(k) : k[j] = s[(Len(s) - Len(k)) + j]
        /\ \A i \in 1..(Len(s) - Len(k)) : n - s[i] >= Window
    BY <1>4, <1>5, <1>6
  <2> QED BY <1>2, <1>3, <2>1, <2>2 DEF Suffix
<1> QED BY <1>7 DEF k, s

\* What is in the window is among the times kept.
LEMMA SuffixBounds ==
    ASSUME ThrottleAssumption, NEW kept, NEW all, NEW n \in Nat, Suffix(kept, all, n)
    PROVE  Cardinality({i \in DOMAIN all : n - all[i] < Window}) <= RegisterLimit
<1> DEFINE recent == {i \in DOMAIN all : n - all[i] < Window}
           d == Len(all) - Len(kept)
<1>1. /\ Len(kept) \in Nat /\ Len(all) \in Nat /\ d \in Nat /\ DOMAIN all = 1..Len(all)
      /\ Len(kept) <= RegisterLimit /\ RegisterLimit \in Nat /\ Window \in Nat
      /\ \A i \in 1..Len(all) : all[i] \in Nat
  BY DEF Suffix, ThrottleAssumption
<1>2. recent \subseteq (d + 1)..Len(all)
  <2> SUFFICES ASSUME NEW i \in 1..Len(all), n - all[i] < Window PROVE i \in (d + 1)..Len(all)
    BY <1>1
  <2>1. i \notin 1..d
    BY <1>1 DEF Suffix
  <2> QED BY <1>1, <2>1
<1>3. IsFiniteSet((d + 1)..Len(all)) /\ Cardinality((d + 1)..Len(all)) = Len(kept)
  <2>1. d + 1 \in Int /\ Len(all) \in Int
    BY <1>1
  <2>2. /\ IsFiniteSet((d + 1)..Len(all))
        /\ Cardinality((d + 1)..Len(all)) = IF d + 1 > Len(all) THEN 0 ELSE Len(all) - (d + 1) + 1
    BY <2>1, FS_Interval
  <2> QED BY <1>1, <2>2
<1>4. IsFiniteSet(recent) /\ Cardinality(recent) <= Len(kept)
  <2> HIDE DEF recent, d
  <2> QED BY <1>2, <1>3, FS_Subset
<1>5. Cardinality(recent) \in Nat
  <2> HIDE DEF recent
  <2> QED BY <1>4, FS_CardinalityType
<1> HIDE DEF recent
<1>6. Cardinality(recent) <= RegisterLimit
  BY <1>1, <1>4, <1>5
<1> QED BY <1>6 DEF recent

LEMMA RegisterStep ==
    ASSUME ThrottleAssumption, RegisterInv, [NextThrottle]_throttleVars PROVE RegisterInv'
<1>1. ASSUME NEW a \in Addresses, Register(a) PROVE RegisterInv'
  <2>1. PICK t \in 0..now, old \in 0..Len(attempts[a]) :
          LET kept == SubSeq(attempts[a], old + 1, Len(attempts[a]))
              order == Append(SelectSeq(keys, LAMBDA k : k # a), a)
          IN /\ \A i \in 1..old : ~Fresh(t, attempts[a][i])
             /\ IF Len(kept) >= RegisterLimit
                  THEN /\ attempts' = [attempts EXCEPT ![a] = kept]
                       /\ UNCHANGED admitted
                  ELSE /\ attempts' = Store(order, attempts, a, Append(kept, t))
                       /\ admitted' = Store(order, admitted, a, Append(admitted[a], t))
    BY <1>1 DEF Register
  <2> DEFINE kept == SubSeq(attempts[a], old + 1, Len(attempts[a]))
             order == Append(SelectSeq(keys, LAMBDA k : k # a), a)
  <2>2. now' = now /\ now \in Nat
    BY <1>1 DEF Register, RegisterInv
  <2>3. Suffix(kept, admitted[a], now)
    BY <2>1, <2>2, SuffixPopped DEF RegisterInv
  <2> HIDE DEF kept, order
  <2>4. CASE Len(kept) >= RegisterLimit
    <3>1. attempts' = [attempts EXCEPT ![a] = kept] /\ admitted' = admitted
      BY <2>1, <2>4 DEF kept
    <3>2. kept \in Seq(Nat)
      BY <2>3 DEF Suffix
    <3> QED BY <2>2, <2>3, <3>1, <3>2 DEF RegisterInv
  <2>5. CASE ~(Len(kept) >= RegisterLimit)
    <3> DEFINE k == Append(kept, t)
               s == Append(admitted[a], t)
    <3>1. attempts' = Store(order, attempts, a, k) /\ admitted' = Store(order, admitted, a, s)
      BY <2>1, <2>5 DEF kept, order
    <3>2. Len(kept) < RegisterLimit
      BY <2>3, <2>5 DEF Suffix, ThrottleAssumption
    <3>3. Suffix(k, s, now)
      BY <2>2, <2>3, <3>2, SuffixPushed
    <3>4. Suffix(<<>>, <<>>, now)
      BY <2>2, SuffixEmpty
    <3> HIDE DEF k, s
    <3>5. \A b \in Addresses : \/ attempts'[b] = <<>> /\ admitted'[b] = <<>>
                               \/ attempts'[b] = k /\ admitted'[b] = s
                               \/ attempts'[b] = attempts[b] /\ admitted'[b] = admitted[b]
      BY <3>1 DEF Store
    <3>6. \A b \in Addresses : Suffix(attempts'[b], admitted'[b], now)
      BY <3>3, <3>4, <3>5 DEF RegisterInv
    <3>7. DOMAIN attempts' = Addresses /\ DOMAIN admitted' = Addresses
          /\ attempts' = [b \in Addresses |-> attempts'[b]]
          /\ admitted' = [b \in Addresses |-> admitted'[b]]
      BY <3>1 DEF Store
    <3>8. \A b \in Addresses : attempts'[b] \in Seq(Nat) /\ admitted'[b] \in Seq(Nat)
      BY <3>6 DEF Suffix
    <3>9. attempts' \in [Addresses -> Seq(Nat)] /\ admitted' \in [Addresses -> Seq(Nat)]
      BY <3>7, <3>8
    <3> QED BY <2>2, <3>6, <3>9 DEF RegisterInv
  <2> QED BY <2>4, <2>5
<1>2. CASE Tick
  <2>1. now' \in Nat /\ now <= now' /\ UNCHANGED <<attempts, admitted>>
    BY <1>2 DEF Tick, RegisterInv
  <2> QED BY <2>1, SuffixLater DEF RegisterInv
<1>3. CASE UNCHANGED registerVars
  BY <1>3 DEF registerVars, RegisterInv
<1> QED BY <1>1, <1>2, <1>3 DEF NextThrottle, throttleVars

\* However late a call gets from the clock to the table, the times kept for an
\* address are the last of its admissions.
THEOREM RegisterInvariant == ASSUME ThrottleAssumption PROVE SpecThrottle => []RegisterInv
<1>1. InitThrottle => RegisterInv
  BY SuffixEmpty DEF InitThrottle, RegisterInv
<1> QED BY <1>1, RegisterStep, PTL DEF SpecThrottle

\* No window holds more registrations of an address than the limit, for any
\* number of addresses, table size and clock, and however late a call that
\* read the clock gets to the table.
THEOREM RegistrationsBounded ==
    ASSUME ThrottleAssumption PROVE SpecThrottle => []RegistrationsWithinLimit
<1>1. RegisterInv => RegistrationsWithinLimit
  BY SuffixBounds DEF RegisterInv, RegistrationsWithinLimit
<1> QED BY <1>1, RegisterInvariant, PTL

\* The rest of the types: what AddressInv does not say.
LEMMA ThrottleTypesStep ==
    ASSUME ThrottleAssumption, TypeOKThrottle, AddressInv, AddressInv', [NextThrottle]_throttleVars
    PROVE  TypeOKThrottle'
<1> USE DEF TypeOKThrottle
<1>0. /\ rows' \in [UserNames -> Nat] /\ stripeLock' \in [Stripes -> Threads \cup {NoThread}]
      /\ \A p \in Threads : login'[p].pc # "idle" => login'[p].name \in UserNames
      /\ login' \in [Threads -> [pc : {"idle", "lock", "count", "password", "fail", "success"},
                                 name : UserNames \cup {NoThread}]]
  BY DEF AddressInv
<1>1. counted' \in [UserNames -> Nat]
  <2>1. ASSUME NEW p \in Threads, Arrive(p) \/ TakeStripe(p) \/ Count(p) \/ Password(p) PROVE counted' = counted
    BY <2>1 DEF Arrive, TakeStripe, Count, Password, Return, Move
  <2>2. ASSUME NEW p \in Threads, AuditFailure(p) \/ AuditSuccess(p) PROVE counted' \in [UserNames -> Nat]
    <3>1. login[p].name \in UserNames
      BY <2>2 DEF AddressInv, AuditFailure, AuditSuccess
    <3>2. counted[login[p].name] \in Nat
      BY <3>1
    <3>3. CASE AuditFailure(p)
      <4>1. counted' = [counted EXCEPT ![login[p].name] = @ + 1]
        BY <3>3 DEF AuditFailure
      <4> QED BY <3>1, <3>2, <4>1
    <3>4. CASE AuditSuccess(p)
      <4>1. PICK k \in 0..counted[login[p].name] : counted' = [counted EXCEPT ![login[p].name] = k]
        BY <3>4 DEF AuditSuccess
      <4> QED BY <3>1, <3>2, <4>1
    <3> QED BY <2>2, <3>3, <3>4
  <2>3. ASSUME NEW n \in UserNames, Age(n) PROVE counted' \in [UserNames -> Nat]
    BY <2>3 DEF Age
  <2>4. CASE UNCHANGED loginVars
    BY <2>4 DEF loginVars
  <2> QED BY <2>1, <2>2, <2>3, <2>4 DEF NextThrottle, Login, throttleVars
<1>2. ASSUME NEW a \in Addresses, Register(a)
      PROVE  now' = now /\ attempts' \in [Addresses -> Seq(0..MaxTime)]
             /\ admitted' \in [Addresses -> Seq(0..MaxTime)]
  <2>1. PICK t \in 0..now, old \in 0..Len(attempts[a]) :
          LET kept == SubSeq(attempts[a], old + 1, Len(attempts[a]))
              order == Append(SelectSeq(keys, LAMBDA k : k # a), a)
          IN \/ /\ attempts' = [attempts EXCEPT ![a] = kept]
                /\ UNCHANGED admitted
             \/ /\ attempts' = Store(order, attempts, a, Append(kept, t))
                /\ admitted' = Store(order, admitted, a, Append(admitted[a], t))
    BY <1>2 DEF Register
  <2> DEFINE kept == SubSeq(attempts[a], old + 1, Len(attempts[a]))
             order == Append(SelectSeq(keys, LAMBDA k : k # a), a)
  <2>2. attempts[a] \in Seq(0..MaxTime) /\ admitted[a] \in Seq(0..MaxTime)
    OBVIOUS
  <2>3. kept \in Seq(0..MaxTime) /\ t \in 0..MaxTime
    BY <2>2 DEF ThrottleAssumption
  <2>4. now' = now
    BY <1>2 DEF Register
  <2>5. \/ attempts' = [attempts EXCEPT ![a] = kept] /\ admitted' = admitted
        \/ /\ attempts' = Store(order, attempts, a, Append(kept, t))
           /\ admitted' = Store(order, admitted, a, Append(admitted[a], t))
    BY <2>1
  <2> HIDE DEF kept, order
  <2>6. /\ Append(kept, t) \in Seq(0..MaxTime) /\ Append(admitted[a], t) \in Seq(0..MaxTime)
        /\ <<>> \in Seq(0..MaxTime)
    BY <2>2, <2>3
  <2> QED BY <2>3, <2>4, <2>5, <2>6 DEF Store
<1>3. ASSUME Tick PROVE now' \in 0..MaxTime /\ UNCHANGED <<attempts, admitted>>
  BY <1>3 DEF Tick, ThrottleAssumption
<1> QED BY <1>0, <1>1, <1>2, <1>3 DEF NextThrottle, throttleVars, registerVars

\* Every variable of the two limits keeps its type.
THEOREM ThrottleTypes == ASSUME ThrottleAssumption PROVE SpecThrottle => []TypeOKThrottle
<1>1. InitThrottle => TypeOKThrottle
  <2>1. Away \in [pc : {"idle", "lock", "count", "password", "fail", "success"}, name : UserNames \cup {NoThread}]
    BY DEF Away
  <2> QED BY <2>1 DEF InitThrottle, TypeOKThrottle, ThrottleAssumption
<1> QED BY <1>1, ThrottleTypesStep, AddressInvariant, PTL DEF SpecThrottle
=============================================================================
