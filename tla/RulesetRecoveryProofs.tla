----------------------- MODULE RulesetRecoveryProofs -----------------------
(***************************************************************************)
(* Proofs about RulesetRecovery, for every number of accounts, databases,  *)
(* threads, tombstones, restarts and failures.                             *)
(*                                                                         *)
(* IInv says what a thread inside its critical section knows: the lock it  *)
(* holds (Requests), the account a listed tombstone belongs to (Names),    *)
(* that files come from accounts that exist or existed (Owned), and that   *)
(* the account it is about to clear is gone (Gone).                        *)
(*                                                                         *)
(* ScopeInv says what a recovery knows of the accounts that were gone when *)
(* it began: what it has left to see of them is in the list it walks or in *)
(* its hands, and no other thread works on them.                           *)
(***************************************************************************)
EXTENDS RulesetRecovery, TLAPS

-----------------------------------------------------------------------------
(* The inductive invariant.                                                *)

\* What holds of a request wherever it is.
Fine(r) ==
    /\ r \in Request
    /\ r.pc \in Critical \cup {"upload"} => r.user \in Users
    /\ r.pc \in {"tomb", "orphan", "move", "purge", "reservation"} => r.back # "none"
    /\ r.pc \in {"orphan", "move"} => r.back = "orphans"
    /\ r.pc = "upload" => r.back = "none"
    /\ r.pc = "tomb" => r.back = "tombs" /\ r.tomb \in Tombs
    /\ r.pc = "tombs" \/ (r.pc \in Critical /\ r.back = "tombs")
         => \A item \in r.todo : item.name \in Tombs

Requests ==
    /\ lock \in [Users -> Procs \cup {None}]
    /\ req \in [Procs -> Request]
    /\ \A p \in Procs : Fine(req[p]) /\ (req[p].pc \in Critical => lock[req[p].user] = p)

Database ==
    /\ mounted \in Dbs
    /\ rows \in [Dbs -> SUBSET Users] /\ used \in [Dbs -> SUBSET Users]
    /\ \A d \in Dbs : rows[d] \subseteq used[d]

Disk ==
    /\ dir \in [Users -> SUBSET Dbs]
    /\ usersDir \in BOOLEAN
    /\ reserved \subseteq Users
    /\ tomb \in [Tombs -> ({NoTomb} \cup [user : Users, by : SUBSET Dbs])]
    /\ marker \in Dbs \cup {None}

Bounds ==
    /\ scope \in [Procs -> SUBSET Users]
    /\ restarts \in 0..MaxRestarts /\ faults \in 0..MaxFaults

\* The name of a tombstone names its account.
Named(t, u) == t \in Tombs => tomb[t] = NoTomb \/ tomb[t].user = u

Names ==
    \A p \in Procs : /\ \A item \in req[p].todo : Named(item.name, item.user)
                     /\ At(p, "tomb") => Named(req[p].tomb, req[p].user)

Owned ==
    /\ \A u \in Users, d \in Dbs : d \in dir[u] => u \in used[d]
    /\ \A t \in Tombs, d \in Dbs : tomb[t] # NoTomb /\ d \in tomb[t].by => tomb[t].user \in used[d]

GoneOf(p) ==
    /\ At(p, "move") => req[p].user \notin rows[mounted] \/ mounted \notin dir[req[p].user]
    /\ req[p].pc \in {"moveAway", "unreserve"} => req[p].user \in used[mounted] \ rows[mounted]
    /\ At(p, "orphans") \/ (req[p].pc \in Critical /\ req[p].back = "orphans") => marker = mounted

Gone == \A p \in Procs : GoneOf(p)

IInv == Requests /\ Database /\ Disk /\ Bounds /\ Names /\ Owned /\ Gone

-----------------------------------------------------------------------------
(* Requests: a thread moves on, takes the lock or releases it.             *)

LEMMA AdminIsUser == Admin \in Users
BY IdAssumption DEF Admin, Users

LEMMA NoneFacts == None \notin Users /\ None \notin Procs /\ None \notin Tombs /\ None \notin Dbs
BY NoneAssumption

LEMMA IdleFine == Fine(Idle) /\ Idle \in Request /\ Idle.pc = "idle" /\ Idle.todo = {}
BY DEF Fine, Idle, Request, Critical

\* The thread p becomes r and keeps the lock it has.
LEMMA MoveOn ==
    ASSUME Requests, NEW p \in Procs, NEW r, Fine(r),
           r.pc \in Critical => lock[r.user] = p,
           req' = [req EXCEPT ![p] = r], lock' = lock
    PROVE  Requests'
<1>1. req' \in [Procs -> Request]
  BY DEF Requests, Fine
<1>2. ASSUME NEW q \in Procs
      PROVE  Fine(req'[q]) /\ (req'[q].pc \in Critical => lock'[req'[q].user] = q)
  <2>1. CASE q = p
    <3>1. req'[q] = r  BY <2>1 DEF Requests
    <3> QED BY <2>1, <3>1
  <2>2. CASE q # p
    <3>1. req'[q] = req[q]  BY <2>2 DEF Requests
    <3> QED BY <3>1 DEF Requests
  <2> QED BY <2>1, <2>2
<1> QED BY <1>1, <1>2 DEF Requests, Fine

LEMMA AcquireKeeps ==
    ASSUME Requests, NEW p \in Procs, NEW u \in Users, NEW r, Fine(r), r.user = u,
           Acquire(p, u, r)
    PROVE  Requests'
<1>1. req' \in [Procs -> Request] /\ lock' \in [Users -> Procs \cup {None}]
  BY DEF Requests, Fine, Acquire
<1>2. ASSUME NEW q \in Procs
      PROVE  Fine(req'[q]) /\ (req'[q].pc \in Critical => lock'[req'[q].user] = q)
  <2>1. CASE q = p
    <3>1. req'[q] = r  BY <2>1 DEF Requests, Acquire
    <3>2. lock'[u] = p  BY DEF Requests, Acquire
    <3> QED BY <2>1, <3>1, <3>2
  <2>2. CASE q # p
    <3>1. req'[q] = req[q]  BY <2>2 DEF Requests, Acquire
    <3>2. Fine(req[q]) /\ (req[q].pc \in Critical => lock[req[q].user] = q /\ req[q].user \in Users)
      BY DEF Requests, Fine
    <3>3. ASSUME req[q].pc \in Critical PROVE lock'[req[q].user] = lock[req[q].user]
      BY <3>2, <3>3, NoneFacts DEF Requests, Acquire
    <3> QED BY <3>1, <3>2, <3>3
  <2> QED BY <2>1, <2>2
<1> QED BY <1>1, <1>2 DEF Requests, Fine

LEMMA ReleaseKeeps ==
    ASSUME Requests, NEW p \in Procs, NEW r, Fine(r), r.pc \notin Critical,
           req[p].pc \in Critical, Release(p, r)
    PROVE  Requests'
<1>1. req' \in [Procs -> Request] /\ lock' \in [Users -> Procs \cup {None}]
  BY DEF Requests, Fine, Release
<1>2. ASSUME NEW q \in Procs
      PROVE  Fine(req'[q]) /\ (req'[q].pc \in Critical => lock'[req'[q].user] = q)
  <2>1. CASE q = p
    <3>1. req'[q] = r  BY <2>1 DEF Requests, Release
    <3> QED BY <3>1
  <2>2. CASE q # p
    <3>1. req'[q] = req[q]  BY <2>2 DEF Requests, Release
    <3>2. Fine(req[q]) /\ (req[q].pc \in Critical => lock[req[q].user] = q /\ req[q].user \in Users)
      BY DEF Requests, Fine
    <3>3. lock[req[p].user] = p
      BY DEF Requests
    <3>4. ASSUME req[q].pc \in Critical PROVE lock'[req[q].user] = lock[req[q].user]
      BY <2>2, <3>2, <3>3, <3>4 DEF Requests, Release
    <3> QED BY <3>1, <3>2, <3>4
  <2> QED BY <2>1, <2>2
<1> QED BY <1>1, <1>2 DEF Requests, Fine

LEMMA ContinueKeeps ==
    ASSUME Requests, NEW p \in Procs, req[p].pc \in Critical, req[p].back # "none",
           Continue(p) \/ PutOff(p)
    PROVE  Requests'
<1> DEFINE r == [req[p] EXCEPT !.pc = req[p].back, !.user = None, !.tomb = None]
           s == [req[p] EXCEPT !.pc = req[p].back, !.user = None, !.tomb = None, !.pending = TRUE]
<1>1. Fine(req[p]) /\ req[p] \in Request
  BY DEF Requests
<1>2. Fine(r) /\ r.pc \notin Critical /\ Fine(s) /\ s.pc \notin Critical
  BY <1>1 DEF Fine, Request, Critical
<1>3. CASE Continue(p)
  <2>1. Release(p, r)  BY <1>3 DEF Continue
  <2> HIDE DEF r
  <2> QED BY <1>2, <2>1, ReleaseKeeps
<1>4. CASE PutOff(p)
  <2>1. Release(p, s)  BY <1>4 DEF PutOff
  <2> HIDE DEF s
  <2> QED BY <1>2, <2>1, ReleaseKeeps
<1> QED BY <1>3, <1>4

LEMMA GotoKeeps ==
    ASSUME Requests, NEW p \in Procs, NEW pc, Fine([req[p] EXCEPT !.pc = pc]),
           pc \in Critical => req[p].pc \in Critical,
           Goto(p, pc), lock' = lock
    PROVE  Requests'
<1> DEFINE r == [req[p] EXCEPT !.pc = pc]
<1>1. req' = [req EXCEPT ![p] = r]
  BY DEF Goto
<1>2. Fine(r) /\ (r.pc \in Critical => lock[r.user] = p)
  BY DEF Requests, Request
<1> HIDE DEF r
<1> QED BY <1>1, <1>2, MoveOn

LEMMA ScanKeeps ==
    ASSUME Requests, NEW p \in Procs, NEW pc \in {"tombs", "orphans", "reservations"},
           NEW S \in SUBSET Item, pc = "tombs" => \A item \in S : item.name \in Tombs,
           Scan(p, pc, S), lock' = lock
    PROVE  Requests'
<1> DEFINE r == [req[p] EXCEPT !.pc = pc, !.todo = S]
<1>1. Fine(req[p]) /\ req[p] \in Request
  BY DEF Requests
<1>2. req' = [req EXCEPT ![p] = r]
  BY DEF Scan
<1>3. Fine(r) /\ r.pc \notin Critical
  BY <1>1 DEF Fine, Request, Critical
<1> HIDE DEF r
<1> QED BY <1>2, <1>3, MoveOn

LEMMA EndKeeps ==
    ASSUME Requests, NEW p \in Procs, NEW b \in BOOLEAN, End(p, b), lock' = lock
    PROVE  Requests'
<1> DEFINE r == [req[p] EXCEPT !.pc = "recovered", !.skipped = b]
<1>1. Fine(req[p]) /\ req[p] \in Request
  BY DEF Requests
<1>2. req' = [req EXCEPT ![p] = r]
  BY DEF End
<1>3. Fine(r) /\ r.pc \notin Critical
  BY <1>1 DEF Fine, Request, Critical
<1> HIDE DEF r
<1> QED BY <1>2, <1>3, MoveOn

LEMMA ItemsFacts ==
    /\ \A S \in SUBSET Users : Items(S) \in SUBSET Item /\ \A item \in Items(S) : item.name = None
    /\ Disk => /\ Trash \in SUBSET Item
               /\ \A item \in Trash : item.name \in Tombs /\ tomb[item.name].user = item.user
<1>1. ASSUME NEW S \in SUBSET Users
      PROVE  Items(S) \in SUBSET Item /\ \A item \in Items(S) : item.name = None
  BY DEF Items, Item
<1>2. ASSUME Disk, NEW item \in Trash
      PROVE  item \in Item /\ item.name \in Tombs /\ tomb[item.name].user = item.user
  <2>1. PICK t \in Tombs : tomb[t] # NoTomb /\ item = [name |-> t, user |-> tomb[t].user]
    BY DEF Trash
  <2>2. tomb[t] \in [user : Users, by : SUBSET Dbs]
    BY <1>2, <2>1 DEF Disk
  <2> QED BY <2>1, <2>2 DEF Item
<1> QED BY <1>1, <1>2

\* Taking an item of a loop.
LEMMA TakeItemKeeps ==
    ASSUME Requests, NEW p \in Procs,
           NEW loop \in {"tombs", "orphans", "reservations"}, NEW pc,
           \/ loop = "tombs" /\ pc = "tomb"
           \/ loop = "orphans" /\ pc = "orphan"
           \/ loop = "reservations" /\ pc = "reservation",
           TakeItem(p, loop, pc)
    PROVE  Requests'
<1>1. PICK item \in req[p].todo :
        Acquire(p, item.user, [req[p] EXCEPT !.pc = pc, !.back = loop, !.tomb = item.name,
                                             !.user = item.user, !.todo = @ \ {item}])
  BY DEF TakeItem
<1> DEFINE r == [req[p] EXCEPT !.pc = pc, !.back = loop, !.tomb = item.name,
                               !.user = item.user, !.todo = @ \ {item}]
<1>2. Fine(req[p]) /\ req[p] \in Request /\ req[p].pc = loop
  BY DEF Requests, TakeItem, At
<1>3. item \in Item
  BY <1>2 DEF Request
<1>4. r \in Request /\ r.pc = pc /\ r.back = loop /\ r.user = item.user /\ r.tomb = item.name
      /\ r.todo \subseteq req[p].todo
  BY <1>2, <1>3 DEF Request, Item, Critical
<1>5. Fine(r) /\ item.user \in Users
  BY <1>2, <1>3, <1>4 DEF Fine, Item, Critical
<1>6. Acquire(p, item.user, r)
  BY <1>1
<1> HIDE DEF r
<1> QED BY <1>4, <1>5, <1>6, AcquireKeeps

-----------------------------------------------------------------------------
(* Every step keeps Requests.                                              *)

LEMMA RecoverKeepsRequests ==
    ASSUME IInv, NEW p \in Procs, Recover(p)
    PROVE  Requests'
<1> USE DEF IInv
<1>0. Fine(req[p]) /\ req[p] \in Request
  BY DEF Requests
<1>1. CASE StartRecovery(p)
  <2>1. CASE rows[mounted] = {}
    BY <1>1, <2>1, EndKeeps DEF StartRecovery
  <2>2. CASE rows[mounted] # {}
    BY <1>1, <2>2, ScanKeeps, ItemsFacts DEF StartRecovery
  <2> QED BY <2>1, <2>2
<1>2. CASE TakeTomb(p)
  BY <1>2, TakeItemKeeps DEF TakeTomb
<1>3. CASE SettleTomb(p)
  <2>1. CASE PutOff(p) \/ Continue(p)
    BY <1>0, <1>3, <2>1, ContinueKeeps DEF SettleTomb, At, Critical, Fine
  <2>2. CASE Goto(p, "purge") /\ lock' = lock
    <3>1. Fine([req[p] EXCEPT !.pc = "purge"]) /\ req[p].pc \in Critical
      BY <1>0, <1>3 DEF Fine, Request, Critical, SettleTomb, At
    <3> QED BY <2>2, <3>1, GotoKeeps
  <2> QED BY <1>3, <2>1, <2>2 DEF SettleTomb
<1>4. CASE Purge(p)
  BY <1>0, <1>4, ContinueKeeps DEF Purge, At, Critical, Fine
<1>5. CASE TombsDone(p)
  <2>1. CASE usersDir
    <3>1. Fine([req[p] EXCEPT !.pc = "match"]) /\ "match" \notin Critical
      BY <1>0 DEF Fine, Request, Critical
    <3> QED BY <1>5, <2>1, <3>1, GotoKeeps DEF TombsDone
  <2>2. CASE ~usersDir
    BY <1>5, <2>2, ScanKeeps, ItemsFacts DEF TombsDone, Disk
  <2> QED BY <2>1, <2>2
<1>6. CASE Match(p)
  <2>1. CASE End(p, TRUE)
    BY <1>6, <2>1, EndKeeps DEF Match
  <2>2. CASE Scan(p, "orphans", Items({u \in Users : dir[u] # {}}))
    BY <1>6, <2>2, ScanKeeps, ItemsFacts DEF Match
  <2> QED BY <1>6, <2>1, <2>2 DEF Match
<1>7. CASE TakeOrphan(p)
  BY <1>7, TakeItemKeeps DEF TakeOrphan
<1>8. CASE Orphan(p)
  <2>1. CASE Continue(p)
    BY <1>0, <1>8, <2>1, ContinueKeeps DEF Orphan, At, Critical, Fine
  <2>2. CASE Goto(p, "move") /\ lock' = lock
    <3>1. Fine([req[p] EXCEPT !.pc = "move"]) /\ req[p].pc \in Critical
      BY <1>0, <1>8 DEF Fine, Request, Critical, Orphan, At
    <3> QED BY <2>2, <3>1, GotoKeeps
  <2> QED BY <1>8, <2>1, <2>2 DEF Orphan
<1>9. CASE Move(p)
  <2>1. CASE Continue(p)
    BY <1>0, <1>9, <2>1, ContinueKeeps DEF Move, At, Critical, Fine
  <2>2. CASE MoveToTomb(p, "purge")
    <3>1. PICK t \in Tombs : req' = [req EXCEPT ![p].pc = "purge", ![p].tomb = t] /\ lock' = lock
      BY <2>2 DEF MoveToTomb
    <3> DEFINE r == [req[p] EXCEPT !.pc = "purge", !.tomb = t]
    <3>2. Fine(r) /\ r.user = req[p].user /\ req[p].pc \in Critical
      BY <1>0, <1>9 DEF Fine, Request, Critical, Move, At
    <3>3. lock[r.user] = p
      BY <3>2 DEF Requests
    <3>4. req' = [req EXCEPT ![p] = r]
      BY <3>1
    <3> HIDE DEF r
    <3> QED BY <3>1, <3>2, <3>3, <3>4, MoveOn
  <2> QED BY <1>9, <2>1, <2>2 DEF Move
<1>10. CASE OrphansDone(p)
  BY <1>10, ScanKeeps, ItemsFacts DEF OrphansDone, Disk
<1>11. CASE TakeReservation(p)
  BY <1>11, TakeItemKeeps DEF TakeReservation
<1>12. CASE SettleReservation(p)
  BY <1>0, <1>12, ContinueKeeps DEF SettleReservation, At, Critical, Fine
<1>13. CASE ReservationsDone(p)
  BY <1>13, EndKeeps DEF ReservationsDone
<1>14. CASE Recovered(p)
  <2> DEFINE r == IF req[p].op = "delete" THEN [Idle EXCEPT !.op = "delete", !.pc = "target"] ELSE Idle
  <2>1. Fine(r) /\ r.pc \notin Critical
    BY DEF Fine, Idle, Request, Critical
  <2>2. req' = [req EXCEPT ![p] = r] /\ lock' = lock
    BY <1>14 DEF Recovered
  <2> HIDE DEF r
  <2> QED BY <2>1, <2>2, MoveOn
<1> QED BY <1>1, <1>2, <1>3, <1>4, <1>5, <1>6, <1>7, <1>8, <1>9, <1>10, <1>11, <1>12, <1>13, <1>14 DEF Recover

\* A request of its own, not in a recovery.
LEMMA ReleaseIdleKeeps ==
    ASSUME Requests, NEW p \in Procs, req[p].pc \in Critical, Release(p, Idle)
    PROVE  Requests'
<1>1. Idle.pc \notin Critical
  BY DEF Idle, Critical
<1> QED BY <1>1, IdleFine, ReleaseKeeps

LEMMA OtherStepKeepsRequests ==
    ASSUME IInv, NEW p \in Procs,
           \/ Boot(p) \/ BootEmpty(p)
           \/ TakeTarget(p) \/ DeleteRow(p) \/ MoveAway(p) \/ Unreserve(p) \/ RemoveEntry(p)
           \/ TakeUpload(p) \/ Write(p)
    PROVE  Requests'
<1> USE DEF IInv
<1>0. Fine(req[p]) /\ req[p] \in Request
  BY DEF Requests
<1>1. CASE Boot(p)
  <2>1. \A pc \in {"bootEmpty", "scan"} : Fine([req[p] EXCEPT !.pc = pc]) /\ pc \notin Critical
    BY <1>0 DEF Fine, Request, Critical
  <2> QED BY <1>1, <2>1, GotoKeeps DEF Boot
<1>2. CASE BootEmpty(p)
  <2>1. Idle.pc \notin Critical  BY DEF Idle, Critical
  <2> QED BY <1>2, <2>1, IdleFine, MoveOn DEF BootEmpty
<1>3. CASE TakeTarget(p)
  <2>1. PICK u \in Users \ {Admin} :
          Acquire(p, u, [Idle EXCEPT !.op = "delete", !.pc = "deleteRow", !.user = u])
    BY <1>3 DEF TakeTarget
  <2> DEFINE r == [Idle EXCEPT !.op = "delete", !.pc = "deleteRow", !.user = u]
  <2>2. Fine(r) /\ r.user = u
    BY DEF Fine, Idle, Request, Critical
  <2>3. Acquire(p, u, r)
    BY <2>1
  <2> HIDE DEF r
  <2> QED BY <2>2, <2>3, AcquireKeeps
<1>4. CASE DeleteRow(p)
  <2>1. req[p].pc \in Critical
    BY <1>4 DEF DeleteRow, At, Critical
  <2>2. Fine([req[p] EXCEPT !.pc = "moveAway"])
    BY <1>0, <1>4 DEF Fine, Request, Critical, DeleteRow, At
  <2> QED BY <1>4, <2>1, <2>2, GotoKeeps, ReleaseIdleKeeps DEF DeleteRow
<1>5. CASE MoveAway(p)
  <2>1. req[p].pc \in Critical
    BY <1>5 DEF MoveAway, At, Critical
  <2>2. CASE Goto(p, "unreserve") /\ lock' = lock
    <3>1. Fine([req[p] EXCEPT !.pc = "unreserve"])
      BY <1>0, <1>5 DEF Fine, Request, Critical, MoveAway, At
    <3> QED BY <2>1, <2>2, <3>1, GotoKeeps
  <2>3. CASE MoveToTomb(p, "unreserve")
    <3>1. PICK t \in Tombs : req' = [req EXCEPT ![p].pc = "unreserve", ![p].tomb = t] /\ lock' = lock
      BY <2>3 DEF MoveToTomb
    <3> DEFINE r == [req[p] EXCEPT !.pc = "unreserve", !.tomb = t]
    <3>2. Fine(r) /\ r.user = req[p].user
      BY <1>0, <1>5 DEF Fine, Request, Critical, MoveAway, At
    <3>3. lock[r.user] = p
      BY <2>1, <3>2 DEF Requests
    <3>4. req' = [req EXCEPT ![p] = r]
      BY <3>1
    <3> HIDE DEF r
    <3> QED BY <3>1, <3>2, <3>3, <3>4, MoveOn
  <2> QED BY <1>5, <2>2, <2>3 DEF MoveAway
<1>6. CASE Unreserve(p)
  <2>1. req[p].pc \in Critical
    BY <1>6 DEF Unreserve, At, Critical
  <2>2. Fine([req[p] EXCEPT !.pc = "remove"])
    BY <1>0, <1>6 DEF Fine, Request, Critical, Unreserve, At
  <2> QED BY <1>6, <2>1, <2>2, GotoKeeps, ReleaseIdleKeeps DEF Unreserve
<1>7. CASE RemoveEntry(p)
  BY <1>7, ReleaseIdleKeeps DEF RemoveEntry, At, Critical
<1>8. CASE TakeUpload(p)
  <2> DEFINE r == [req[p] EXCEPT !.pc = "write"]
  <2>1. Acquire(p, req[p].user, r)
    BY <1>8 DEF TakeUpload
  <2>2. req[p].user \in Users
    BY <1>0, <1>8 DEF TakeUpload, At, Fine
  <2>3. Fine(r) /\ r.user = req[p].user
    BY <1>0, <1>8, <2>2 DEF Fine, Request, Critical, TakeUpload, At
  <2> HIDE DEF r
  <2> QED BY <2>1, <2>2, <2>3, AcquireKeeps
<1>9. CASE Write(p)
  BY <1>9, ReleaseIdleKeeps DEF Write, At, Critical
<1> QED BY <1>1, <1>2, <1>3, <1>4, <1>5, <1>6, <1>7, <1>8, <1>9

LEMMA NextKeepsRequests ==
    ASSUME IInv, Next
    PROVE  Requests'
<1> USE DEF IInv
<1>1. ASSUME NEW p \in Procs, Step(p) PROVE Requests'
  BY <1>1, RecoverKeepsRequests, OtherStepKeepsRequests DEF Step
<1>2. ASSUME NEW p \in Procs, StartDelete(p) PROVE Requests'
  <2> DEFINE r == [Idle EXCEPT !.op = "delete", !.pc = "scan"]
  <2>1. Fine(r) /\ r.pc \notin Critical
    BY DEF Fine, Idle, Request, Critical
  <2>2. req' = [req EXCEPT ![p] = r] /\ lock' = lock
    BY <1>2 DEF StartDelete
  <2> HIDE DEF r
  <2> QED BY <2>1, <2>2, MoveOn
<1>3. ASSUME NEW p \in Procs, NEW u \in Users, StartUpload(p, u) PROVE Requests'
  <2> DEFINE r == [Idle EXCEPT !.op = "upload", !.pc = "upload", !.user = u]
  <2>1. Fine(r) /\ r.pc \notin Critical
    BY DEF Fine, Idle, Request, Critical
  <2>2. req' = [req EXCEPT ![p] = r] /\ lock' = lock
    BY <1>3 DEF StartUpload
  <2> HIDE DEF r
  <2> QED BY <2>1, <2>2, MoveOn
<1>4. ASSUME NEW p \in Procs, Fail(p) PROVE Requests'
  BY <1>4, ContinueKeeps, ReleaseIdleKeeps DEF Fail
<1>5. ASSUME NEW p \in Procs, NEW d \in Dbs, Restart(p, d) PROVE Requests'
  <2> DEFINE r == [Idle EXCEPT !.op = "boot", !.pc = "boot"]
  <2>1. Fine(r) /\ r.pc \notin Critical /\ Idle.pc \notin Critical
    BY DEF Fine, Idle, Request, Critical
  <2>2. req' = [q \in Procs |-> IF q = p THEN r ELSE Idle] /\ lock' = [u \in Users |-> None]
    BY <1>5 DEF Restart
  <2> HIDE DEF r
  <2> QED BY <2>1, <2>2, IdleFine DEF Requests, Fine
<1>6. ASSUME UNCHANGED <<req, lock>> PROVE Requests'
  BY <1>6 DEF Requests, Fine
<1> QED BY <1>1, <1>2, <1>3, <1>4, <1>5, <1>6 DEF Next, Visit, Register

-----------------------------------------------------------------------------
(* What each step does to the database and the disk, in a form that the     *)
(* later lemmas share.                                                     *)

\* Every step of the database is one of these.
LEMMA DatabaseSteps ==
    ASSUME IInv, Next
    PROVE  \/ UNCHANGED database
           \/ \E u \in Users : NewAccount(u)
           \/ \E p \in Procs : DeleteRow(p) /\ Exists(req[p].user)
           \/ \E p \in Procs, d \in Dbs : Restart(p, d)
<1>1. ASSUME NEW p \in Procs, Recover(p) PROVE UNCHANGED database
  BY <1>1 DEF Recover, StartRecovery, TakeTomb, SettleTomb, Purge, TombsDone, Match, TakeOrphan, Orphan,
              Move, OrphansDone, TakeReservation, SettleReservation, ReservationsDone, Recovered, TakeItem
<1>2. ASSUME NEW p \in Procs,
             \/ Boot(p) \/ TakeTarget(p) \/ MoveAway(p) \/ Unreserve(p) \/ RemoveEntry(p)
             \/ TakeUpload(p) \/ Write(p) \/ StartDelete(p) \/ Fail(p)
             \/ \E u \in Users : StartUpload(p, u)
      PROVE  UNCHANGED database
  BY <1>2 DEF Boot, TakeTarget, MoveAway, Unreserve, RemoveEntry, TakeUpload, Write, StartDelete, Fail, StartUpload
<1>3. EnsureAdmin => UNCHANGED database \/ \E u \in Users : NewAccount(u)
  BY AdminIsUser DEF EnsureAdmin
<1>4. ASSUME NEW p \in Procs, DeleteRow(p), ~Exists(req[p].user) PROVE UNCHANGED database
  BY <1>4 DEF DeleteRow, database
<1> QED BY <1>1, <1>2, <1>3, <1>4 DEF Next, Step, BootEmpty, Visit, Register

\* Every step of users/<id> is one of these.
LEMMA DirSteps ==
    ASSUME IInv, Next
    PROVE  \/ UNCHANGED dir
           \/ \E p \in Procs : SettleTomb(p)
           \/ \E p \in Procs : Move(p)
           \/ \E p \in Procs : MoveAway(p)
           \/ \E p \in Procs : Write(p)
<1>1. ASSUME NEW p \in Procs, Recover(p) PROVE UNCHANGED dir \/ SettleTomb(p) \/ Move(p)
  BY <1>1 DEF Recover, StartRecovery, TakeTomb, Purge, TombsDone, Match, TakeOrphan, Orphan,
              OrphansDone, TakeReservation, SettleReservation, ReservationsDone, Recovered, TakeItem, disk
<1>2. ASSUME NEW p \in Procs,
             \/ Boot(p) \/ BootEmpty(p) \/ TakeTarget(p) \/ DeleteRow(p) \/ Unreserve(p) \/ RemoveEntry(p)
             \/ TakeUpload(p) \/ StartDelete(p) \/ Fail(p)
             \/ (\E u \in Users : StartUpload(p, u)) \/ (\E d \in Dbs : Restart(p, d))
      PROVE  UNCHANGED dir
  BY <1>2 DEF Boot, BootEmpty, TakeTarget, DeleteRow, Unreserve, RemoveEntry, TakeUpload, StartDelete, Fail,
              StartUpload, Restart, disk
<1>3. Visit \/ (\E u \in Users : Register(u)) => UNCHANGED dir
  BY DEF Visit, Register, disk
<1> QED BY <1>1, <1>2, <1>3 DEF Next, Step

\* Every step of .trash is one of these.
LEMMA TombSteps ==
    ASSUME IInv, Next
    PROVE  \/ UNCHANGED tomb
           \/ \E t \in Tombs \cup {None} : RemoveTomb(t)
           \/ \E p \in Procs : \E next \in {"purge", "unreserve"} : MoveToTomb(p, next) /\ (Move(p) \/ MoveAway(p))
<1>1. ASSUME NEW p \in Procs, Recover(p)
      PROVE  \/ UNCHANGED tomb
             \/ RemoveTomb(req[p].tomb)
             \/ MoveToTomb(p, "purge") /\ Move(p)
  BY <1>1 DEF Recover, StartRecovery, TakeTomb, SettleTomb, Purge, TombsDone, Match, TakeOrphan, Orphan, Move,
              OrphansDone, TakeReservation, SettleReservation, ReservationsDone, Recovered, TakeItem, disk
<1>2. ASSUME NEW p \in Procs,
             \/ Boot(p) \/ BootEmpty(p) \/ TakeTarget(p) \/ DeleteRow(p) \/ Unreserve(p)
             \/ TakeUpload(p) \/ Write(p) \/ StartDelete(p) \/ Fail(p)
             \/ (\E u \in Users : StartUpload(p, u)) \/ (\E d \in Dbs : Restart(p, d))
      PROVE  UNCHANGED tomb
  BY <1>2 DEF Boot, BootEmpty, TakeTarget, DeleteRow, Unreserve, TakeUpload, Write, StartDelete, Fail,
              StartUpload, Restart, disk
<1>3. ASSUME NEW p \in Procs, MoveAway(p) PROVE UNCHANGED tomb \/ (MoveToTomb(p, "unreserve") /\ MoveAway(p))
  BY <1>3 DEF MoveAway, disk
<1>4. ASSUME NEW p \in Procs, RemoveEntry(p) PROVE RemoveTomb(req[p].tomb)
  BY <1>4 DEF RemoveEntry
<1>5. Visit \/ (\E u \in Users : Register(u)) => UNCHANGED tomb
  BY DEF Visit, Register, disk
<1>6. \A p \in Procs : req[p].tomb \in Tombs \cup {None}
  BY DEF IInv, Requests, Request
<1> QED BY <1>1, <1>2, <1>3, <1>4, <1>5, <1>6 DEF Next, Step

\* Every step of .pending is one of these.
LEMMA ReservedSteps ==
    ASSUME IInv, Next
    PROVE  \/ UNCHANGED reserved
           \/ \E p \in Procs : SettleReservation(p)
           \/ \E p \in Procs : Unreserve(p)
           \/ \E p \in Procs : Write(p)
<1>1. ASSUME NEW p \in Procs, Recover(p) PROVE UNCHANGED reserved \/ SettleReservation(p)
  BY <1>1 DEF Recover, StartRecovery, TakeTomb, SettleTomb, Purge, TombsDone, Match, TakeOrphan, Orphan, Move,
              MoveToTomb, OrphansDone, TakeReservation, ReservationsDone, Recovered, TakeItem, disk
<1>2. ASSUME NEW p \in Procs,
             \/ Boot(p) \/ BootEmpty(p) \/ TakeTarget(p) \/ DeleteRow(p) \/ MoveAway(p) \/ RemoveEntry(p)
             \/ TakeUpload(p) \/ StartDelete(p) \/ Fail(p)
             \/ (\E u \in Users : StartUpload(p, u)) \/ (\E d \in Dbs : Restart(p, d))
      PROVE  UNCHANGED reserved
  BY <1>2 DEF Boot, BootEmpty, TakeTarget, DeleteRow, MoveAway, MoveToTomb, RemoveEntry, TakeUpload, StartDelete,
              Fail, StartUpload, Restart, disk
<1>3. Visit \/ (\E u \in Users : Register(u)) => UNCHANGED reserved
  BY DEF Visit, Register, disk
<1> QED BY <1>1, <1>2, <1>3 DEF Next, Step

\* The marker is written once, by the recovery that finds none.
LEMMA MarkerSteps ==
    ASSUME IInv, Next
    PROVE  UNCHANGED marker \/ (marker = None /\ marker' = mounted)
<1>1. ASSUME NEW p \in Procs, Recover(p) PROVE UNCHANGED marker \/ (marker = None /\ marker' = mounted)
  BY <1>1 DEF Recover, StartRecovery, TakeTomb, SettleTomb, Purge, TombsDone, Match, TakeOrphan, Orphan, Move,
              MoveToTomb, OrphansDone, TakeReservation, SettleReservation, ReservationsDone, Recovered, TakeItem,
              disk
<1>2. ASSUME NEW p \in Procs,
             \/ Boot(p) \/ BootEmpty(p) \/ TakeTarget(p) \/ DeleteRow(p) \/ MoveAway(p) \/ Unreserve(p)
             \/ RemoveEntry(p) \/ TakeUpload(p) \/ Write(p) \/ StartDelete(p) \/ Fail(p)
             \/ (\E u \in Users : StartUpload(p, u)) \/ (\E d \in Dbs : Restart(p, d))
      PROVE  UNCHANGED marker
  BY <1>2 DEF Boot, BootEmpty, TakeTarget, DeleteRow, MoveAway, MoveToTomb, Unreserve, RemoveEntry, TakeUpload,
              Write, StartDelete, Fail, StartUpload, Restart, disk
<1>3. Visit \/ (\E u \in Users : Register(u)) => UNCHANGED marker
  BY DEF Visit, Register, disk
<1> QED BY <1>1, <1>2, <1>3 DEF Next, Step

\* Where a thread inside its critical section works.
LEMMA InCritical ==
    ASSUME IInv, NEW p \in Procs,
           \/ SettleTomb(p) \/ Move(p) \/ MoveAway(p) \/ Write(p) \/ SettleReservation(p)
           \/ Unreserve(p) \/ DeleteRow(p)
    PROVE  req[p].user \in Users /\ lock[req[p].user] = p /\ req[p].pc \in Critical
<1>1. Fine(req[p]) /\ (req[p].pc \in Critical => lock[req[p].user] = p)
  BY DEF IInv, Requests
<1>2. req[p].pc \in Critical
  BY DEF SettleTomb, Move, MoveAway, Write, SettleReservation, Unreserve, DeleteRow, At, Critical
<1> QED BY <1>1, <1>2 DEF Fine

LEMMA NextKeepsDatabase ==
    ASSUME IInv, Next
    PROVE  Database'
<1>1. ASSUME UNCHANGED database PROVE Database'
  BY <1>1 DEF IInv, Database, database
<1>2. ASSUME NEW u \in Users, NewAccount(u) PROVE Database'
  BY <1>2 DEF IInv, Database, NewAccount
<1>3. ASSUME NEW p \in Procs, DeleteRow(p), Exists(req[p].user) PROVE Database'
  BY <1>3 DEF IInv, Database, DeleteRow, Exists
<1>4. ASSUME NEW p \in Procs, NEW d \in Dbs, Restart(p, d) PROVE Database'
  BY <1>4 DEF IInv, Database, Restart
<1> QED BY <1>1, <1>2, <1>3, <1>4, DatabaseSteps

LEMMA NextKeepsDir ==
    ASSUME IInv, Next
    PROVE  dir' \in [Users -> SUBSET Dbs]
<1> USE DEF IInv
<1>1. ASSUME NEW p \in Procs, SettleTomb(p) PROVE dir' \in [Users -> SUBSET Dbs]
  <2>1. req[p].tomb \in Tombs
    BY <1>1 DEF Requests, Fine, SettleTomb, At
  <2>2. tomb[req[p].tomb] # NoTomb => tomb[req[p].tomb].by \in SUBSET Dbs
    BY <2>1 DEF Disk
  <2> QED BY <1>1, <2>2 DEF SettleTomb, Disk, disk
<1>2. ASSUME NEW p \in Procs, Move(p) \/ MoveAway(p) PROVE dir' \in [Users -> SUBSET Dbs]
  BY <1>2 DEF Move, MoveAway, MoveToTomb, Disk, disk
<1>3. ASSUME NEW p \in Procs, Write(p) PROVE dir' \in [Users -> SUBSET Dbs]
  BY <1>3 DEF Write, Disk, Database
<1> QED BY <1>1, <1>2, <1>3, DirSteps DEF Disk

LEMMA NextKeepsTomb ==
    ASSUME IInv, Next
    PROVE  tomb' \in [Tombs -> ({NoTomb} \cup [user : Users, by : SUBSET Dbs])]
<1> USE DEF IInv
<1>1. ASSUME NEW t, RemoveTomb(t)
      PROVE  tomb' \in [Tombs -> ({NoTomb} \cup [user : Users, by : SUBSET Dbs])]
  BY <1>1 DEF RemoveTomb, Disk
<1>2. ASSUME NEW p \in Procs, NEW next, MoveToTomb(p, next), Move(p) \/ MoveAway(p)
      PROVE  tomb' \in [Tombs -> ({NoTomb} \cup [user : Users, by : SUBSET Dbs])]
  <2>1. req[p].user \in Users
    BY <1>2, InCritical
  <2>2. [user |-> req[p].user, by |-> dir[req[p].user]] \in [user : Users, by : SUBSET Dbs]
    BY <2>1 DEF Disk
  <2> QED BY <1>2, <2>2 DEF MoveToTomb, Disk
<1> QED BY <1>1, <1>2, TombSteps DEF Disk

LEMMA NextKeepsDisk ==
    ASSUME IInv, Next
    PROVE  Disk'
<1> USE DEF IInv
<1>1. reserved' \subseteq Users
  <2>1. ASSUME NEW p \in Procs, SettleReservation(p) \/ Unreserve(p) \/ Write(p) PROVE reserved' \subseteq Users
    <3>1. req[p].user \in Users
      BY <2>1, InCritical
    <3>2. CASE SettleReservation(p)
      BY <3>2 DEF SettleReservation, Disk
    <3>3. CASE Unreserve(p)
      BY <3>3 DEF Unreserve, Disk
    <3>4. CASE Write(p)
      BY <3>1, <3>4 DEF Write, Disk
    <3> QED BY <2>1, <3>2, <3>3, <3>4
  <2> QED BY <2>1, ReservedSteps DEF Disk
<1>2. marker' \in Dbs \cup {None}
  BY MarkerSteps DEF Disk, Database
<1>3. usersDir' \in BOOLEAN
  <2>1. ASSUME NEW p \in Procs, Recover(p) PROVE usersDir' \in BOOLEAN
    BY <2>1 DEF Recover, StartRecovery, TakeTomb, SettleTomb, Purge, TombsDone, Match, TakeOrphan, Orphan, Move,
                MoveToTomb, OrphansDone, TakeReservation, SettleReservation, ReservationsDone, Recovered,
                TakeItem, disk, Disk
  <2>2. ASSUME NEW p \in Procs,
               \/ Boot(p) \/ BootEmpty(p) \/ TakeTarget(p) \/ DeleteRow(p) \/ MoveAway(p) \/ Unreserve(p)
               \/ RemoveEntry(p) \/ TakeUpload(p) \/ Write(p) \/ StartDelete(p) \/ Fail(p)
               \/ (\E u \in Users : StartUpload(p, u)) \/ (\E d \in Dbs : Restart(p, d))
        PROVE  usersDir' \in BOOLEAN
    BY <2>2 DEF Boot, BootEmpty, TakeTarget, DeleteRow, MoveAway, MoveToTomb, Unreserve, RemoveEntry, TakeUpload,
                Write, StartDelete, Fail, StartUpload, Restart, disk, Disk
  <2>3. Visit \/ (\E u \in Users : Register(u)) => usersDir' \in BOOLEAN
    BY DEF Visit, Register, disk, Disk
  <2> QED BY <2>1, <2>2, <2>3 DEF Next, Step
<1> QED BY <1>1, <1>2, <1>3, NextKeepsDir, NextKeepsTomb DEF Disk

LEMMA NextKeepsBounds ==
    ASSUME IInv, Next
    PROVE  Bounds'
<1> USE DEF IInv
<1>1. ASSUME NEW p \in Procs, NEW u, NEW r, Acquire(p, u, r) PROVE scope' \in [Procs -> SUBSET Users]
  BY <1>1 DEF Acquire, Bounds
<1>2. ASSUME NEW p \in Procs, Recover(p) PROVE Bounds'
  <2>1. scope' \in [Procs -> SUBSET Users]
    <3>1. StartRecovery(p) => scope' \in [Procs -> SUBSET Users]
      BY DEF StartRecovery, Bounds, Database
    <3>2. TakeTomb(p) \/ TakeOrphan(p) \/ TakeReservation(p) => scope' \in [Procs -> SUBSET Users]
      BY <1>1 DEF TakeTomb, TakeOrphan, TakeReservation, TakeItem
    <3> QED BY <1>2, <3>1, <3>2 DEF Recover, SettleTomb, Purge, TombsDone, Match, Orphan, Move, OrphansDone,
              SettleReservation, ReservationsDone, Recovered, Bounds
  <2>2. UNCHANGED bounds
    BY <1>2 DEF Recover, StartRecovery, TakeTomb, SettleTomb, Purge, TombsDone, Match, TakeOrphan, Orphan, Move,
                OrphansDone, TakeReservation, SettleReservation, ReservationsDone, Recovered, TakeItem
  <2> QED BY <2>1, <2>2 DEF Bounds, bounds
<1>3. ASSUME NEW p \in Procs,
             \/ Boot(p) \/ BootEmpty(p) \/ DeleteRow(p) \/ MoveAway(p) \/ Unreserve(p) \/ RemoveEntry(p)
             \/ Write(p) \/ StartDelete(p) \/ (\E u \in Users : StartUpload(p, u))
      PROVE  Bounds'
  BY <1>3 DEF Boot, BootEmpty, DeleteRow, MoveAway, Unreserve, RemoveEntry, Write, StartDelete, StartUpload,
              Bounds, bounds
<1>4. ASSUME NEW p \in Procs, TakeTarget(p) \/ TakeUpload(p) PROVE Bounds'
  BY <1>1, <1>4 DEF TakeTarget, TakeUpload, Bounds, bounds
<1>5. ASSUME NEW p \in Procs, Fail(p) PROVE Bounds'
  BY <1>5, BoundsAssumption DEF Fail, Bounds
<1>6. ASSUME NEW p \in Procs, NEW d \in Dbs, Restart(p, d) PROVE Bounds'
  BY <1>6, BoundsAssumption DEF Restart, Bounds
<1>7. Visit \/ (\E u \in Users : Register(u)) => Bounds'
  BY DEF Visit, Register, Bounds, bounds
<1> QED BY <1>2, <1>3, <1>4, <1>5, <1>6, <1>7 DEF Next, Step

-----------------------------------------------------------------------------
(* What the threads know.                                                  *)

\* Files come from accounts that exist or existed.
LEMMA NextKeepsOwned ==
    ASSUME IInv, Next
    PROVE  Owned'
<1> USE DEF IInv
<1>1. \A d \in Dbs : used[d] \subseteq used'[d]
  BY DatabaseSteps DEF Database, database, NewAccount, DeleteRow, Restart
<1>2. \A u \in Users, d \in Dbs : d \in dir'[u] => u \in used[d]
  <2>1. ASSUME NEW p \in Procs, SettleTomb(p), NEW u \in Users, NEW d \in Dbs, d \in dir'[u]
        PROVE  u \in used[d]
    <3> DEFINE t == req[p].tomb
    <3>1. t \in Tombs /\ Named(t, req[p].user) /\ req[p].user \in Users
      BY <2>1, InCritical DEF Requests, Fine, Names, SettleTomb, At
    <3>2. CASE UNCHANGED dir
      BY <2>1, <3>2 DEF Owned
    <3>3. CASE tomb[t] # NoTomb /\ dir' = [dir EXCEPT ![req[p].user] = tomb[t].by]
      <4>1. tomb[t].user = req[p].user
        BY <3>1, <3>3 DEF Named
      <4> QED BY <2>1, <3>1, <3>3, <4>1 DEF Owned, Disk
    <3> QED BY <2>1, <3>2, <3>3 DEF SettleTomb, disk
  <2>2. ASSUME NEW p \in Procs, Move(p) \/ MoveAway(p), NEW u \in Users, NEW d \in Dbs, d \in dir'[u]
        PROVE  u \in used[d]
    <3>1. dir'[u] \subseteq dir[u]
      BY <2>2 DEF Move, MoveAway, MoveToTomb, disk, Disk
    <3> QED BY <2>2, <3>1 DEF Owned
  <2>3. ASSUME NEW p \in Procs, Write(p), NEW u \in Users, NEW d \in Dbs, d \in dir'[u]
        PROVE  u \in used[d]
    <3>1. CASE d \in dir[u]
      BY <3>1 DEF Owned
    <3>2. CASE d \notin dir[u]
      <4>1. d = mounted /\ u = req[p].user /\ Exists(u)
        BY <2>3, <3>2 DEF Write, Disk
      <4> QED BY <4>1 DEF Exists, Database
    <3> QED BY <3>1, <3>2
  <2> QED BY <2>1, <2>2, <2>3, DirSteps DEF Owned
<1>3. \A t \in Tombs, d \in Dbs : tomb'[t] # NoTomb /\ d \in tomb'[t].by => tomb'[t].user \in used[d]
  <2>1. ASSUME NEW x, RemoveTomb(x), NEW t \in Tombs, tomb'[t] # NoTomb PROVE tomb'[t] = tomb[t]
    BY <2>1 DEF RemoveTomb, Disk
  <2>2. ASSUME NEW p \in Procs, NEW next, MoveToTomb(p, next), Move(p) \/ MoveAway(p),
               NEW t \in Tombs, NEW d \in Dbs, tomb'[t] # NoTomb, d \in tomb'[t].by
        PROVE  tomb'[t].user \in used[d]
    <3>1. req[p].user \in Users
      BY <2>2, InCritical
    <3>2. tomb'[t] = tomb[t] \/ (tomb'[t].user = req[p].user /\ tomb'[t].by = dir[req[p].user])
      BY <2>2 DEF MoveToTomb, Disk
    <3> QED BY <2>2, <3>1, <3>2 DEF Owned
  <2>3. ASSUME NEW t \in Tombs, tomb'[t] = tomb[t] PROVE
               \A d \in Dbs : tomb'[t] # NoTomb /\ d \in tomb'[t].by => tomb'[t].user \in used[d]
    BY <2>3 DEF Owned
  <2> QED BY <2>1, <2>2, <2>3, TombSteps
<1> QED BY <1>1, <1>2, <1>3, NextKeepsDatabase DEF Owned, Database

\* What Continue and PutOff, and taking an item, leave in the request.
LEMMA Continued ==
    ASSUME Requests, NEW p \in Procs, Continue(p) \/ PutOff(p)
    PROVE  /\ req'[p].pc = req[p].back /\ req'[p].back = req[p].back /\ req'[p].todo = req[p].todo
           /\ \A q \in Procs \ {p} : req'[q] = req[q]
<1> DEFINE r == [req[p] EXCEPT !.pc = req[p].back, !.user = None, !.tomb = None]
           s == [req[p] EXCEPT !.pc = req[p].back, !.user = None, !.tomb = None, !.pending = TRUE]
<1>1. req' = [req EXCEPT ![p] = r] \/ req' = [req EXCEPT ![p] = s]
  BY DEF Continue, PutOff, Release
<1>2. \A x \in {r, s} : x.pc = req[p].back /\ x.back = req[p].back /\ x.todo = req[p].todo
  BY DEF Requests, Request
<1> HIDE DEF r, s
<1> QED BY <1>1, <1>2 DEF Requests

LEMMA Taken ==
    ASSUME Requests, NEW p \in Procs, NEW loop, NEW pc, TakeItem(p, loop, pc)
    PROVE  /\ req[p].pc = loop
           /\ \A q \in Procs \ {p} : req'[q] = req[q]
           /\ req'[p].pc = pc /\ req'[p].back = loop
           /\ \E item \in req[p].todo :
                /\ req'[p].todo = req[p].todo \ {item}
                /\ req'[p].tomb = item.name /\ req'[p].user = item.user
<1>1. PICK item \in req[p].todo :
        Acquire(p, item.user, [req[p] EXCEPT !.pc = pc, !.back = loop, !.tomb = item.name,
                                             !.user = item.user, !.todo = @ \ {item}])
  BY DEF TakeItem
<1> DEFINE r == [req[p] EXCEPT !.pc = pc, !.back = loop, !.tomb = item.name,
                               !.user = item.user, !.todo = @ \ {item}]
<1>2. /\ r.pc = pc /\ r.back = loop /\ r.user = item.user /\ r.tomb = item.name
      /\ r.todo = req[p].todo \ {item}
  BY DEF Requests, Request
<1>3. req' = [req EXCEPT ![p] = r]
  BY <1>1 DEF Acquire
<1>4. req[p].pc = loop
  BY DEF TakeItem, At
<1> HIDE DEF r
<1> QED BY <1>2, <1>3, <1>4 DEF Requests

\* What a thread has listed, and the tombstone it works on.
ListedOf(q) ==
    /\ \/ req'[q].todo \subseteq req[q].todo
       \/ \E S \in SUBSET Users : req'[q].todo = Items(S)
       \/ req'[q].todo = Trash /\ UNCHANGED tomb
    /\ At(q, "tomb")' => \/ /\ At(q, "tomb")
                            /\ req'[q].tomb = req[q].tomb /\ req'[q].user = req[q].user
                         \/ \E item \in req[q].todo : /\ req'[q].tomb = item.name
                                                      /\ req'[q].user = item.user

\* A step of the thread p, as opposed to a restart or a step of the database.
Acts(p) == Step(p) \/ StartDelete(p) \/ Fail(p) \/ \E u \in Users : StartUpload(p, u)

\* Such a step leaves the other threads where they are.
LEMMA OthersStay ==
    ASSUME IInv, NEW p \in Procs, NEW q \in Procs, p # q, Acts(p)
    PROVE  req'[q] = req[q]
<1>0. req \in [Procs -> Request]
  BY DEF IInv, Requests
<1>1. ASSUME Recover(p) PROVE req'[q] = req[q]
  BY <1>0, <1>1 DEF Recover, StartRecovery, TakeTomb, SettleTomb, Purge, TombsDone, Match, TakeOrphan,
     Orphan, Move, MoveToTomb, OrphansDone, TakeReservation, SettleReservation, ReservationsDone, Recovered,
     TakeItem, Goto, Scan, End, Continue, PutOff, Release, Acquire
<1>2. ASSUME ~Recover(p) PROVE req'[q] = req[q]
  BY <1>0, <1>2 DEF Acts, Step, Boot, BootEmpty, TakeTarget, DeleteRow, MoveAway, MoveToTomb, Unreserve,
     RemoveEntry, TakeUpload, Write, StartDelete, StartUpload, Fail, Goto, Continue, PutOff, Release, Acquire
<1> QED BY <1>1, <1>2

LEMMA NextCases ==
    ASSUME Next
    PROVE  \/ \E p \in Procs : Acts(p)
           \/ \E p \in Procs, d \in Dbs : Restart(p, d)
           \/ (Visit \/ \E u \in Users : Register(u)) /\ UNCHANGED <<disk, req, lock>>
BY DEF Next, Acts, Visit, Register

LEMMA ListingSteps ==
    ASSUME IInv, Next, NEW q \in Procs
    PROVE  ListedOf(q)
<1> USE DEF IInv
<1>0. req \in [Procs -> Request] /\ req[q] \in Request /\ Fine(req[q])
  BY DEF Requests
<1>1. ASSUME req'[q] = req[q] PROVE ListedOf(q)
  BY <1>1 DEF ListedOf, At
<1>2. ASSUME req'[q].todo = {}, req'[q].pc # "tomb" PROVE ListedOf(q)
  BY <1>2 DEF ListedOf, At
<1>3. ASSUME req'[q].todo = req[q].todo, req'[q].pc # "tomb" PROVE ListedOf(q)
  BY <1>3 DEF ListedOf, At
<1>4. ASSUME Continue(q) \/ PutOff(q), req[q].back # "none" PROVE ListedOf(q)
  <2>1. req[q].back # "tomb"
    BY <1>0 DEF Request
  <2> QED BY <1>3, <1>4, <2>1, Continued
<1>5. ASSUME NEW pc, Goto(q, pc), pc # "tomb" PROVE ListedOf(q)
  BY <1>0, <1>3, <1>5 DEF Goto
<1>6. ASSUME NEW b, End(q, b) PROVE ListedOf(q)
  BY <1>0, <1>3, <1>6 DEF End
<1>7. ASSUME NEW pc \in {"orphans", "reservations"}, NEW S \in SUBSET Users, Scan(q, pc, Items(S)) PROVE ListedOf(q)
  BY <1>0, <1>7 DEF Scan, ListedOf, At
<1>8. ASSUME NEW next, next # "tomb", MoveToTomb(q, next) PROVE ListedOf(q)
  BY <1>0, <1>3, <1>8 DEF MoveToTomb
<1>9. ASSUME NEW p \in Procs, p # q, Acts(p) PROVE ListedOf(q)
  BY <1>1, <1>9, OthersStay
<1>10. ASSUME Recover(q) PROVE ListedOf(q)
  <2>1. CASE StartRecovery(q)
    <3>1. CASE Scan(q, "tombs", Trash)
      BY <1>0, <2>1, <3>1 DEF StartRecovery, Scan, ListedOf, At, disk
    <3> QED BY <1>6, <2>1, <3>1 DEF StartRecovery
  <2>2. CASE TakeTomb(q) \/ TakeOrphan(q) \/ TakeReservation(q)
    BY <2>2, Taken DEF TakeTomb, TakeOrphan, TakeReservation, ListedOf, At
  <2>3. CASE SettleTomb(q)
    BY <1>0, <1>4, <1>5, <2>3 DEF SettleTomb, At, Fine
  <2>4. CASE Purge(q) \/ SettleReservation(q)
    BY <1>0, <1>4, <2>4 DEF Purge, SettleReservation, At, Fine
  <2>5. CASE Orphan(q)
    BY <1>0, <1>4, <1>5, <2>5 DEF Orphan, At, Fine
  <2>6. CASE Move(q)
    BY <1>0, <1>4, <1>8, <2>6 DEF Move, At, Fine
  <2>7. CASE TombsDone(q)
    BY <1>5, <1>7, <2>7 DEF TombsDone, Disk
  <2>8. CASE Match(q)
    BY <1>6, <1>7, <2>8 DEF Match
  <2>9. CASE OrphansDone(q) \/ ReservationsDone(q)
    BY <1>6, <1>7, <2>9 DEF OrphansDone, ReservationsDone, Disk
  <2>10. CASE Recovered(q)
    BY <1>0, <1>2, <2>10 DEF Recovered, Idle
  <2> QED BY <1>10, <2>1, <2>2, <2>3, <2>4, <2>5, <2>6, <2>7, <2>8, <2>9, <2>10 DEF Recover
<1>11. ASSUME \/ Boot(q) \/ BootEmpty(q) \/ TakeTarget(q) \/ DeleteRow(q) \/ MoveAway(q) \/ Unreserve(q)
              \/ RemoveEntry(q) \/ TakeUpload(q) \/ Write(q) \/ StartDelete(q)
              \/ \E u \in Users : StartUpload(q, u)
       PROVE  ListedOf(q)
  <2>1. Release(q, Idle) => ListedOf(q)
    BY <1>0, <1>2 DEF Release, Idle
  <2>2. CASE Boot(q) \/ DeleteRow(q) \/ MoveAway(q) \/ Unreserve(q) \/ RemoveEntry(q) \/ Write(q)
    BY <1>5, <1>8, <2>1, <2>2 DEF Boot, DeleteRow, MoveAway, Unreserve, RemoveEntry, Write
  <2>3. CASE BootEmpty(q) \/ StartDelete(q) \/ \E u \in Users : StartUpload(q, u)
    <3>1. \/ req'[q] = Idle
          \/ req'[q] = [Idle EXCEPT !.op = "delete", !.pc = "scan"]
          \/ \E u \in Users : req'[q] = [Idle EXCEPT !.op = "upload", !.pc = "upload", !.user = u]
      BY <1>0, <2>3 DEF BootEmpty, StartDelete, StartUpload
    <3>2. req'[q].todo = {} /\ req'[q].pc # "tomb"
      <4>1. /\ Idle.todo = {} /\ Idle.pc = "idle"
            /\ [Idle EXCEPT !.op = "delete", !.pc = "scan"].todo = {}
            /\ [Idle EXCEPT !.op = "delete", !.pc = "scan"].pc = "scan"
        BY DEF Idle
      <4>2. ASSUME NEW u
            PROVE  /\ [Idle EXCEPT !.op = "upload", !.pc = "upload", !.user = u].todo = {}
                   /\ [Idle EXCEPT !.op = "upload", !.pc = "upload", !.user = u].pc = "upload"
        BY DEF Idle
      <4> QED BY <3>1, <4>1, <4>2
    <3> QED BY <1>2, <3>2
  <2>4. CASE TakeTarget(q)
    BY <1>0, <1>2, <2>4 DEF TakeTarget, Acquire, Idle
  <2>5. CASE TakeUpload(q)
    BY <1>0, <1>3, <2>5 DEF TakeUpload, Acquire
  <2> QED BY <1>11, <2>2, <2>3, <2>4, <2>5
<1>12. ASSUME Fail(q) PROVE ListedOf(q)
  BY <1>0, <1>2, <1>4, <1>12 DEF Fail, Release, Idle
<1>13. ASSUME NEW p \in Procs, NEW d \in Dbs, Restart(p, d) PROVE ListedOf(q)
  BY <1>2, <1>13 DEF Restart, Idle
<1>14. Visit \/ (\E u \in Users : Register(u)) => ListedOf(q)
  BY <1>1 DEF Visit, Register
<1> QED BY <1>1, <1>9, <1>10, <1>11, <1>12, <1>13, <1>14, NextCases DEF Acts, Step

\* A listed name keeps its account: a new tombstone gets a name nobody listed.
LEMMA NextKeepsNamed ==
    ASSUME IInv, Next, NEW t, NEW u, Named(t, u),
           \/ \E q \in Procs : At(q, "tomb") /\ req[q].tomb = t
           \/ \E q \in Procs : \E item \in req[q].todo : item.name = t
    PROVE  Named(t, u)'
<1> USE DEF IInv
<1>1. ASSUME NEW x, RemoveTomb(x) PROVE Named(t, u)'
  BY <1>1 DEF Named, RemoveTomb, Disk
<1>2. ASSUME NEW p \in Procs, NEW next, MoveToTomb(p, next) PROVE Named(t, u)'
  <2>1. PICK x \in Tombs : Fresh(x) /\ tomb' = [tomb EXCEPT ![x] = [user |-> req[p].user, by |-> dir[req[p].user]]]
    BY <1>2 DEF MoveToTomb
  <2>2. x # t
    BY <2>1 DEF Fresh
  <2> QED BY <2>1, <2>2 DEF Named, Disk
<1>3. ASSUME UNCHANGED tomb PROVE Named(t, u)'
  BY <1>3 DEF Named
<1> QED BY <1>1, <1>2, <1>3, TombSteps

LEMMA NextKeepsNames ==
    ASSUME IInv, Next
    PROVE  Names'
<1> SUFFICES ASSUME NEW q \in Procs
             PROVE  /\ \A item \in req'[q].todo : Named(item.name, item.user)'
                    /\ At(q, "tomb")' => Named(req[q].tomb, req[q].user)'
  BY DEF Names
<1>0. ListedOf(q)
  BY ListingSteps
<1>1. ASSUME NEW item \in req'[q].todo PROVE Named(item.name, item.user)'
  <2>1. CASE item \in req[q].todo
    <3>1. Named(item.name, item.user)
      BY <2>1 DEF IInv, Names
    <3> QED BY <2>1, <3>1, NextKeepsNamed
  <2>2. CASE \E S \in SUBSET Users : item \in Items(S)
    <3>1. item.name \notin Tombs
      BY <2>2, ItemsFacts, NoneFacts
    <3> QED BY <3>1 DEF Named
  <2>3. CASE item \in Trash /\ UNCHANGED tomb
    BY <2>3, ItemsFacts DEF Named, IInv
  <2> QED BY <1>0, <1>1, <2>1, <2>2, <2>3 DEF ListedOf
<1>2. ASSUME At(q, "tomb")' PROVE Named(req[q].tomb, req[q].user)'
  <2>1. CASE At(q, "tomb") /\ req'[q].tomb = req[q].tomb /\ req'[q].user = req[q].user
    <3>1. Named(req[q].tomb, req[q].user)
      BY <2>1 DEF IInv, Names
    <3> QED BY <2>1, <3>1, NextKeepsNamed DEF Named
  <2>2. CASE \E item \in req[q].todo : req'[q].tomb = item.name /\ req'[q].user = item.user
    <3>1. PICK item \in req[q].todo : req'[q].tomb = item.name /\ req'[q].user = item.user
      BY <2>2
    <3>2. Named(item.name, item.user)
      BY DEF IInv, Names
    <3>3. Named(item.name, item.user)'
      BY <3>2, NextKeepsNamed
    <3> QED BY <3>1, <3>3 DEF Named
  <2> QED BY <1>0, <1>2, <2>1, <2>2 DEF ListedOf
<1> QED BY <1>1, <1>2

\* Only its own steps change the directory of a user whose lock a thread holds,
\* and each of them moves the thread on.
LEMMA HolderOwnsDir ==
    ASSUME IInv, Next, NEW q \in Procs, req[q].pc \in Critical, req'[q] = req[q]
    PROVE  dir'[req[q].user] = dir[req[q].user]
<1> USE DEF IInv
<1>0. req[q].user \in Users /\ lock[req[q].user] = q /\ Fine(req[q])
  BY DEF Requests, Fine
<1>1. ASSUME NEW p \in Procs, SettleTomb(p) \/ Move(p) \/ MoveAway(p) \/ Write(p), p # q
      PROVE  dir'[req[q].user] = dir[req[q].user]
  <2>1. req[p].user # req[q].user
    BY <1>0, <1>1, InCritical
  <2> QED BY <1>0, <1>1, <2>1 DEF SettleTomb, Move, MoveAway, MoveToTomb, Write, Disk, disk
<1>2. ASSUME SettleTomb(q) \/ Move(q) \/ MoveAway(q) \/ Write(q) PROVE FALSE
  <2>1. ASSUME Continue(q) \/ PutOff(q) PROVE req'[q].pc \notin Critical
    BY <1>0, <2>1, Continued DEF Request, Critical, Requests
  <2>2. ASSUME Release(q, Idle) PROVE req'[q].pc \notin Critical
    BY <2>2 DEF Release, Idle, Critical, Requests
  <2>3. ASSUME NEW pc, Goto(q, pc) PROVE req'[q].pc = pc
    BY <2>3 DEF Goto, Requests, Request
  <2>4. ASSUME NEW next, MoveToTomb(q, next) PROVE req'[q].pc = next
    BY <2>4 DEF MoveToTomb, Requests, Request
  <2>5. CASE SettleTomb(q)
    BY <1>2, <2>1, <2>3, <2>5 DEF SettleTomb, At
  <2>6. CASE Move(q)
    BY <1>2, <2>1, <2>4, <2>6 DEF Move, At
  <2>7. CASE MoveAway(q)
    BY <1>2, <2>3, <2>4, <2>7 DEF MoveAway, At
  <2>8. CASE Write(q)
    BY <1>2, <2>2, <2>8 DEF Write
  <2> QED BY <1>2, <2>5, <2>6, <2>7, <2>8
<1> QED BY <1>1, <1>2, DirSteps

\* What the thread q knows stays true while it does not move.
LEMMA GoneStays ==
    ASSUME IInv, Next, mounted' = mounted, NEW q \in Procs, req'[q] = req[q]
    PROVE  GoneOf(q)'
<1> USE DEF IInv
<1>0. GoneOf(q) /\ Fine(req[q])
  BY DEF Gone, Requests
<1>1. ASSUME NEW u \in Users, u \notin rows[mounted], u \in rows'[mounted]
      PROVE  u \notin used[mounted]
  BY <1>1, DatabaseSteps DEF database, NewAccount, DeleteRow, Restart, Database
<1>2. used[mounted] \subseteq used'[mounted]
  BY DatabaseSteps DEF database, NewAccount, DeleteRow, Restart, Database
<1>3. ASSUME At(q, "move") PROVE req[q].user \notin rows'[mounted] \/ mounted \notin dir'[req[q].user]
  <2>1. req[q].pc \in Critical /\ req[q].user \in Users
    BY <1>0, <1>3 DEF At, Critical, Fine
  <2>2. dir'[req[q].user] = dir[req[q].user]
    BY <2>1, HolderOwnsDir
  <2>3. mounted \in dir[req[q].user] => req[q].user \in used[mounted]
    BY <2>1 DEF Owned, Database
  <2> QED BY <1>0, <1>1, <1>3, <2>1, <2>2, <2>3 DEF GoneOf
<1>4. ASSUME req[q].pc \in {"moveAway", "unreserve"} PROVE req[q].user \in used'[mounted] \ rows'[mounted]
  <2>1. req[q].user \in Users
    BY <1>0, <1>4 DEF Fine, Critical
  <2> QED BY <1>0, <1>1, <1>2, <1>4, <2>1 DEF GoneOf
<1>5. ASSUME marker = mounted PROVE marker' = mounted
  BY <1>5, MarkerSteps, NoneFacts DEF Database
<1> QED BY <1>0, <1>3, <1>4, <1>5 DEF GoneOf, At

\* What a thread learns by its own step.
LEMMA GoneLearnt ==
    ASSUME IInv, Next, NEW q \in Procs, Acts(q)
    PROVE  GoneOf(q)'
<1> USE DEF IInv
<1>0. req \in [Procs -> Request] /\ req[q] \in Request /\ Fine(req[q]) /\ GoneOf(q)
  BY DEF Requests, Gone
<1>1. ASSUME marker = mounted, mounted' = mounted PROVE marker' = mounted'
  BY <1>1, MarkerSteps, NoneFacts DEF Database
<1>2. ASSUME req'[q].pc \notin Critical \cup {"orphans"} PROVE GoneOf(q)'
  BY <1>2 DEF GoneOf, At, Critical
<1>3. ASSUME Continue(q) \/ PutOff(q), req[q].pc \in Critical, req[q].back # "none", mounted' = mounted
      PROVE  GoneOf(q)'
  <2>1. req'[q].pc = req[q].back /\ req'[q].pc \notin Critical
    BY <1>0, <1>3, Continued DEF Request, Critical
  <2>2. req[q].back = "orphans" => marker' = mounted'
    BY <1>0, <1>1, <1>3 DEF GoneOf
  <2> QED BY <2>1, <2>2 DEF GoneOf, At, Critical
<1>4. ASSUME NEW pc \in {"purge", "remove"}, Goto(q, pc) \/ MoveToTomb(q, pc), mounted' = mounted,
             req[q].pc \in Critical
      PROVE  GoneOf(q)'
  <2>1. req'[q].pc = pc /\ req'[q].back = req[q].back
    BY <1>0, <1>4 DEF Goto, MoveToTomb, Request
  <2> QED BY <1>0, <1>1, <1>4, <2>1 DEF GoneOf, At
<1>5. ASSUME NEW pc, Goto(q, pc) \/ Scan(q, pc, req'[q].todo), pc \notin Critical \cup {"orphans"} PROVE GoneOf(q)'
  BY <1>0, <1>2, <1>5 DEF Goto, Scan, Request
<1>6. ASSUME Release(q, Idle) PROVE GoneOf(q)'
  BY <1>0, <1>2, <1>6 DEF Release, Idle, Critical
<1>7. ASSUME NEW b, End(q, b) PROVE GoneOf(q)'
  BY <1>0, <1>2, <1>7 DEF End, Request, Critical
<1>8. ASSUME Recover(q) PROVE GoneOf(q)'
  <2>0. mounted' = mounted
    BY <1>8 DEF Recover, StartRecovery, TakeTomb, SettleTomb, Purge, TombsDone, Match, TakeOrphan, Orphan,
       Move, OrphansDone, TakeReservation, SettleReservation, ReservationsDone, Recovered, TakeItem, database
  <2>1. CASE StartRecovery(q) \/ TombsDone(q) \/ OrphansDone(q) \/ ReservationsDone(q)
    <3>1. req'[q].pc \in {"recovered", "tombs", "match", "reservations"}
      BY <1>0, <2>1 DEF StartRecovery, TombsDone, OrphansDone, ReservationsDone, Goto, Scan, End, Request
    <3> QED BY <1>2, <3>1 DEF Critical
  <2>2. CASE TakeTomb(q) \/ TakeReservation(q)
    <3>1. req'[q].pc \in {"tomb", "reservation"} /\ req'[q].back \in {"tombs", "reservations"}
      BY <2>2, Taken DEF TakeTomb, TakeReservation
    <3> QED BY <3>1 DEF GoneOf, At
  <2>3. CASE TakeOrphan(q)
    <3>1. req[q].pc = "orphans" /\ req'[q].pc = "orphan"
      BY <2>3, Taken DEF TakeOrphan
    <3> QED BY <1>0, <1>1, <2>0, <3>1 DEF GoneOf, At
  <2>4. CASE SettleTomb(q) \/ Purge(q) \/ SettleReservation(q)
    <3>1. req[q].pc \in Critical /\ req[q].back # "none"
      BY <1>0, <2>4 DEF SettleTomb, Purge, SettleReservation, At, Critical, Fine
    <3> QED BY <1>3, <1>4, <2>0, <2>4, <3>1 DEF SettleTomb, Purge, SettleReservation
  <2>5. CASE Match(q)
    <3>1. CASE Scan(q, "orphans", Items({u \in Users : dir[u] # {}})) /\ marker = mounted
      <4>1. req'[q].pc = "orphans"
        BY <1>0, <3>1 DEF Scan, Request
      <4> QED BY <1>1, <2>0, <3>1, <4>1 DEF GoneOf, At, Critical
    <3> QED BY <1>7, <2>5, <3>1 DEF Match
  <2>6. CASE Orphan(q)
    <3>1. req[q].pc \in Critical /\ req[q].back # "none"
      BY <1>0, <2>6 DEF Orphan, At, Critical, Fine
    <3>2. CASE Goto(q, "move") /\ ~Exists(req[q].user)
      <4>1. req'[q].pc = "move" /\ req'[q].back = req[q].back /\ req'[q].user = req[q].user
        BY <1>0, <3>2 DEF Goto, Request
      <4>2. rows' = rows /\ (req[q].back = "orphans" => marker' = mounted')
        BY <1>0, <1>1, <2>0, <2>6, <3>1 DEF GoneOf, Orphan, database
      <4> QED BY <2>0, <3>2, <4>1, <4>2 DEF GoneOf, At, Exists
    <3> QED BY <1>3, <2>0, <2>6, <3>1, <3>2 DEF Orphan
  <2>7. CASE Move(q)
    <3>1. req[q].pc \in Critical /\ req[q].back # "none"
      BY <1>0, <2>7 DEF Move, At, Critical, Fine
    <3> QED BY <1>3, <1>4, <2>0, <2>7, <3>1 DEF Move
  <2>8. CASE Recovered(q)
    <3>1. req'[q].pc \in {"target", "idle"}
      BY <1>0, <2>8 DEF Recovered, Idle
    <3> QED BY <1>2, <3>1 DEF Critical
  <2> QED BY <1>8, <2>1, <2>2, <2>3, <2>4, <2>5, <2>6, <2>7, <2>8 DEF Recover
<1>9. ASSUME \/ Boot(q) \/ BootEmpty(q) \/ Unreserve(q) \/ RemoveEntry(q) \/ Write(q) \/ StartDelete(q)
             \/ \E u \in Users : StartUpload(q, u)
      PROVE  GoneOf(q)'
  <2>0. CASE Boot(q)
    <3>1. req'[q].pc \in {"bootEmpty", "scan"}
      BY <1>0, <2>0 DEF Boot, Goto, Request
    <3> QED BY <1>2, <3>1 DEF Critical
  <2>1. CASE BootEmpty(q) \/ StartDelete(q) \/ \E u \in Users : StartUpload(q, u)
    <3>1. \/ req'[q] = Idle
          \/ req'[q] = [Idle EXCEPT !.op = "delete", !.pc = "scan"]
          \/ \E u \in Users : req'[q] = [Idle EXCEPT !.op = "upload", !.pc = "upload", !.user = u]
      BY <1>0, <2>1 DEF BootEmpty, StartDelete, StartUpload
    <3>2. Idle.pc = "idle" /\ [Idle EXCEPT !.op = "delete", !.pc = "scan"].pc = "scan"
      BY DEF Idle
    <3>3. ASSUME NEW u PROVE [Idle EXCEPT !.op = "upload", !.pc = "upload", !.user = u].pc = "upload"
      BY DEF Idle
    <3>4. CASE req'[q] = Idle \/ req'[q] = [Idle EXCEPT !.op = "delete", !.pc = "scan"]
      BY <1>2, <3>2, <3>4 DEF Critical
    <3>5. ASSUME NEW u \in Users, req'[q] = [Idle EXCEPT !.op = "upload", !.pc = "upload", !.user = u]
          PROVE  GoneOf(q)'
      <4>1. req'[q].pc = "upload"
        BY <3>3, <3>5
      <4> QED BY <1>2, <4>1 DEF Critical
    <3> QED BY <3>1, <3>4, <3>5
  <2>2. CASE Unreserve(q)
    <3>1. mounted' = mounted /\ req[q].pc \in Critical
      BY <2>2 DEF Unreserve, database, At, Critical
    <3> QED BY <1>4, <1>6, <2>2, <3>1 DEF Unreserve
  <2>3. CASE RemoveEntry(q) \/ Write(q)
    BY <1>6, <2>3 DEF RemoveEntry, Write
  <2> QED BY <1>9, <2>0, <2>1, <2>2, <2>3
<1>10. ASSUME TakeTarget(q) \/ TakeUpload(q) PROVE GoneOf(q)'
  <2>1. CASE TakeTarget(q)
    <3>1. req'[q].pc = "deleteRow" /\ req'[q].back = "none"
      BY <1>0, <2>1 DEF TakeTarget, Acquire, Idle
    <3> QED BY <3>1 DEF GoneOf, At
  <2>2. CASE TakeUpload(q)
    <3>1. req'[q].pc = "write" /\ req'[q].back = req[q].back /\ req[q].back = "none"
      BY <1>0, <2>2 DEF TakeUpload, Acquire, Request, Fine, At
    <3> QED BY <3>1 DEF GoneOf, At
  <2> QED BY <1>10, <2>1, <2>2
<1>11. ASSUME DeleteRow(q) PROVE GoneOf(q)'
  <2>1. CASE Exists(req[q].user)
    <3>1. req'[q].pc = "moveAway" /\ req'[q].back = req[q].back /\ req'[q].user = req[q].user
      BY <1>0, <1>11, <2>1 DEF DeleteRow, Goto, Request
    <3>2. req[q].user \in used'[mounted] \ rows'[mounted] /\ mounted' = mounted /\ req[q].pc \in Critical
      BY <1>11, <2>1 DEF DeleteRow, Exists, Database, At, Critical
    <3> QED BY <1>0, <1>1, <3>1, <3>2 DEF GoneOf, At
  <2>2. CASE ~Exists(req[q].user)
    BY <1>6, <1>11, <2>2 DEF DeleteRow
  <2> QED BY <2>1, <2>2
<1>12. ASSUME MoveAway(q) PROVE GoneOf(q)'
  <2>1. req'[q].pc = "unreserve" /\ req'[q].back = req[q].back /\ req'[q].user = req[q].user
    BY <1>0, <1>12 DEF MoveAway, MoveToTomb, Goto, Request
  <2>2. mounted' = mounted /\ rows' = rows /\ used' = used /\ req[q].pc \in Critical
    BY <1>12 DEF MoveAway, database, At, Critical
  <2>3. req[q].user \in used[mounted] \ rows[mounted]
    BY <1>0, <1>12 DEF MoveAway, GoneOf, At
  <2> QED BY <1>0, <1>1, <2>1, <2>2, <2>3 DEF GoneOf, At
<1>13. ASSUME Fail(q) PROVE GoneOf(q)'
  BY <1>3, <1>6, <1>13 DEF Fail, database
<1> QED BY <1>8, <1>9, <1>10, <1>11, <1>12, <1>13 DEF Acts, Step

\* Only a restart mounts another database.
LEMMA ActsStayMounted ==
    ASSUME NEW p \in Procs, Acts(p)
    PROVE  mounted' = mounted
<1>1. ASSUME Recover(p) PROVE mounted' = mounted
  BY <1>1 DEF Recover, StartRecovery, TakeTomb, SettleTomb, Purge, TombsDone, Match, TakeOrphan, Orphan,
     Move, OrphansDone, TakeReservation, SettleReservation, ReservationsDone, Recovered, TakeItem, database
<1>2. ASSUME BootEmpty(p) PROVE mounted' = mounted
  BY <1>2 DEF BootEmpty, EnsureAdmin, NewAccount, database
<1>3. ASSUME Boot(p) \/ TakeTarget(p) \/ DeleteRow(p) \/ MoveAway(p) \/ Unreserve(p) \/ RemoveEntry(p)
             \/ TakeUpload(p) \/ Write(p) \/ StartDelete(p) \/ Fail(p) \/ \E u \in Users : StartUpload(p, u)
      PROVE  mounted' = mounted
  BY <1>3 DEF Boot, TakeTarget, DeleteRow, MoveAway, Unreserve, RemoveEntry, TakeUpload, Write, StartDelete, Fail,
     StartUpload, database
<1> QED BY <1>1, <1>2, <1>3 DEF Acts, Step

LEMMA NextKeepsGone ==
    ASSUME IInv, Next
    PROVE  Gone'
<1>1. ASSUME NEW q \in Procs, req'[q].pc \in {"boot", "idle"} PROVE GoneOf(q)'
  BY <1>1 DEF GoneOf, At, Critical
<1>2. ASSUME NEW p \in Procs, NEW d \in Dbs, Restart(p, d), NEW q \in Procs PROVE GoneOf(q)'
  BY <1>1, <1>2 DEF Restart, Idle
<1>3. ASSUME NEW p \in Procs, Acts(p), NEW q \in Procs PROVE GoneOf(q)'
  <2>1. CASE q = p
    BY <1>3, <2>1, GoneLearnt
  <2>2. CASE q # p
    <3>1. mounted' = mounted
      BY <1>3, ActsStayMounted
    <3>2. req'[q] = req[q]
      BY <1>3, <2>2, OthersStay DEF IInv
    <3> QED BY <3>1, <3>2, GoneStays
  <2> QED BY <2>1, <2>2
<1>4. ASSUME Visit \/ \E u \in Users : Register(u), UNCHANGED req, NEW q \in Procs PROVE GoneOf(q)'
  <2>1. mounted' = mounted
    BY <1>4 DEF Visit, Register, EnsureAdmin, NewAccount, database
  <2> QED BY <1>4, <2>1, GoneStays
<1> QED BY <1>2, <1>3, <1>4, NextCases DEF Gone

-----------------------------------------------------------------------------
(* The theorems.                                                           *)

LEMMA InitIInv == Init => IInv
<1> SUFFICES ASSUME Init PROVE IInv
  OBVIOUS
<1>0. PICK b \in Procs : req = [q \in Procs |-> IF q = b THEN [Idle EXCEPT !.op = "boot", !.pc = "boot"] ELSE Idle]
  BY DEF Init
<1>1. /\ [Idle EXCEPT !.op = "boot", !.pc = "boot"] \in Request
      /\ [Idle EXCEPT !.op = "boot", !.pc = "boot"].pc = "boot"
      /\ [Idle EXCEPT !.op = "boot", !.pc = "boot"].todo = {}
  BY DEF Idle, Request, Critical
<1>2. \A q \in Procs : req[q] \in Request /\ req[q].pc \in {"boot", "idle"} /\ req[q].todo = {}
  BY <1>0, <1>1, IdleFine
<1>3. \A q \in Procs : req[q].pc \notin Critical /\ Fine(req[q])
  BY <1>2 DEF Fine, Critical
<1>4. Requests
  BY <1>0, <1>2, <1>3 DEF Init, Requests
<1>5. Database /\ Disk
  BY DEF Init, Database, Disk
<1>6. Bounds
  BY BoundsAssumption DEF Init, Bounds
<1>7. Names
  BY <1>2 DEF Names, At
<1>8. Owned
  BY DEF Init, Owned
<1>9. Gone
  BY <1>2, <1>3 DEF Gone, GoneOf, At
<1> QED BY <1>4, <1>5, <1>6, <1>7, <1>8, <1>9 DEF IInv

LEMMA StepIInv == IInv /\ [Next]_vars => IInv'
<1> SUFFICES ASSUME IInv, [Next]_vars PROVE IInv'
  OBVIOUS
<1>1. CASE Next
  BY <1>1, NextKeepsRequests, NextKeepsDatabase, NextKeepsDisk, NextKeepsBounds, NextKeepsNames, NextKeepsOwned,
     NextKeepsGone DEF IInv
<1>2. CASE UNCHANGED vars
  <2>1. /\ UNCHANGED <<mounted, rows, used>> /\ UNCHANGED <<dir, usersDir, reserved, tomb, marker>>
        /\ UNCHANGED <<lock, req, scope, restarts, faults>>
    BY <1>2 DEF vars, database, disk, bounds
  <2>2. Requests' /\ Database' /\ Disk' /\ Bounds'
    BY <2>1 DEF IInv, Requests, Database, Disk, Bounds
  <2>3. Names' /\ Owned' /\ Gone'
    BY <2>1 DEF IInv, Names, Named, Owned, Gone, GoneOf, At
  <2> QED BY <2>2, <2>3 DEF IInv
<1> QED BY <1>1, <1>2

\* What every thread knows in its critical section, in every reachable state.
THEOREM Invariance == Spec => []IInv
BY InitIInv, StepIInv, PTL DEF Spec

\* Every variable keeps its type, and a thread inside its critical section
\* holds the lock of its user.
THEOREM TypeCorrect == Spec => []TypeOK
<1>1. IInv => TypeOK
  BY DEF IInv, Requests, Fine, Database, Disk, Bounds, TypeOK
<1> QED BY <1>1, Invariance, PTL

\* The restore of a tombstone adds files and takes none.
LEMMA SettleTombAdds ==
    ASSUME IInv, NEW p \in Procs, SettleTomb(p) \/ Write(p), NEW u \in Users
    PROVE  dir[u] \subseteq dir'[u]
BY DEF IInv, Disk, SettleTomb, Write, disk

\* A living account of the mounted database keeps its files and reservations.
THEOREM LivingAccountsKeepFiles == Spec => LivingKeepFiles
<1> DEFINE A == \A u \in Users :
         mounted' = mounted /\ u \in rows[mounted] \cap rows'[mounted]
           => /\ mounted \in dir[u] => mounted \in dir'[u]
              /\ u \in reserved => u \in reserved'
<1>1. ASSUME IInv, [Next]_vars PROVE A
  <2> SUFFICES ASSUME NEW u \in Users, mounted' = mounted, u \in rows[mounted], u \in rows'[mounted]
               PROVE  /\ mounted \in dir[u] => mounted \in dir'[u]
                      /\ u \in reserved => u \in reserved'
    OBVIOUS
  <2>0. CASE UNCHANGED vars
    BY <2>0 DEF vars, disk
  <2>1. ASSUME Next, mounted \in dir[u] PROVE mounted \in dir'[u]
    <3>1. ASSUME NEW p \in Procs, Move(p) \/ MoveAway(p) PROVE mounted \in dir'[u]
      <4>1. CASE req[p].user = u
        <5>1. CASE Move(p)
          BY <1>1, <2>1, <4>1, <5>1 DEF IInv, Gone, GoneOf, Move
        <5>2. CASE MoveAway(p)
          BY <1>1, <4>1, <5>2 DEF IInv, Gone, GoneOf, MoveAway, At
        <5> QED BY <3>1, <5>1, <5>2
      <4>2. CASE req[p].user # u
        BY <1>1, <2>1, <3>1, <4>2 DEF Move, MoveAway, MoveToTomb, disk, IInv, Disk
      <4> QED BY <4>1, <4>2
    <3>2. ASSUME NEW p \in Procs, SettleTomb(p) \/ Write(p) PROVE mounted \in dir'[u]
      BY <1>1, <2>1, <3>2, SettleTombAdds
    <3> QED BY <1>1, <2>1, <3>1, <3>2, DirSteps
  <2>2. ASSUME Next, u \in reserved PROVE u \in reserved'
    <3>1. ASSUME NEW p \in Procs, SettleReservation(p) PROVE u \in reserved'
      BY <2>2, <3>1 DEF SettleReservation, Exists
    <3>2. ASSUME NEW p \in Procs, Unreserve(p) PROVE u \in reserved'
      <4>1. req[p].user # u
        BY <1>1, <3>2 DEF IInv, Gone, GoneOf, Unreserve, At
      <4> QED BY <2>2, <3>2, <4>1 DEF Unreserve
    <3>3. ASSUME NEW p \in Procs, Write(p) PROVE u \in reserved'
      BY <2>2, <3>3 DEF Write
    <3> QED BY <1>1, <2>2, <3>1, <3>2, <3>3, ReservedSteps
  <2> QED BY <1>1, <2>0, <2>1, <2>2
<1>2. IInv /\ [Next]_vars => [A]_vars
  BY <1>1
<1> QED BY <1>2, Invariance, PTL DEF Spec, LivingKeepFiles

\* The files of a database that has claimed the directory survive recoveries
\* under another one.
THEOREM ClaimedFilesAreKept == Spec => ClaimedFilesKept
<1> DEFINE A == \A u \in Users, d \in Dbs :
         marker = d /\ u \in rows[d] /\ d \in dir[u] /\ u \notin used[mounted]
           => d \in dir'[u]
<1>1. ASSUME IInv, [Next]_vars PROVE A
  <2> SUFFICES ASSUME NEW u \in Users, NEW d \in Dbs, marker = d, u \in rows[d], d \in dir[u],
                      u \notin used[mounted]
               PROVE  d \in dir'[u]
    OBVIOUS
  <2>0. CASE UNCHANGED vars
    BY <2>0 DEF vars, disk
  <2>1. ASSUME NEW p \in Procs, Move(p) \/ MoveAway(p) PROVE d \in dir'[u]
    <3>1. req[p].user # u
      <4>1. CASE Move(p)
        <5>1. marker = mounted
          BY <1>1, <4>1 DEF IInv, Requests, Fine, Gone, GoneOf, Move, At, Critical
        <5> QED BY <1>1, <5>1 DEF IInv, Database
      <4>2. CASE MoveAway(p)
        BY <1>1, <4>2 DEF IInv, Gone, GoneOf, MoveAway, At
      <4> QED BY <2>1, <4>1, <4>2
    <3> QED BY <1>1, <2>1, <3>1 DEF Move, MoveAway, MoveToTomb, disk, IInv, Disk
  <2>2. ASSUME NEW p \in Procs, SettleTomb(p) \/ Write(p) PROVE d \in dir'[u]
    BY <1>1, <2>2, SettleTombAdds
  <2> QED BY <1>1, <2>0, <2>1, <2>2, DirSteps
<1>2. IInv /\ [Next]_vars => [A]_vars
  BY <1>1
<1> QED BY <1>2, Invariance, PTL DEF Spec, ClaimedFilesKept

-----------------------------------------------------------------------------
(* A recovery that leaves nothing out.                                     *)

\* The three loops of a recovery, and its end without a skip.
InTombs(r) == r.pc = "tombs" \/ (r.pc \in {"tomb", "purge"} /\ r.back = "tombs")
InOrphans(r) == r.pc = "orphans" \/ (r.pc \in {"orphan", "move", "purge"} /\ r.back = "orphans")
InReservations(r) == r.pc \in {"reservations", "reservation"}
Complete(r) == r.pc = "recovered" /\ ~r.skipped

\* What a recovery still knows of the leftovers of u: a tombstone is listed or
\* in hand until the first loop is over, then only the one it has just made of
\* the directory is there; the directory until the second loop is over; and the
\* reservation until the third is.
LeftOver(r, u) ==
    /\ InTombs(r) => \A t \in Tombs : tomb[t].user = u =>
         [name |-> t, user |-> u] \in r.todo \/ (r.pc \in {"tomb", "purge"} /\ r.tomb = t)
    /\ r.pc = "match" \/ InOrphans(r) \/ InReservations(r) \/ Complete(r) =>
         \A t \in Tombs : tomb[t].user = u => r.pc = "purge" /\ r.tomb = t
    /\ InOrphans(r) /\ dir[u] # {} =>
         [name |-> None, user |-> u] \in r.todo \/ (r.pc \in {"orphan", "move"} /\ r.user = u)
    /\ InReservations(r) \/ Complete(r) => dir[u] = {}
    /\ InReservations(r) /\ u \in reserved =>
         [name |-> None, user |-> u] \in r.todo \/ (r.pc = "reservation" /\ r.user = u)
    /\ Complete(r) => u \notin reserved

\* The accounts in a scope are gone, and no other thread works on them.
ScopeOf(p) ==
    \A u \in scope[p] : /\ lock[u] \in {None, p}
                        /\ u \in used[mounted] \ rows[mounted]
                        /\ ~req[p].pending => LeftOver(req[p], u)

\* Where an item of a loop leads back to.
WayBack(r) ==
    /\ r.pc = "reservation" => r.back = "reservations"
    /\ r.pc = "purge" => r.back \in {"tombs", "orphans"}

ScopeInv ==
    /\ ~usersDir => \A u \in Users : dir[u] = {}
    /\ \A p \in Procs : WayBack(req[p]) /\ ScopeOf(p)

\* What else Continue, PutOff and the other ways on leave in the request.
LEMMA Passed ==
    ASSUME Requests, NEW p \in Procs
    PROVE  /\ Continue(p) => req'[p].pending = req[p].pending
           /\ PutOff(p) => req'[p].pending
           /\ \A pc : Goto(p, pc) => req'[p] = [req[p] EXCEPT !.pc = pc]
           /\ \A b : End(p, b) => req'[p] = [req[p] EXCEPT !.pc = "recovered", !.skipped = b]
<1> DEFINE r == [req[p] EXCEPT !.pc = req[p].back, !.user = None, !.tomb = None]
           s == [req[p] EXCEPT !.pc = req[p].back, !.user = None, !.tomb = None, !.pending = TRUE]
<1>1. r.pending = req[p].pending /\ s.pending
  BY DEF Requests, Request
<1>2. Continue(p) => req' = [req EXCEPT ![p] = r]
  BY DEF Continue, Release
<1>3. PutOff(p) => req' = [req EXCEPT ![p] = s]
  BY DEF PutOff, Release
<1> HIDE DEF r, s
<1>4. (Continue(p) => req'[p] = r) /\ (PutOff(p) => req'[p] = s)
  BY <1>2, <1>3 DEF Requests
<1>5. \A pc : Goto(p, pc) => req'[p] = [req[p] EXCEPT !.pc = pc]
  BY DEF Goto, Requests
<1>6. \A b : End(p, b) => req'[p] = [req[p] EXCEPT !.pc = "recovered", !.skipped = b]
  BY DEF End, Requests
<1> QED BY <1>1, <1>4, <1>5, <1>6

\* Taking an item keeps what has been put off.
LEMMA TakenPending ==
    ASSUME Requests, NEW p \in Procs, NEW loop, NEW pc, TakeItem(p, loop, pc)
    PROVE  req'[p].pending = req[p].pending
<1>1. PICK item \in req[p].todo :
        Acquire(p, item.user, [req[p] EXCEPT !.pc = pc, !.back = loop, !.tomb = item.name,
                                             !.user = item.user, !.todo = @ \ {item}])
  BY DEF TakeItem
<1> DEFINE r == [req[p] EXCEPT !.pc = pc, !.back = loop, !.tomb = item.name,
                               !.user = item.user, !.todo = @ \ {item}]
<1>2. r.pending = req[p].pending
  BY DEF Requests, Request
<1>3. req' = [req EXCEPT ![p] = r]
  BY <1>1 DEF Acquire
<1> HIDE DEF r
<1> QED BY <1>2, <1>3 DEF Requests

\* The locks and the scopes: a thread takes a lock and with it the account out
\* of the scope of the others, gives back the lock it has, or leaves both alone.
LEMMA LockSteps ==
    ASSUME IInv, NEW p \in Procs, Acts(p)
    PROVE  \/ lock' = lock /\ scope' = scope
           \/ lock' = lock /\ StartRecovery(p)
           \/ req[p].pc \in Critical /\ scope' = scope /\ \E r : Release(p, r)
           \/ \E u \in Users : \E r : Acquire(p, u, r)
<1> USE DEF IInv
<1>0. Fine(req[p]) /\ req[p] \in Request
  BY DEF Requests
<1>1. ASSUME NEW loop, NEW pc, TakeItem(p, loop, pc) PROVE \E u \in Users : \E r : Acquire(p, u, r)
  BY <1>0, <1>1 DEF TakeItem, Request, Item
<1>2. CASE SettleTomb(p) \/ Purge(p) \/ Orphan(p) \/ Move(p) \/ SettleReservation(p)
  BY <1>2 DEF SettleTomb, Purge, Orphan, Move, MoveToTomb, SettleReservation, Continue, PutOff, At, Critical
<1>3. CASE TombsDone(p) \/ Match(p) \/ OrphansDone(p) \/ ReservationsDone(p) \/ Recovered(p)
  BY <1>3 DEF TombsDone, Match, OrphansDone, ReservationsDone, Recovered
<1>4. CASE Boot(p) \/ BootEmpty(p) \/ StartDelete(p) \/ \E u \in Users : StartUpload(p, u)
  BY <1>4 DEF Boot, BootEmpty, StartDelete, StartUpload
<1>5. CASE DeleteRow(p) \/ MoveAway(p) \/ Unreserve(p) \/ RemoveEntry(p) \/ Write(p)
  BY <1>5 DEF DeleteRow, MoveAway, MoveToTomb, Unreserve, RemoveEntry, Write, At, Critical
<1>6. CASE TakeTarget(p) \/ TakeUpload(p)
  BY <1>0, <1>6 DEF TakeTarget, TakeUpload, Fine, At
<1>7. CASE Fail(p)
  BY <1>7 DEF Fail, PutOff
<1>8. CASE StartRecovery(p)
  BY <1>8 DEF StartRecovery
<1> QED BY <1>1, <1>2, <1>3, <1>4, <1>5, <1>6, <1>7, <1>8 DEF Acts, Step, Recover, TakeTomb, TakeOrphan,
           TakeReservation

\* Hence nobody else comes to hold the lock of an account in a scope.
LEMMA ScopesLocked ==
    ASSUME IInv, ScopeInv, NEW p \in Procs, Acts(p), NEW q \in Procs, NEW u \in scope'[q]
    PROVE  /\ u \in Users /\ lock'[u] \in {None, q}
           /\ u \in scope[q] \/ (q = p /\ StartRecovery(p))
<1> USE DEF IInv
<1>0. scope \in [Procs -> SUBSET Users] /\ lock \in [Users -> Procs \cup {None}]
  BY DEF Bounds, Requests
<1>1. ASSUME u \in scope[q] PROVE u \in Users /\ lock[u] \in {None, q}
  BY <1>0, <1>1 DEF ScopeInv, ScopeOf
<1>2. CASE lock' = lock /\ scope' = scope
  BY <1>1, <1>2
<1>3. CASE lock' = lock /\ StartRecovery(p)
  <2>1. used[mounted] \subseteq Users
    BY DEF Database
  <2>2. scope' = [scope EXCEPT ![p] = {v \in used[mounted] : ~Exists(v) /\ lock[v] = None}]
    BY <1>3 DEF StartRecovery
  <2>3. CASE q = p
    <3>1. u \in used[mounted] /\ lock[u] = None
      BY <1>0, <2>2, <2>3
    <3> QED BY <1>3, <2>1, <2>3, <3>1
  <2>4. CASE q # p
    <3>1. u \in scope[q]
      BY <1>0, <2>2, <2>4
    <3> QED BY <1>1, <1>3, <3>1
  <2> QED BY <2>3, <2>4
<1>4. CASE scope' = scope /\ \E r : Release(p, r)
  BY <1>0, <1>1, <1>4 DEF Release
<1>5. CASE \E v \in Users : \E r : Acquire(p, v, r)
  <2>1. PICK v \in Users : /\ lock' = [lock EXCEPT ![v] = p]
                           /\ scope' = [x \in Procs |-> IF x = p THEN scope[x] ELSE scope[x] \ {v}]
    BY <1>5 DEF Acquire
  <2>2. u \in scope[q] /\ (q = p \/ u # v)
    BY <2>1
  <2> QED BY <1>0, <1>1, <2>1, <2>2
<1> QED BY <1>2, <1>3, <1>4, <1>5, LockSteps

\* An account in a scope stays gone: ids are never given out again.
LEMMA ScopesGone ==
    ASSUME IInv, Next, mounted' = mounted, NEW u \in used[mounted] \ rows[mounted]
    PROVE  u \in used'[mounted'] \ rows'[mounted']
BY DatabaseSteps DEF IInv, database, NewAccount, DeleteRow, Restart, Database

\* Nothing of u is left over that was not before.
Shrinks(u) ==
    /\ \A t \in Tombs : tomb'[t].user = u => tomb[t].user = u
    /\ dir'[u] # {} => dir[u] # {}
    /\ u \in reserved' => u \in reserved

\* Only the thread that holds the lock of u leaves anything of u anew.
LEMMA Untouched ==
    ASSUME IInv, NEW p \in Procs, Acts(p), NEW u \in Users, lock[u] # p
    PROVE  Shrinks(u)
<1> USE DEF IInv
<1>0. /\ Fine(req[p]) /\ req[p] \in Request
      /\ req[p].pc \in Critical => req[p].user # u /\ req[p].user \in Users
  BY DEF Requests, Fine
<1>n. NoTomb.user # u
  BY NoneFacts DEF NoTomb
<1>1. ASSUME UNCHANGED disk PROVE Shrinks(u)
  BY <1>1 DEF Shrinks, disk
<1>2. ASSUME NEW t, RemoveTomb(t), UNCHANGED <<reserved, dir>> PROVE Shrinks(u)
  BY <1>2, <1>n DEF Shrinks, RemoveTomb, Disk
<1>3. ASSUME NEW next, MoveToTomb(p, next), req[p].pc \in Critical PROVE Shrinks(u)
  <2>1. PICK t \in Tombs : /\ tomb' = [tomb EXCEPT ![t] = [user |-> req[p].user, by |-> dir[req[p].user]]]
                           /\ dir' = [dir EXCEPT ![req[p].user] = {}]
                           /\ reserved' = reserved
    BY <1>3 DEF MoveToTomb
  <2> QED BY <1>0, <1>3, <2>1 DEF Shrinks, Disk
<1>4. CASE SettleTomb(p)
  <2>0. req[p].pc \in Critical
    BY <1>4 DEF SettleTomb, At, Critical
  <2>1. ASSUME RemoveTomb(req[p].tomb), reserved' = reserved, dir' = [dir EXCEPT ![req[p].user] = tomb[req[p].tomb].by]
        PROVE  Shrinks(u)
    BY <1>0, <1>n, <2>0, <2>1 DEF Shrinks, RemoveTomb, Disk
  <2> QED BY <1>1, <1>4, <2>1 DEF SettleTomb
<1>5. CASE Purge(p) \/ RemoveEntry(p)
  BY <1>2, <1>5 DEF Purge, RemoveEntry
<1>6. CASE Move(p) \/ MoveAway(p)
  BY <1>1, <1>3, <1>6 DEF Move, MoveAway, At, Critical
<1>7. CASE SettleReservation(p) \/ Unreserve(p)
  BY <1>7 DEF SettleReservation, Unreserve, Shrinks, disk
<1>8. CASE Write(p)
  BY <1>0, <1>8 DEF Write, At, Critical, Shrinks, Disk
<1>9. CASE StartRecovery(p) \/ TakeTomb(p) \/ TombsDone(p) \/ TakeOrphan(p) \/ Orphan(p) \/ OrphansDone(p)
           \/ TakeReservation(p) \/ ReservationsDone(p) \/ Recovered(p)
  BY <1>1, <1>9 DEF StartRecovery, TakeTomb, TombsDone, TakeOrphan, Orphan, OrphansDone, TakeReservation,
     ReservationsDone, Recovered, TakeItem
<1>10. CASE Match(p)
  BY <1>10 DEF Match, Shrinks
<1>11. CASE Boot(p) \/ BootEmpty(p) \/ TakeTarget(p) \/ DeleteRow(p) \/ TakeUpload(p) \/ StartDelete(p)
            \/ Fail(p) \/ \E v \in Users : StartUpload(p, v)
  BY <1>1, <1>11 DEF Boot, BootEmpty, TakeTarget, DeleteRow, TakeUpload, StartDelete, Fail, StartUpload
<1> QED BY <1>4, <1>5, <1>6, <1>7, <1>8, <1>9, <1>10, <1>11 DEF Acts, Step, Recover

\* What a recovery knows stays true while it does not move and nothing of u is
\* left over anew.
LEMMA LeftOverStays ==
    ASSUME NEW q \in Procs, NEW u, LeftOver(req[q], u), req'[q] = req[q], Shrinks(u)
    PROVE  LeftOver(req[q], u)'
BY DEF LeftOver, Shrinks, InTombs, InOrphans, InReservations, Complete

\* Outside a recovery, and after one that skipped, there is nothing to know.
LEMMA NothingToKnow ==
    ASSUME NEW q \in Procs, NEW u,
           \/ req'[q].pc \notin {"tombs", "tomb", "purge", "match", "orphans", "orphan", "move",
                                 "reservations", "reservation", "recovered"}
           \/ req'[q].pc = "recovered" /\ req'[q].skipped
    PROVE  LeftOver(req[q], u)'
BY DEF LeftOver, InTombs, InOrphans, InReservations, Complete

\* What a recovery learns by taking an item.
LEMMA TakenLearnt ==
    ASSUME IInv, NEW p \in Procs, NEW u, LeftOver(req[p], u),
           TakeTomb(p) \/ TakeOrphan(p) \/ TakeReservation(p)
    PROVE  LeftOver(req[p], u)'
<1> USE DEF IInv
<1>0. UNCHANGED <<tomb, dir, reserved>>
  BY DEF TakeTomb, TakeOrphan, TakeReservation, TakeItem, disk
<1>1. CASE TakeTomb(p)
  <2>1. req[p].pc = "tombs" /\ req'[p].pc = "tomb" /\ req'[p].back = "tombs"
    BY <1>1, Taken DEF TakeTomb
  <2>2. PICK item \in req[p].todo : req'[p].todo = req[p].todo \ {item} /\ req'[p].tomb = item.name
    BY <1>1, Taken DEF TakeTomb
  <2>3. \A t \in Tombs : tomb[t].user = u => [name |-> t, user |-> u] \in req[p].todo
    BY <2>1 DEF LeftOver, InTombs
  <2>4. \A t \in Tombs : tomb[t].user = u => [name |-> t, user |-> u] \in req'[p].todo \/ req'[p].tomb = t
    BY <2>2, <2>3
  <2> QED BY <1>0, <2>1, <2>4 DEF LeftOver, InTombs, InOrphans, InReservations, Complete
<1>2. CASE TakeOrphan(p)
  <2>1. req[p].pc = "orphans" /\ req'[p].pc = "orphan" /\ req'[p].back = "orphans"
    BY <1>2, Taken DEF TakeOrphan
  <2>2. PICK item \in req[p].todo : req'[p].todo = req[p].todo \ {item} /\ req'[p].user = item.user
    BY <1>2, Taken DEF TakeOrphan
  <2>3. dir[u] # {} => [name |-> None, user |-> u] \in req[p].todo
    BY <2>1 DEF LeftOver, InOrphans
  <2>4. dir[u] # {} => [name |-> None, user |-> u] \in req'[p].todo \/ req'[p].user = u
    BY <2>2, <2>3
  <2>5. \A t \in Tombs : tomb[t].user # u
    BY <2>1 DEF LeftOver, InOrphans
  <2> QED BY <1>0, <2>1, <2>4, <2>5 DEF LeftOver, InTombs, InOrphans, InReservations, Complete
<1>3. CASE TakeReservation(p)
  <2>1. req[p].pc = "reservations" /\ req'[p].pc = "reservation"
    BY <1>3, Taken DEF TakeReservation
  <2>2. PICK item \in req[p].todo : req'[p].todo = req[p].todo \ {item} /\ req'[p].user = item.user
    BY <1>3, Taken DEF TakeReservation
  <2>3. u \in reserved => [name |-> None, user |-> u] \in req[p].todo
    BY <2>1 DEF LeftOver, InReservations
  <2>4. u \in reserved => [name |-> None, user |-> u] \in req'[p].todo \/ req'[p].user = u
    BY <2>2, <2>3
  <2>5. dir[u] = {} /\ \A t \in Tombs : tomb[t].user # u
    BY <2>1 DEF LeftOver, InReservations
  <2> QED BY <1>0, <2>1, <2>4, <2>5 DEF LeftOver, InTombs, InOrphans, InReservations, Complete
<1> QED BY <1>1, <1>2, <1>3

\* What it learns by beginning, and by ending a loop.
LEMMA SurveyLearnt ==
    ASSUME IInv, ScopeInv, NEW p \in Procs, NEW u \in Users,
           StartRecovery(p) \/ LeftOver(req[p], u),
           StartRecovery(p) \/ TombsDone(p) \/ Match(p) \/ OrphansDone(p) \/ ReservationsDone(p)
    PROVE  LeftOver(req[p], u)'
<1> USE DEF IInv
<1>0. req[p] \in Request
  BY DEF Requests, Fine
<1>1. ASSUME NEW pc, Goto(p, pc) PROVE req'[p].pc = pc
  <2>1. req'[p] = [req[p] EXCEPT !.pc = pc]
    BY <1>1, Passed
  <2> QED BY <1>0, <2>1 DEF Request
<1>2. ASSUME NEW pc, NEW S, Scan(p, pc, S) PROVE req'[p].pc = pc /\ req'[p].todo = S
  <2>1. req'[p] = [req[p] EXCEPT !.pc = pc, !.todo = S]
    BY <1>2 DEF Scan, Requests
  <2> QED BY <1>0, <2>1 DEF Request
<1>3. ASSUME NEW b, End(p, b) PROVE req'[p].pc = "recovered" /\ req'[p].skipped = b
  <2>1. req'[p] = [req[p] EXCEPT !.pc = "recovered", !.skipped = b]
    BY <1>3, Passed
  <2> QED BY <1>0, <2>1 DEF Request
<1>4. \A S : u \in S => [name |-> None, user |-> u] \in Items(S)
  BY DEF Items
<1>5. CASE StartRecovery(p)
  <2>1. CASE rows[mounted] = {}
    BY <1>3, <1>5, <2>1, NothingToKnow DEF StartRecovery
  <2>2. CASE rows[mounted] # {}
    <3>1. req'[p].pc = "tombs" /\ req'[p].todo = Trash /\ tomb' = tomb
      BY <1>2, <1>5, <2>2 DEF StartRecovery, disk
    <3>2. ASSUME NEW t \in Tombs, tomb[t].user = u PROVE [name |-> t, user |-> u] \in Trash
      BY <3>2, NoneFacts DEF Trash, NoTomb
    <3> QED BY <3>1, <3>2 DEF LeftOver, InTombs, InOrphans, InReservations, Complete
  <2> QED BY <2>1, <2>2
<1>6. CASE TombsDone(p)
  <2>0. req[p].pc = "tombs" /\ req[p].todo = {} /\ UNCHANGED <<tomb, dir, reserved>>
    BY <1>6 DEF TombsDone, At, disk
  <2>1. \A t \in Tombs : tomb[t].user # u
    BY <1>6, <2>0 DEF LeftOver, InTombs, StartRecovery, At
  <2>2. CASE usersDir
    <3>1. req'[p].pc = "match"
      BY <1>1, <1>6, <2>2 DEF TombsDone
    <3> QED BY <2>0, <2>1, <3>1 DEF LeftOver, InTombs, InOrphans, InReservations, Complete
  <2>3. CASE ~usersDir
    <3>1. req'[p].pc = "reservations" /\ req'[p].todo = Items(reserved)
      BY <1>2, <1>6, <2>3 DEF TombsDone
    <3>2. dir[u] = {}
      BY <2>3 DEF ScopeInv
    <3> QED BY <1>4, <2>0, <2>1, <3>1, <3>2 DEF LeftOver, InTombs, InOrphans, InReservations, Complete
  <2> QED BY <2>2, <2>3
<1>7. CASE Match(p)
  <2>0. req[p].pc = "match" /\ UNCHANGED <<tomb, dir, reserved>>
    BY <1>7 DEF Match, At
  <2>1. \A t \in Tombs : tomb[t].user # u
    BY <1>7, <2>0 DEF LeftOver, StartRecovery, At
  <2>2. CASE End(p, TRUE)
    BY <1>3, <2>2, NothingToKnow
  <2>3. CASE Scan(p, "orphans", Items({v \in Users : dir[v] # {}}))
    <3>1. req'[p].pc = "orphans" /\ req'[p].todo = Items({v \in Users : dir[v] # {}})
      BY <1>2, <2>3
    <3>2. dir[u] # {} => [name |-> None, user |-> u] \in req'[p].todo
      BY <1>4, <3>1
    <3> QED BY <2>0, <2>1, <3>1, <3>2 DEF LeftOver, InTombs, InOrphans, InReservations, Complete
  <2> QED BY <1>7, <2>2, <2>3 DEF Match
<1>8. CASE OrphansDone(p)
  <2>0. req[p].pc = "orphans" /\ req[p].todo = {} /\ UNCHANGED <<tomb, dir, reserved>>
    BY <1>8 DEF OrphansDone, At, disk
  <2>1. dir[u] = {} /\ \A t \in Tombs : tomb[t].user # u
    BY <1>8, <2>0 DEF LeftOver, InOrphans, StartRecovery, At
  <2>2. req'[p].pc = "reservations" /\ req'[p].todo = Items(reserved)
    BY <1>2, <1>8 DEF OrphansDone
  <2> QED BY <1>4, <2>0, <2>1, <2>2 DEF LeftOver, InTombs, InOrphans, InReservations, Complete
<1>9. CASE ReservationsDone(p)
  <2>0. req[p].pc = "reservations" /\ req[p].todo = {} /\ UNCHANGED <<tomb, dir, reserved>>
    BY <1>9 DEF ReservationsDone, At, disk
  <2>1. dir[u] = {} /\ u \notin reserved /\ \A t \in Tombs : tomb[t].user # u
    BY <1>9, <2>0 DEF LeftOver, InReservations, StartRecovery, At
  <2>2. req'[p].pc = "recovered"
    BY <1>3, <1>9 DEF ReservationsDone
  <2> QED BY <2>0, <2>1, <2>2 DEF LeftOver, InTombs, InOrphans, InReservations, Complete
<1> QED BY <1>5, <1>6, <1>7, <1>8, <1>9

\* What it learns by working on an item whose account is gone or is another.
LEMMA WorkLearnt ==
    ASSUME IInv, NEW p \in Procs, NEW u \in Users, LeftOver(req[p], u), WayBack(req[p]),
           u \notin rows[mounted], ~req'[p].pending,
           SettleTomb(p) \/ Purge(p) \/ Orphan(p) \/ Move(p) \/ SettleReservation(p)
    PROVE  LeftOver(req[p], u)'
<1> USE DEF IInv
<1>0. req[p] \in Request /\ Fine(req[p])
  BY DEF Requests
<1>1. ASSUME NEW pc, Goto(p, pc)
      PROVE  /\ req'[p].pc = pc /\ req'[p].back = req[p].back /\ req'[p].todo = req[p].todo
             /\ req'[p].tomb = req[p].tomb /\ req'[p].user = req[p].user
  <2>1. req'[p] = [req[p] EXCEPT !.pc = pc]
    BY <1>1, Passed
  <2> QED BY <1>0, <2>1 DEF Request
<1>2. Continue(p) => req'[p].pc = req[p].back /\ req'[p].todo = req[p].todo
  BY Continued
<1>3. ~PutOff(p)
  BY Passed
<1>4. NoTomb.user # u
  BY NoneFacts DEF NoTomb
<1>5. ASSUME NEW t \in Tombs, NEW f, RemoveTomb(f), tomb'[t].user = u PROVE t # f /\ tomb[t].user = u
  BY <1>4, <1>5 DEF RemoveTomb, Disk
<1>6. CASE SettleTomb(p)
  <2>0. req[p].pc = "tomb" /\ req[p].back = "tombs"
    BY <1>0, <1>6 DEF SettleTomb, At, Fine
  <2>1. \A t \in Tombs : tomb[t].user = u => [name |-> t, user |-> u] \in req[p].todo \/ req[p].tomb = t
    BY <2>0 DEF LeftOver, InTombs
  <2>2. CASE RemoveTomb(req[p].tomb) /\ Continue(p)
    <3>1. req'[p].pc = "tombs" /\ req'[p].todo = req[p].todo
      BY <1>2, <2>0, <2>2
    <3>2. \A t \in Tombs : tomb'[t].user = u => [name |-> t, user |-> u] \in req'[p].todo
      BY <1>5, <2>1, <2>2, <3>1
    <3> QED BY <3>1, <3>2 DEF LeftOver, InTombs, InOrphans, InReservations, Complete
  <2>3. CASE Goto(p, "purge") /\ UNCHANGED disk
    <3>1. /\ req'[p].pc = "purge" /\ req'[p].back = "tombs" /\ req'[p].todo = req[p].todo
          /\ req'[p].tomb = req[p].tomb /\ tomb' = tomb
      BY <1>1, <2>0, <2>3 DEF disk
    <3> QED BY <2>1, <3>1 DEF LeftOver, InTombs, InOrphans, InReservations, Complete
  <2> QED BY <1>3, <1>6, <2>2, <2>3 DEF SettleTomb
<1>7. CASE Purge(p)
  <2>0. /\ req[p].pc = "purge" /\ RemoveTomb(req[p].tomb) /\ UNCHANGED <<dir, reserved>>
        /\ req'[p].pc = req[p].back /\ req'[p].todo = req[p].todo
    BY <1>2, <1>7 DEF Purge, At
  <2>1. CASE req[p].back = "tombs"
    <3>1. \A t \in Tombs : tomb[t].user = u => [name |-> t, user |-> u] \in req[p].todo \/ req[p].tomb = t
      BY <2>0, <2>1 DEF LeftOver, InTombs
    <3>2. \A t \in Tombs : tomb'[t].user = u => [name |-> t, user |-> u] \in req'[p].todo
      BY <1>5, <2>0, <3>1
    <3> QED BY <2>0, <2>1, <3>2 DEF LeftOver, InTombs, InOrphans, InReservations, Complete
  <2>2. CASE req[p].back = "orphans"
    <3>1. /\ \A t \in Tombs : tomb[t].user = u => req[p].tomb = t
          /\ dir[u] # {} => [name |-> None, user |-> u] \in req[p].todo
      BY <2>0, <2>2 DEF LeftOver, InOrphans
    <3>2. \A t \in Tombs : tomb'[t].user # u
      BY <1>5, <2>0, <3>1
    <3> QED BY <2>0, <2>2, <3>1, <3>2 DEF LeftOver, InTombs, InOrphans, InReservations, Complete
  <2> QED BY <2>0, <2>1, <2>2 DEF WayBack
<1>8. CASE Orphan(p)
  <2>0. req[p].pc = "orphan" /\ req[p].back = "orphans" /\ UNCHANGED <<tomb, dir, reserved>>
    BY <1>0, <1>8 DEF Orphan, At, Fine, disk
  <2>1. /\ \A t \in Tombs : tomb[t].user # u
        /\ dir[u] # {} => [name |-> None, user |-> u] \in req[p].todo \/ req[p].user = u
    BY <2>0 DEF LeftOver, InOrphans
  <2>2. CASE Continue(p) /\ req[p].user # u
    <3>1. req'[p].pc = "orphans" /\ req'[p].todo = req[p].todo
      BY <1>2, <2>0, <2>2
    <3> QED BY <2>0, <2>1, <2>2, <3>1 DEF LeftOver, InTombs, InOrphans, InReservations, Complete
  <2>3. CASE Goto(p, "move")
    <3>1. /\ req'[p].pc = "move" /\ req'[p].back = "orphans" /\ req'[p].todo = req[p].todo
          /\ req'[p].user = req[p].user
      BY <1>1, <2>0, <2>3
    <3> QED BY <2>0, <2>1, <3>1 DEF LeftOver, InTombs, InOrphans, InReservations, Complete
  <2> QED BY <1>8, <2>2, <2>3 DEF Orphan, Exists
<1>9. CASE Move(p)
  <2>0. req[p].pc = "move" /\ req[p].back = "orphans" /\ req[p].user \in Users
    BY <1>0, <1>9 DEF Move, At, Fine, Critical
  <2>1. /\ \A t \in Tombs : tomb[t].user # u
        /\ dir[u] # {} => [name |-> None, user |-> u] \in req[p].todo \/ req[p].user = u
    BY <2>0 DEF LeftOver, InOrphans
  <2>2. CASE dir[req[p].user] = {} /\ Continue(p) /\ UNCHANGED disk
    <3>1. req'[p].pc = "orphans" /\ req'[p].todo = req[p].todo /\ UNCHANGED <<tomb, dir, reserved>>
      BY <1>2, <2>0, <2>2 DEF disk
    <3> QED BY <2>1, <2>2, <3>1 DEF LeftOver, InTombs, InOrphans, InReservations, Complete
  <2>3. CASE MoveToTomb(p, "purge")
    <3>1. PICK t \in Tombs : /\ tomb' = [tomb EXCEPT ![t] = [user |-> req[p].user, by |-> dir[req[p].user]]]
                             /\ dir' = [dir EXCEPT ![req[p].user] = {}]
                             /\ req' = [req EXCEPT ![p].pc = "purge", ![p].tomb = t]
      BY <2>3 DEF MoveToTomb
    <3> DEFINE r == [req[p] EXCEPT !.pc = "purge", !.tomb = t]
    <3>2. r.pc = "purge" /\ r.tomb = t /\ r.back = "orphans" /\ r.todo = req[p].todo
      BY <1>0, <2>0 DEF Request
    <3>3. req' = [req EXCEPT ![p] = r]
      BY <3>1
    <3> HIDE DEF r
    <3>4. req'[p].pc = "purge" /\ req'[p].tomb = t /\ req'[p].back = "orphans" /\ req'[p].todo = req[p].todo
      BY <3>2, <3>3 DEF Requests
    <3>5. \A f \in Tombs : tomb'[f].user = u => f = t
      BY <2>1, <3>1 DEF Disk
    <3>6. dir'[u] # {} => req[p].user # u /\ dir[u] # {}
      BY <2>0, <3>1 DEF Disk
    <3> QED BY <2>1, <3>4, <3>5, <3>6 DEF LeftOver, InTombs, InOrphans, InReservations, Complete
  <2> QED BY <1>9, <2>2, <2>3 DEF Move
<1>10. CASE SettleReservation(p)
  <2>0. /\ req[p].pc = "reservation" /\ req[p].back = "reservations" /\ UNCHANGED <<tomb, dir>>
        /\ req'[p].pc = "reservations" /\ req'[p].todo = req[p].todo
    BY <1>2, <1>10 DEF SettleReservation, At, WayBack
  <2>1. /\ dir[u] = {} /\ \A t \in Tombs : tomb[t].user # u
        /\ u \in reserved => [name |-> None, user |-> u] \in req[p].todo \/ req[p].user = u
    BY <2>0 DEF LeftOver, InReservations
  <2>2. u \in reserved' => u \in reserved /\ req[p].user # u
    BY <1>10 DEF SettleReservation, Exists
  <2> QED BY <2>0, <2>1, <2>2 DEF LeftOver, InTombs, InOrphans, InReservations, Complete
<1> QED BY <1>6, <1>7, <1>8, <1>9, <1>10

\* The ways back, and what has been put off, after a step of the thread.
LEMMA OnTheWay ==
    ASSUME IInv, NEW p \in Procs, Acts(p), WayBack(req[p])
    PROVE  WayBack(req'[p])
<1> USE DEF IInv
<1>0. Fine(req[p]) /\ req[p] \in Request
  BY DEF Requests
<1>1. ASSUME req'[p].pc \notin {"reservation", "purge"} PROVE WayBack(req'[p])
  BY <1>1 DEF WayBack
<1>2. ASSUME NEW pc, Goto(p, pc) PROVE req'[p].pc = pc /\ req'[p].back = req[p].back
  <2>1. req'[p] = [req[p] EXCEPT !.pc = pc]
    BY <1>2, Passed
  <2> QED BY <1>0, <2>1 DEF Request
<1>3. ASSUME Continue(p) \/ PutOff(p) PROVE WayBack(req'[p])
  <2>1. req'[p].pc \in {"none", "tombs", "orphans", "reservations"}
    BY <1>0, <1>3, Continued DEF Request
  <2> QED BY <1>1, <2>1
<1>4. ASSUME Release(p, Idle) PROVE WayBack(req'[p])
  BY <1>1, <1>4 DEF Release, Idle, Requests
<1>5. ASSUME NEW next, MoveToTomb(p, next) PROVE req'[p].pc = next /\ req'[p].back = req[p].back
  BY <1>0, <1>5 DEF MoveToTomb, Requests, Request
<1>6. ASSUME NEW pc \in {"tombs", "orphans", "reservations"}, NEW S, Scan(p, pc, S) PROVE WayBack(req'[p])
  <2>1. req'[p] = [req[p] EXCEPT !.pc = pc, !.todo = S]
    BY <1>6 DEF Scan, Requests
  <2>2. req'[p].pc = pc
    BY <1>0, <2>1 DEF Request
  <2> QED BY <1>1, <2>2
<1>7. ASSUME NEW b, End(p, b) PROVE WayBack(req'[p])
  <2>1. req'[p] = [req[p] EXCEPT !.pc = "recovered", !.skipped = b]
    BY <1>7, Passed
  <2>2. req'[p].pc = "recovered"
    BY <1>0, <2>1 DEF Request
  <2> QED BY <1>1, <2>2
<1>8. CASE StartRecovery(p) \/ Match(p) \/ OrphansDone(p) \/ ReservationsDone(p)
  BY <1>6, <1>7, <1>8 DEF StartRecovery, Match, OrphansDone, ReservationsDone
<1>9. CASE TombsDone(p)
  BY <1>1, <1>2, <1>6, <1>9 DEF TombsDone
<1>10. CASE TakeTomb(p) \/ TakeOrphan(p) \/ TakeReservation(p)
  <2>1. \/ req'[p].pc \in {"tomb", "orphan"}
        \/ req'[p].pc = "reservation" /\ req'[p].back = "reservations"
    BY <1>10, Taken DEF TakeTomb, TakeOrphan, TakeReservation
  <2> QED BY <2>1 DEF WayBack
<1>11. CASE SettleTomb(p)
  <2>1. req[p].back = "tombs"
    BY <1>0, <1>11 DEF SettleTomb, At, Fine
  <2>2. CASE Goto(p, "purge")
    BY <1>2, <2>1, <2>2 DEF WayBack
  <2> QED BY <1>3, <1>11, <2>2 DEF SettleTomb
<1>12. CASE Purge(p) \/ SettleReservation(p)
  BY <1>3, <1>12 DEF Purge, SettleReservation
<1>13. CASE Orphan(p)
  <2>1. CASE Goto(p, "move")
    BY <1>1, <1>2, <2>1
  <2> QED BY <1>3, <1>13, <2>1 DEF Orphan
<1>14. CASE Move(p)
  <2>1. req[p].back = "orphans"
    BY <1>0, <1>14 DEF Move, At, Fine
  <2>2. CASE MoveToTomb(p, "purge")
    BY <1>5, <2>1, <2>2 DEF WayBack
  <2> QED BY <1>3, <1>14, <2>2 DEF Move
<1>15. CASE Boot(p) \/ DeleteRow(p) \/ MoveAway(p) \/ Unreserve(p) \/ RemoveEntry(p) \/ Write(p)
  <2>1. \/ \E pc \in {"bootEmpty", "scan", "moveAway", "unreserve", "remove"} : Goto(p, pc)
        \/ MoveToTomb(p, "unreserve") \/ Release(p, Idle)
    BY <1>15 DEF Boot, DeleteRow, MoveAway, Unreserve, RemoveEntry, Write
  <2> QED BY <1>1, <1>2, <1>4, <1>5, <2>1
<1>16. CASE Fail(p)
  BY <1>3, <1>4, <1>16 DEF Fail
<1>17. CASE BootEmpty(p) \/ Recovered(p) \/ StartDelete(p)
  <2>1. \/ req'[p] = Idle
        \/ req'[p] = [Idle EXCEPT !.op = "delete", !.pc = "target"]
        \/ req'[p] = [Idle EXCEPT !.op = "delete", !.pc = "scan"]
    BY <1>17 DEF BootEmpty, Recovered, StartDelete, Requests
  <2>2. /\ Idle.pc = "idle" /\ [Idle EXCEPT !.op = "delete", !.pc = "target"].pc = "target"
        /\ [Idle EXCEPT !.op = "delete", !.pc = "scan"].pc = "scan"
    BY DEF Idle
  <2> QED BY <1>1, <2>1, <2>2
<1>18. CASE TakeTarget(p)
  <2>1. req'[p].pc = "deleteRow"
    BY <1>18 DEF TakeTarget, Acquire, Requests, Idle
  <2> QED BY <1>1, <2>1
<1>19. CASE TakeUpload(p)
  <2>1. req'[p].pc = "write"
    BY <1>0, <1>19 DEF TakeUpload, Acquire, Requests, Request
  <2> QED BY <1>1, <2>1
<1>20. CASE \E u \in Users : StartUpload(p, u)
  <2>1. req'[p].pc = "upload"
    BY <1>20 DEF StartUpload, Requests, Idle
  <2> QED BY <1>1, <2>1
<1> QED BY <1>8, <1>9, <1>10, <1>11, <1>12, <1>13, <1>14, <1>15, <1>16, <1>17, <1>18, <1>19, <1>20
        DEF Acts, Step, Recover

\* What a thread knows of an account in its scope after its own step.
LEMMA OwnStep ==
    ASSUME IInv, ScopeInv, NEW p \in Procs, Acts(p), NEW u \in Users, u \notin rows[mounted],
           ~req'[p].pending,
           StartRecovery(p) \/ (~req[p].pending => LeftOver(req[p], u))
    PROVE  LeftOver(req[p], u)'
<1> USE DEF IInv
<1>0. Fine(req[p]) /\ req[p] \in Request /\ WayBack(req[p])
  BY DEF Requests, ScopeInv
<1>1. ASSUME req'[p].pc \in {"idle", "bootEmpty", "scan", "target", "upload", "write", "deleteRow",
                             "moveAway", "unreserve", "remove"}
      PROVE  LeftOver(req[p], u)'
  BY <1>1, NothingToKnow
<1>2. ASSUME NEW pc, Goto(p, pc) PROVE req'[p].pc = pc /\ req'[p].pending = req[p].pending
  <2>1. req'[p] = [req[p] EXCEPT !.pc = pc]
    BY <1>2, Passed
  <2> QED BY <1>0, <2>1 DEF Request
<1>3. ASSUME NEW next, MoveToTomb(p, next)
      PROVE  req'[p].pc = next /\ req'[p].pending = req[p].pending
  BY <1>0, <1>3 DEF MoveToTomb, Requests, Request
<1>4. ASSUME Release(p, Idle) PROVE LeftOver(req[p], u)'
  <2>1. req'[p].pc = "idle"
    BY <1>4 DEF Release, Idle, Requests
  <2> QED BY <1>1, <2>1
<1>5. ASSUME NEW pc, NEW S, Scan(p, pc, S) PROVE req'[p].pending = req[p].pending
  <2>1. req'[p] = [req[p] EXCEPT !.pc = pc, !.todo = S]
    BY <1>5 DEF Scan, Requests
  <2> QED BY <1>0, <2>1 DEF Request
<1>6. ASSUME NEW b, End(p, b) PROVE req'[p].pending = req[p].pending
  <2>1. req'[p] = [req[p] EXCEPT !.pc = "recovered", !.skipped = b]
    BY <1>6, Passed
  <2> QED BY <1>0, <2>1 DEF Request
<1>7. CASE StartRecovery(p)
  BY <1>7, SurveyLearnt
<1>8. CASE ~StartRecovery(p) /\ (TombsDone(p) \/ Match(p) \/ OrphansDone(p) \/ ReservationsDone(p))
  <2>1. req'[p].pending = req[p].pending
    BY <1>2, <1>5, <1>6, <1>8 DEF TombsDone, Match, OrphansDone, ReservationsDone
  <2> QED BY <1>8, <2>1, SurveyLearnt
<1>9. CASE ~StartRecovery(p) /\ (TakeTomb(p) \/ TakeOrphan(p) \/ TakeReservation(p))
  <2>1. req'[p].pending = req[p].pending
    BY <1>9, TakenPending DEF TakeTomb, TakeOrphan, TakeReservation
  <2> QED BY <1>9, <2>1, TakenLearnt
<1>10. CASE ~StartRecovery(p)
            /\ (SettleTomb(p) \/ Purge(p) \/ Orphan(p) \/ Move(p) \/ SettleReservation(p))
  <2>1. \/ PutOff(p) \/ Continue(p) \/ MoveToTomb(p, "purge")
        \/ \E pc \in {"purge", "move"} : Goto(p, pc)
    BY <1>10 DEF SettleTomb, Purge, Orphan, Move, SettleReservation
  <2>2. req'[p].pending = req[p].pending
    BY <1>2, <1>3, <2>1, Passed
  <2> QED BY <1>0, <1>10, <2>2, WorkLearnt
<1>11. CASE Boot(p) \/ DeleteRow(p) \/ MoveAway(p) \/ Unreserve(p) \/ RemoveEntry(p) \/ Write(p)
  <2>1. \/ \E pc \in {"bootEmpty", "scan", "moveAway", "unreserve", "remove"} : Goto(p, pc)
        \/ MoveToTomb(p, "unreserve") \/ Release(p, Idle)
    BY <1>11 DEF Boot, DeleteRow, MoveAway, Unreserve, RemoveEntry, Write
  <2> QED BY <1>1, <1>2, <1>3, <1>4, <2>1
<1>12. CASE Fail(p)
  <2>1. PutOff(p) \/ Release(p, Idle)
    BY <1>12 DEF Fail
  <2> QED BY <1>4, <2>1, Passed
<1>13. CASE BootEmpty(p) \/ Recovered(p) \/ StartDelete(p)
  <2>1. \/ req'[p] = Idle
        \/ req'[p] = [Idle EXCEPT !.op = "delete", !.pc = "target"]
        \/ req'[p] = [Idle EXCEPT !.op = "delete", !.pc = "scan"]
    BY <1>13 DEF BootEmpty, Recovered, StartDelete, Requests
  <2>2. /\ Idle.pc = "idle" /\ [Idle EXCEPT !.op = "delete", !.pc = "target"].pc = "target"
        /\ [Idle EXCEPT !.op = "delete", !.pc = "scan"].pc = "scan"
    BY DEF Idle
  <2> QED BY <1>1, <2>1, <2>2
<1>14. CASE TakeTarget(p) \/ TakeUpload(p) \/ \E v \in Users : StartUpload(p, v)
  <2>1. CASE TakeTarget(p)
    <3>1. req'[p].pc = "deleteRow"
      BY <2>1 DEF TakeTarget, Acquire, Requests, Idle
    <3> QED BY <1>1, <3>1
  <2>2. CASE TakeUpload(p)
    <3>1. req'[p].pc = "write"
      BY <1>0, <2>2 DEF TakeUpload, Acquire, Requests, Request
    <3> QED BY <1>1, <3>1
  <2>3. CASE \E v \in Users : StartUpload(p, v)
    <3>1. req'[p].pc = "upload"
      BY <2>3 DEF StartUpload, Requests, Idle
    <3> QED BY <1>1, <3>1
  <2> QED BY <1>14, <2>1, <2>2, <2>3
<1> QED BY <1>7, <1>8, <1>9, <1>10, <1>11, <1>12, <1>13, <1>14 DEF Acts, Step, Recover

\* Every step keeps ScopeInv.
LEMMA StepScopes == IInv /\ ScopeInv /\ [Next]_vars => ScopeInv'
<1> SUFFICES ASSUME IInv, ScopeInv, [Next]_vars PROVE ScopeInv'
  OBVIOUS
<1> USE DEF IInv
<1>1. CASE UNCHANGED vars
  <2>1. UNCHANGED <<dir, usersDir, reserved, tomb, lock, req, scope, mounted, rows, used>>
    BY <1>1 DEF vars, database, disk
  <2> QED BY <2>1 DEF ScopeInv, ScopeOf, WayBack, LeftOver, InTombs, InOrphans, InReservations, Complete
<1>2. CASE Next
  <2>1. ASSUME ~usersDir', NEW u \in Users PROVE dir'[u] = {}
    <3>1. ASSUME NEW p \in Procs, Move(p) \/ MoveAway(p) PROVE dir' = dir \/ \E v : dir' = [dir EXCEPT ![v] = {}]
      BY <3>1 DEF Move, MoveAway, MoveToTomb, disk
    <3>2. ASSUME NEW p \in Procs, SettleTomb(p) \/ Write(p) PROVE dir' = dir
      BY <2>1, <3>2 DEF SettleTomb, Write, disk
    <3>3. ~usersDir => dir[u] = {}
      BY DEF ScopeInv
    <3>4. usersDir => usersDir'
      <4>1. ASSUME NEW p \in Procs, Acts(p) PROVE usersDir => usersDir'
        <5>1. CASE Recover(p)
          BY <5>1 DEF Recover, StartRecovery, TakeTomb, SettleTomb, Purge, TombsDone, Match, TakeOrphan, Orphan,
             Move, MoveToTomb, OrphansDone, TakeReservation, SettleReservation, ReservationsDone, Recovered,
             TakeItem, disk
        <5>2. CASE ~Recover(p)
          BY <4>1, <5>2 DEF Acts, Step, Boot, BootEmpty, TakeTarget, DeleteRow, MoveAway, MoveToTomb, Unreserve,
             RemoveEntry, TakeUpload, Write, StartDelete, StartUpload, Fail, disk
        <5> QED BY <5>1, <5>2
      <4>2. ASSUME NEW p \in Procs, NEW d \in Dbs, Restart(p, d) PROVE usersDir => usersDir'
        BY <4>2 DEF Restart, disk
      <4> QED BY <1>2, <4>1, <4>2, NextCases DEF disk
    <3>5. dir' = dir \/ \E v : dir' = [dir EXCEPT ![v] = {}]
      BY <1>2, <3>1, <3>2, DirSteps
    <3> QED BY <2>1, <3>3, <3>4, <3>5 DEF Disk
  <2>2. ASSUME NEW p \in Procs, Acts(p), NEW q \in Procs PROVE WayBack(req'[q]) /\ ScopeOf(q)'
    <3>0. mounted' = mounted
      BY <2>2, ActsStayMounted
    <3>1. WayBack(req'[q])
      BY <2>2, OnTheWay, OthersStay DEF ScopeInv
    <3>2. ASSUME NEW u \in scope'[q]
          PROVE  /\ lock'[u] \in {None, q}
                 /\ u \in used'[mounted'] \ rows'[mounted']
                 /\ ~req'[q].pending => LeftOver(req[q], u)'
      <4>1. u \in Users /\ lock'[u] \in {None, q} /\ (u \in scope[q] \/ (q = p /\ StartRecovery(p)))
        BY <2>2, <3>2, ScopesLocked
      <4>2. u \in scope[q] => lock[u] \in {None, q} /\ u \in used[mounted] \ rows[mounted]
                              /\ (~req[q].pending => LeftOver(req[q], u))
        BY DEF ScopeInv, ScopeOf
      <4>3. u \in used[mounted] \ rows[mounted]
        <5>1. CASE q = p /\ StartRecovery(p)
          BY <3>2, <5>1 DEF StartRecovery, Exists, Bounds
        <5> QED BY <4>1, <4>2, <5>1
      <4>4. u \in used'[mounted'] \ rows'[mounted']
        BY <1>2, <3>0, <4>3, ScopesGone
      <4>5. ASSUME q # p, ~req'[q].pending PROVE LeftOver(req[q], u)'
        <5>1. req'[q] = req[q]
          BY <2>2, <4>5, OthersStay
        <5>2. lock[u] # p
          BY <4>1, <4>2, <4>5, NoneFacts
        <5>3. Shrinks(u)
          BY <2>2, <4>1, <5>2, Untouched
        <5> QED BY <4>1, <4>2, <4>5, <5>1, <5>3, LeftOverStays
      <4>6. ASSUME q = p, ~req'[p].pending PROVE LeftOver(req[p], u)'
        BY <2>2, <4>1, <4>2, <4>3, <4>6, OwnStep
      <4> QED BY <4>1, <4>4, <4>5, <4>6
    <3> QED BY <3>1, <3>2 DEF ScopeOf
  <2>3. ASSUME NEW p \in Procs, NEW d \in Dbs, Restart(p, d), NEW q \in Procs
        PROVE  WayBack(req'[q]) /\ ScopeOf(q)'
    <3>1. scope'[q] = {}
      BY <2>3 DEF Restart
    <3>2. req'[q].pc \in {"boot", "idle"}
      BY <2>3 DEF Restart, Idle
    <3> QED BY <3>1, <3>2 DEF WayBack, ScopeOf
  <2>4. ASSUME Visit \/ \E u \in Users : Register(u), UNCHANGED <<disk, req, lock>>, NEW q \in Procs
        PROVE  WayBack(req'[q]) /\ ScopeOf(q)'
    <3>1. mounted' = mounted /\ scope' = scope
      BY <2>4 DEF Visit, Register, EnsureAdmin, NewAccount, database
    <3>2. UNCHANGED <<tomb, dir, reserved>>
      BY <2>4 DEF disk
    <3>3. ASSUME NEW u \in scope[q], ~req[q].pending PROVE LeftOver(req[q], u)'
      <4>1. LeftOver(req[q], u)
        BY <3>3 DEF ScopeInv, ScopeOf
      <4> QED BY <2>4, <3>2, <4>1, LeftOverStays DEF Shrinks
    <3>4. \A u \in scope[q] : u \in used'[mounted'] \ rows'[mounted']
      BY <1>2, <3>1, ScopesGone DEF ScopeInv, ScopeOf
    <3> QED BY <2>4, <3>1, <3>3, <3>4 DEF ScopeInv, ScopeOf
  <2> QED BY <1>2, <2>1, <2>2, <2>3, <2>4, NextCases DEF ScopeInv
<1> QED BY <1>1, <1>2

\* What every recovery knows of the accounts it has to clear, in every
\* reachable state.
THEOREM ScopesHold == Spec => []ScopeInv
<1>1. Init => ScopeInv
  <2> SUFFICES ASSUME Init PROVE ScopeInv
    OBVIOUS
  <2>1. PICK b \in Procs :
          req = [q \in Procs |-> IF q = b THEN [Idle EXCEPT !.op = "boot", !.pc = "boot"] ELSE Idle]
    BY DEF Init
  <2>2. \A q \in Procs : req[q].pc \in {"boot", "idle"}
    BY <2>1 DEF Idle
  <2> QED BY <2>2 DEF Init, ScopeInv, ScopeOf, WayBack
<1> QED BY <1>1, StepScopes, Invariance, PTL DEF Spec

\* A recovery that skipped nothing and put nothing off has cleared the accounts
\* that were gone when it began and on which nobody has worked since.
THEOREM RecoveriesReclaim == Spec => []RecoveryReclaims
<1>1. ASSUME IInv, ScopeInv PROVE RecoveryReclaims
  <2> SUFFICES ASSUME NEW p \in Procs, req[p].pc = "recovered", ~req[p].skipped, ~req[p].pending,
                      NEW u \in scope[p]
               PROVE  ~Leftover(u)
    BY DEF RecoveryReclaims, At
  <2>1. LeftOver(req[p], u)
    BY <1>1 DEF ScopeInv, ScopeOf
  <2>2. dir[u] = {} /\ u \notin reserved
    BY <2>1 DEF LeftOver, Complete
  <2>3. \A t \in Tombs : tomb[t].user # u
    BY <2>1 DEF LeftOver, Complete
  <2> QED BY <2>2, <2>3 DEF Leftover
<1> QED BY <1>1, Invariance, ScopesHold, PTL

=============================================================================
