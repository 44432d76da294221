------------------------- MODULE RulesetStoreProofs -------------------------
(***************************************************************************)
(* Proofs about RulesetStore, for every number of versions, processes and  *)
(* temporary names and every quota.                                        *)
(*                                                                         *)
(* IInv is inductive: TypeOK supplies the types and LockProtects the       *)
(* meaning of holding the lock.  Each safety property is then a fact about *)
(* one step taken from a state that satisfies IInv.                        *)
(***************************************************************************)
EXTENDS RulesetStore, TLAPS, FiniteSetTheorems

IInv == TypeOK /\ LockProtects

-----------------------------------------------------------------------------
(* Lemmas about the operators of the model.                                *)

\* What StepAfter can answer, and when it names a particular step.
LEMMA StepAfterFacts ==
    ASSUME NEW o \in Ops, NEW s
    PROVE  /\ StepAfter(o, s) \in Steps \cup {"done"}
           /\ StepAfter(o, s) = "write" => o = "upload"
           /\ StepAfter(o, s) = "remove" => o = "delete"
           /\ StepAfter(o, s) = "promote" => s \in {"save", "commit"}
           /\ StepAfter(o, s) \in {"toggle", "dropRow"} => s = "enter"
           /\ s # "enter" => StepAfter(o, s) \in UserSteps \cup {"done"}
           /\ StepAfter(o, s) \notin {"unlink", "replace", "reserve",
                                      "detach", "dropMarkers", "purge"}
BY DEF StepAfter, FirstStep, Ops, UserOps, AdminOps, DraftOps, FileOps, Steps, UserSteps

\* Every operation starts with a step.
LEMMA EnterFacts ==
    ASSUME NEW o \in Ops
    PROVE  /\ StepAfter(o, "enter") \in Steps
           /\ o \in AdminOps => StepAfter(o, "enter") \in {"toggle", "dropRow"}
           /\ o \in UserOps => StepAfter(o, "enter") \in UserSteps
           /\ StepAfter(o, "enter") \notin {"write", "promote"}
BY DEF StepAfter, FirstStep, Ops, UserOps, AdminOps, DraftOps, FileOps, Steps, UserSteps

\* The part of TypeOK that describes the requests and the lock.
RequestsOK ==
    /\ lock \in Procs \cup {None}
    /\ req \in [Procs -> Request]
    /\ \A p \in Procs : req[p].tmp # None <=> req[p].pc = "replace"

LEMMA ReleaseKeepsTypes ==
    ASSUME RequestsOK, NEW p \in Procs, Release(p)
    PROVE  RequestsOK'
BY ConstantsAssumption DEF RequestsOK, Release, Idle, Request, Steps, Waiting

LEMMA AdvanceKeepsTypes ==
    ASSUME RequestsOK, NEW p \in Procs, NEW s, Advance(p, s),
           req[p].op \in Ops, req[p].pc # "replace"
    PROVE  RequestsOK'
<1> DEFINE next == StepAfter(req[p].op, s)
<1>1. next \in Steps \cup {"done"} /\ next # "replace"
  BY StepAfterFacts
<1>2. CASE next = "done"
  BY <1>2, ReleaseKeepsTypes DEF Advance
<1>3. CASE next # "done"
  <2>1. req' = [req EXCEPT ![p].pc = next] /\ lock' = lock
    BY <1>3 DEF Advance
  <2> QED
    BY <1>1, <1>3, <2>1 DEF RequestsOK, Request
<1> QED BY <1>2, <1>3

LEMMA MoveKeepsTypes ==
    ASSUME RequestsOK, NEW p \in Procs, NEW s \in Steps, s # "replace",
           req[p].pc # "replace", MoveTo(p, s)
    PROVE  RequestsOK'
BY DEF RequestsOK, MoveTo, Request

\* The part of TypeOK that describes what is stored.
StoreOK ==
    /\ account \in {"enabled", "disabled", "gone"}
    /\ draft \in SUBSET Files
    /\ published \in SUBSET Files
    /\ readable \in BOOLEAN
    /\ disk \in SUBSET (Files \cup Temps)
    /\ marker \in [Files -> {"none", "active", "expired"}]
    /\ trash \in SUBSET (Files \cup Temps)

LEMMA TypeOKParts == TypeOK <=> StoreOK /\ RequestsOK
BY DEF TypeOK, StoreOK, RequestsOK

\* While p holds the lock, its operation is known.
LEMMA HolderOperation ==
    ASSUME IInv, NEW p \in Procs, req[p].pc \in Steps
    PROVE  req[p].op \in Ops
BY DEF IInv, LockProtects, Guarded

-----------------------------------------------------------------------------
(* Every step preserves the types.                                         *)

LEMMA TypeStep == ASSUME IInv, [Next]_vars PROVE TypeOK'
<1> USE DEF IInv
<1>0. StoreOK /\ RequestsOK
  BY TypeOKParts
<1> SUFFICES StoreOK' /\ RequestsOK'
  BY DEF TypeOK, StoreOK, RequestsOK
<1>1. CASE UNCHANGED vars
  BY <1>0, <1>1 DEF vars, StoreOK, RequestsOK
<1>2. ASSUME NEW p \in Procs, ArriveUser(p) \/ ArriveAdmin(p) \/ Reject(p)
      PROVE  StoreOK' /\ RequestsOK'
  BY <1>0, <1>2
     DEF StoreOK, RequestsOK, Request, Waiting, Idle, Steps, At, ArriveUser, ArriveAdmin, Reject
<1>3. ASSUME NEW p \in Procs, NEW o \in Ops, NEW f \in ArgsOf(o), NEW b \in BodiesOf(o),
             Enter(p, o, f, b)
      PROVE  StoreOK' /\ RequestsOK'
  <2>1. f \in Files \cup {None} /\ b \in SUBSET Files
    BY DEF ArgsOf, BodiesOf
  <2>2. StepAfter(o, "enter") \in Steps \ {"replace"}
    BY StepAfterFacts, EnterFacts
  <2>3. StoreOK'
    BY <1>0, <1>3 DEF Enter, StoreOK
  <2>4. RequestsOK'
    BY <1>0, <1>3, <2>1, <2>2 DEF Enter, RequestsOK, Request, Idle
  <2> QED BY <2>3, <2>4
<1>4. ASSUME NEW p \in Procs, Step(p) PROVE StoreOK' /\ RequestsOK'
  <2>1. CASE BeginCleanup(p)
    <3>1. CleanupTargets \in SUBSET (Files \cup Temps)
      BY <1>0 DEF StoreOK, CleanupTargets
    <3>2. SweptMarkers(References) \in [Files -> {"none", "active", "expired"}]
      BY DEF SweptMarkers
    <3>3. StoreOK'
      BY <1>0, <2>1, <3>2 DEF BeginCleanup, StoreOK
    <3>4. req' = [req EXCEPT ![p].pc = "unlink", ![p].todo = CleanupTargets]
      BY <2>1 DEF BeginCleanup
    <3>5. lock' = lock /\ req[p].pc = "cleanup"
      BY <2>1 DEF BeginCleanup, At
    <3>6. req' \in [Procs -> Request]
      <4> DEFINE r == [req[p] EXCEPT !.pc = "unlink", !.todo = CleanupTargets]
      <4>1. r \in Request
        BY <1>0, <3>1 DEF RequestsOK, Request, Steps
      <4> QED
        BY <1>0, <3>4, <4>1 DEF RequestsOK
    <3>7. RequestsOK'
      BY <1>0, <3>4, <3>5, <3>6 DEF RequestsOK
    <3> QED BY <3>3, <3>7
  <2>2. ASSUME NEW x \in Files \cup Temps, Unlink(p, x) PROVE StoreOK' /\ RequestsOK'
    BY <1>0, <2>2 DEF Unlink, StoreOK, RequestsOK, Request, At
  <2>3. CASE EndCleanup(p)
    BY <1>0, <2>3, HolderOperation, AdvanceKeepsTypes DEF EndCleanup, StoreOK, At, Steps
  <2>4. CASE ReuseVersion(p)
    BY <1>0, <2>4 DEF ReuseVersion, StoreOK, RequestsOK, Request, Steps, At
  <2>5. ASSUME NEW t \in Temps, WriteTemporary(p, t) PROVE StoreOK' /\ RequestsOK'
    BY <1>0, <2>5, ConstantsAssumption
       DEF WriteTemporary, StoreOK, RequestsOK, Request, Steps, At
  <2>6. CASE RefuseQuota(p)
    BY <1>0, <2>6, ReleaseKeepsTypes DEF RefuseQuota, StoreOK
  <2>7. CASE Replace(p)
    <3>1. req[p].arg \in Files
      BY <2>7 DEF LockProtects, Guarded, Replace, At, FileOps
    <3> QED
      BY <1>0, <2>7, <3>1 DEF Replace, StoreOK, RequestsOK, Request, Steps, At
  <2>8. CASE Reserve(p)
    BY <1>0, <2>8, ReleaseKeepsTypes DEF Reserve, StoreOK
  <2>9. CASE Validate(p)
    BY <1>0, <2>9, HolderOperation, ReleaseKeepsTypes, AdvanceKeepsTypes
       DEF Validate, StoreOK, At, Steps
  <2>10. CASE SaveDraft(p)
    <3>1. req[p].body \in SUBSET Files
      BY <1>0 DEF RequestsOK, Request
    <3> QED
      BY <1>0, <2>10, <3>1, HolderOperation, AdvanceKeepsTypes DEF SaveDraft, StoreOK, At, Steps
  <2>11. CASE Commit(p)
    <3>1. req[p].body \in SUBSET Files
      BY <1>0 DEF RequestsOK, Request
    <3> QED
      BY <1>0, <2>11, <3>1, HolderOperation, AdvanceKeepsTypes DEF Commit, StoreOK, At, Steps
  <2>12. CASE Promote(p)
    <3>1. SweptMarkers(req[p].body) \in [Files -> {"none", "active", "expired"}]
      BY DEF SweptMarkers
    <3> QED
      BY <1>0, <2>12, <3>1, HolderOperation, AdvanceKeepsTypes DEF Promote, StoreOK, At, Steps
  <2>13. CASE RemoveVersion(p) \/ RefuseRemove(p)
    BY <1>0, <2>13, ReleaseKeepsTypes DEF RemoveVersion, RefuseRemove, StoreOK
  <2>14. CASE Toggle(p) \/ Purge(p)
    BY <1>0, <2>14, ReleaseKeepsTypes DEF Toggle, Purge, StoreOK
  <2>15. CASE DropRow(p) \/ Detach(p) \/ DropMarkers(p)
    BY <1>0, <2>15, MoveKeepsTypes DEF DropRow, Detach, DropMarkers, StoreOK, At, Steps
  <2> QED
    BY <1>4, <2>1, <2>2, <2>3, <2>4, <2>5, <2>6, <2>7, <2>8, <2>9, <2>10, <2>11,
       <2>12, <2>13, <2>14, <2>15 DEF Step
<1>5. ASSUME NEW p \in Procs, Fail(p) PROVE StoreOK' /\ RequestsOK'
  BY <1>0, <1>5, ReleaseKeepsTypes DEF Fail, StoreOK
<1>6. ASSUME NEW f \in Files, Expire(f) PROVE StoreOK' /\ RequestsOK'
  BY <1>0, <1>6 DEF Expire, StoreOK, RequestsOK
<1>7. CASE Crash
  BY <1>0, <1>7 DEF Crash, StoreOK, RequestsOK, Request, Idle
<1> QED
  BY <1>1, <1>2, <1>3, <1>4, <1>5, <1>6, <1>7 DEF Next

-----------------------------------------------------------------------------
(* Every step preserves LockProtects.                                      *)

\* A process outside its critical section does not notice a step of another
\* one, nor the passing of time.
LEMMA Bystander ==
    ASSUME IInv, NEW q \in Procs, req[q].pc \notin Steps,
           req'[q] = req[q], lock' # q
    PROVE  Guarded(q)'
BY DEF IInv, LockProtects, Guarded, Steps, UserSteps

\* Mutual exclusion: the holder's step leaves every other process guarded.
LEMMA OthersUnaffected ==
    ASSUME IInv, NEW p \in Procs, req[p].pc \in Steps,
           NEW q \in Procs, q # p, req'[q] = req[q], lock' \in {p, None}
    PROVE  Guarded(q)'
<1>1. lock = p /\ req[q].pc \notin Steps
  BY DEF IInv, LockProtects, Guarded
<1>2. lock' # q
  BY ConstantsAssumption
<1> QED BY <1>1, <1>2, Bystander

LEMMA ReleaseProtects ==
    ASSUME IInv, NEW p \in Procs, req[p].pc \in Steps, Release(p)
    PROVE  LockProtects'
<1>1. req'[p] = Idle /\ lock' = None /\ \A q \in Procs : q # p => req'[q] = req[q]
  BY DEF Release, IInv, TypeOK
<1>2. Guarded(p)'
  BY <1>1, ConstantsAssumption DEF Guarded, Idle, Steps, UserSteps, FileOps
<1>3. \A q \in Procs : q # p => Guarded(q)'
  BY <1>1, OthersUnaffected
<1> QED BY <1>2, <1>3 DEF LockProtects

LEMMA AdvanceProtects ==
    ASSUME IInv, NEW p \in Procs, NEW s \in UserSteps, req[p].pc = s,
           Advance(p, s), account' = account,
           s \in {"save", "commit"} => req[p].body = draft'
    PROVE  LockProtects'
<1> DEFINE next == StepAfter(req[p].op, s)
<1>0. req[p].pc \in Steps /\ s # "enter"
  BY DEF UserSteps, Steps
<1>1. CASE next = "done"
  BY <1>0, <1>1, ReleaseProtects DEF Advance
<1>2. CASE next # "done"
  <2>1. req' = [req EXCEPT ![p].pc = next] /\ lock' = lock
    BY <1>2 DEF Advance
  <2>2. /\ req'[p] = [req[p] EXCEPT !.pc = next]
        /\ \A q \in Procs : q # p => req'[q] = req[q]
    BY <2>1 DEF IInv, TypeOK
  <2>3. lock = p /\ account = "enabled" /\ req[p].op \in Ops
        /\ (req[p].op \in FileOps => req[p].arg \in Files)
    BY <1>0 DEF IInv, LockProtects, Guarded
  <2>4. /\ next \in UserSteps
        /\ next \notin {"unlink", "replace", "reserve"}
        /\ next = "write" => req[p].op = "upload"
        /\ next = "remove" => req[p].op = "delete"
        /\ next = "promote" => s \in {"save", "commit"}
    BY <1>0, <1>2, <2>3, StepAfterFacts
  <2>5. /\ req'[p].pc = next /\ req'[p].op = req[p].op
        /\ req'[p].arg = req[p].arg /\ req'[p].body = req[p].body
    BY <2>2 DEF IInv, TypeOK, Request
  <2>6. Guarded(p)'
    BY <2>1, <2>3, <2>4, <2>5 DEF Guarded, UserSteps, Steps
  <2>7. \A q \in Procs : q # p => Guarded(q)'
    BY <1>0, <2>1, <2>2, <2>3, OthersUnaffected
  <2> QED BY <2>6, <2>7 DEF LockProtects
<1> QED BY <1>1, <1>2

\* A step inside the critical section touches the holder's record only, so
\* it is enough to look at the holder.
LEMMA InsideProtects ==
    ASSUME IInv, NEW p \in Procs, req[p].pc \in Steps, lock' = lock,
           \A q \in Procs : q # p => req'[q] = req[q],
           Guarded(p)'
    PROVE  LockProtects'
<1>1. lock = p
  BY DEF IInv, LockProtects, Guarded
<1>2. \A q \in Procs : q # p => Guarded(q)'
  BY <1>1, OthersUnaffected
<1> QED BY <1>2 DEF LockProtects

LEMMA GuardStep == ASSUME IInv, [Next]_vars PROVE LockProtects'
<1> USE DEF IInv
<1>0. req \in [Procs -> Request] /\ \A p \in Procs : Guarded(p)
  BY DEF TypeOK, LockProtects
<1>1. CASE UNCHANGED vars
  BY <1>0, <1>1 DEF vars, LockProtects, Guarded, References, YamlReferences, Reservations
<1>2. ASSUME NEW p \in Procs, ArriveUser(p) \/ ArriveAdmin(p) \/ Reject(p)
      PROVE  LockProtects'
  <2>1. lock' = lock /\ req[p].pc \notin Steps /\ req'[p].pc \notin Steps
        /\ (req'[p].op \in FileOps => req'[p].arg \in Files)
    BY <1>0, <1>2
       DEF ArriveUser, ArriveAdmin, Reject, At, Steps, Idle, Request, FileOps, Guarded
  <2>2. Guarded(p)'
    BY <1>0, <2>1 DEF Guarded, Steps, UserSteps
  <2>3. ASSUME NEW q \in Procs, q # p PROVE Guarded(q)'
    BY <1>0, <1>2, <2>3
       DEF ArriveUser, ArriveAdmin, Reject, Guarded, References, YamlReferences, Reservations
  <2> QED BY <2>2, <2>3 DEF LockProtects
<1>3. ASSUME NEW p \in Procs, NEW o \in Ops, NEW f \in ArgsOf(o), NEW b \in BodiesOf(o),
             Enter(p, o, f, b)
      PROVE  LockProtects'
  <2> DEFINE first == StepAfter(o, "enter")
  <2>1. /\ lock = None /\ lock' = p /\ account' = account
        /\ req'[p].pc = first /\ req'[p].op = o /\ req'[p].arg = f
        /\ \A q \in Procs : q # p => req'[q] = req[q]
    BY <1>0, <1>3 DEF Enter, LockFree, Idle
  <2>2. /\ first \in Steps /\ first \notin {"write", "replace", "reserve", "unlink", "promote",
                                            "detach", "dropMarkers", "purge"}
        /\ first = "remove" => o = "delete"
        /\ first \in UserSteps => account = "enabled"
        /\ first \in {"toggle", "dropRow"} => account # "gone"
    <3>1. CASE o \in UserOps
      BY <1>3, <3>1, StepAfterFacts, EnterFacts
         DEF Enter, UserIsActive, UserOps, AdminOps, DraftOps, FileOps, UserSteps
    <3>2. CASE o \in AdminOps
      BY <1>3, <3>2, StepAfterFacts, EnterFacts DEF Enter, AdminOps, UserSteps
    <3> QED BY <3>1, <3>2 DEF Ops
  <2>3. o \in FileOps => f \in Files
    BY DEF ArgsOf
  <2>4. Guarded(p)'
    BY <2>1, <2>2, <2>3 DEF Guarded
  <2>5. \A q \in Procs : q # p => Guarded(q)'
    BY <1>0, <2>1, Bystander, ConstantsAssumption DEF Guarded
  <2> QED BY <2>4, <2>5 DEF LockProtects
<1>4. ASSUME NEW p \in Procs, Step(p) PROVE LockProtects'
  <2>1. CASE BeginCleanup(p)
    <3>1. /\ req[p].pc = "cleanup" /\ lock' = lock /\ lock = p /\ account = "enabled"
          /\ req'[p] = [req[p] EXCEPT !.pc = "unlink", !.todo = CleanupTargets]
          /\ \A q \in Procs : q # p => req'[q] = req[q]
      BY <1>0, <2>1 DEF BeginCleanup, At, Guarded, Steps, UserSteps
    <3>2. /\ req'[p].pc = "unlink" /\ req'[p].op = req[p].op
          /\ req'[p].arg = req[p].arg /\ req'[p].todo = CleanupTargets
      BY <1>0, <3>1 DEF Request
    <3>3. References' = References /\ Reservations' \subseteq Reservations
      BY <2>1 DEF BeginCleanup, References, YamlReferences, Reservations, SweptMarkers
    <3>4. disk' \subseteq CleanupTargets \cup References' \cup {f \in Files : marker'[f] # "none"}
      BY <2>1, <3>3 DEF BeginCleanup, CleanupTargets, SweptMarkers, Reservations
    <3>5. CleanupTargets \cap (References' \cup Reservations') = {}
      BY <3>3 DEF CleanupTargets
    <3>6. Guarded(p)'
      BY <1>0, <2>1, <3>1, <3>2, <3>4, <3>5 DEF BeginCleanup, Guarded, Steps, UserSteps
    <3> QED BY <3>1, <3>6, InsideProtects DEF Steps
  <2>2. ASSUME NEW x \in Files \cup Temps, Unlink(p, x) PROVE LockProtects'
    <3>1. /\ req[p].pc = "unlink" /\ lock' = lock /\ lock = p /\ account = "enabled"
          /\ req'[p].pc = "unlink" /\ req'[p].op = req[p].op /\ req'[p].arg = req[p].arg
          /\ \A q \in Procs : q # p => req'[q] = req[q]
      BY <1>0, <2>2 DEF Unlink, At, Guarded, Steps, UserSteps, Request
    <3>2. /\ req'[p].todo = req[p].todo \ {x}
          /\ \/ disk' = disk \ {x} /\ req'[p].failed = req[p].failed
             \/ disk' = disk /\ req'[p].failed = req[p].failed \cup {x}
      BY <1>0, <2>2 DEF Unlink, Request
    <3>3. Reservations' = Reservations /\ References' \subseteq References
      BY <2>2 DEF Unlink, References, YamlReferences, Reservations
    <3>4. References \cap disk' \subseteq References'
      BY <2>2 DEF Unlink, References, YamlReferences
    <3>5. Guarded(p)'
      BY <1>0, <2>2, <3>1, <3>2, <3>3, <3>4 DEF Unlink, Guarded, Steps, UserSteps
    <3> QED BY <3>1, <3>5, InsideProtects DEF Steps
  <2>3. CASE EndCleanup(p)
    BY <2>3, AdvanceProtects DEF EndCleanup, At, UserSteps, Steps
  <2>4. CASE ReuseVersion(p)
    <3>1. /\ req[p].pc = "write" /\ req'[p].pc = "reserve" /\ req'[p].op = req[p].op
          /\ req'[p].arg = req[p].arg /\ lock' = lock /\ account' = account
          /\ req'[p].arg \in disk'
          /\ \A q \in Procs : q # p => req'[q] = req[q]
      BY <1>0, <2>4 DEF ReuseVersion, At, Request
    <3>2. Guarded(p)'
      BY <1>0, <3>1 DEF Guarded, Steps, UserSteps
    <3> QED BY <3>1, <3>2, InsideProtects DEF Steps
  <2>5. ASSUME NEW t \in Temps, WriteTemporary(p, t) PROVE LockProtects'
    <3>1. /\ req[p].pc = "write" /\ req'[p].pc = "replace" /\ req'[p].op = req[p].op
          /\ req'[p].arg = req[p].arg /\ req'[p].tmp = t /\ t \in disk'
          /\ lock' = lock /\ account' = account
          /\ \A q \in Procs : q # p => req'[q] = req[q]
      BY <1>0, <2>5 DEF WriteTemporary, At, Request
    <3>2. Guarded(p)'
      BY <1>0, <3>1 DEF Guarded, Steps, UserSteps
    <3> QED BY <3>1, <3>2, InsideProtects DEF Steps
  <2>6. CASE RefuseQuota(p) \/ Reserve(p)
    BY <2>6, ReleaseProtects DEF RefuseQuota, Reserve, At, Steps
  <2>7. CASE Replace(p)
    <3>1. /\ req[p].pc = "replace" /\ req'[p].pc = "reserve" /\ req'[p].op = req[p].op
          /\ req'[p].arg = req[p].arg /\ lock' = lock /\ account' = account
          /\ req'[p].arg \in disk'
          /\ \A q \in Procs : q # p => req'[q] = req[q]
      BY <1>0, <2>7 DEF Replace, At, Request
    <3>2. Guarded(p)'
      BY <1>0, <3>1 DEF Guarded, Steps, UserSteps
    <3> QED BY <3>1, <3>2, InsideProtects DEF Steps
  <2>8. CASE Validate(p)
    BY <2>8, ReleaseProtects, AdvanceProtects DEF Validate, At, UserSteps, Steps
  <2>9. CASE SaveDraft(p) \/ Commit(p)
    BY <2>9, AdvanceProtects DEF SaveDraft, Commit, At, UserSteps, Steps
  <2>10. CASE Promote(p)
    BY <2>10, AdvanceProtects DEF Promote, At, UserSteps, Steps
  <2>11. CASE RemoveVersion(p) \/ RefuseRemove(p) \/ Toggle(p) \/ Purge(p)
    BY <2>11, ReleaseProtects DEF RemoveVersion, RefuseRemove, Toggle, Purge, At, Steps
  <2>12. CASE DropRow(p) \/ Detach(p) \/ DropMarkers(p)
    <3>1. /\ req[p].pc \in {"dropRow", "detach", "dropMarkers"}
          /\ req'[p].pc \in {"detach", "dropMarkers", "purge"}
          /\ req'[p].op = req[p].op /\ req'[p].arg = req[p].arg /\ lock' = lock
          /\ \A q \in Procs : q # p => req'[q] = req[q]
      BY <1>0, <2>12 DEF DropRow, Detach, DropMarkers, MoveTo, At, Request
    <3>2. account' = "gone"
      BY <1>0, <2>12 DEF DropRow, Detach, DropMarkers, At, Guarded
    <3>3. req'[p].pc = "detach" => DropRow(p)
      BY <1>0, <2>12 DEF Detach, DropMarkers, MoveTo, Request
    <3>4. DropRow(p) => References' = {}
      BY DEF DropRow, References, YamlReferences
    <3>5. Guarded(p)'
      BY <1>0, <3>1, <3>2, <3>3, <3>4 DEF Guarded, Steps, UserSteps
    <3> QED BY <3>1, <3>5, InsideProtects DEF Steps
  <2> QED
    BY <1>4, <2>1, <2>2, <2>3, <2>4, <2>5, <2>6, <2>7, <2>8, <2>9, <2>10, <2>11, <2>12 DEF Step
<1>5. ASSUME NEW p \in Procs, Fail(p) PROVE LockProtects'
  BY <1>5, ReleaseProtects DEF Fail
<1>6. ASSUME NEW f \in Files, Expire(f) PROVE LockProtects'
  <2>1. /\ References' = References /\ Reservations' \subseteq Reservations
        /\ \A g \in Files : marker[g] # "none" => marker'[g] # "none"
    BY <1>6 DEF Expire, References, YamlReferences, Reservations, TypeOK
  <2> QED
    BY <1>0, <1>6, <2>1 DEF Expire, LockProtects, Guarded
<1>7. CASE Crash
  BY <1>7, ConstantsAssumption DEF Crash, LockProtects, Guarded, Idle, Steps, UserSteps, FileOps
<1> QED
  BY <1>1, <1>2, <1>3, <1>4, <1>5, <1>6, <1>7 DEF Next

-----------------------------------------------------------------------------
(* The invariant.                                                          *)

LEMMA InitInvariant == Init => IInv
<1> SUFFICES ASSUME Init PROVE IInv
  OBVIOUS
<1>1. TypeOK
  BY ConstantsAssumption DEF Init, TypeOK, Request, Idle, Waiting, Steps
<1>2. LockProtects
  BY ConstantsAssumption DEF Init, LockProtects, Guarded, Idle, Steps, UserSteps, FileOps
<1> QED BY <1>1, <1>2 DEF IInv

\* The inductive invariant: types, and what each thread may rely on in its
\* critical section.
THEOREM Invariant == Spec => []IInv
<1>1. IInv /\ [Next]_vars => IInv'
  BY TypeStep, GuardStep DEF IInv
<1> QED
  BY <1>1, InitInvariant, PTL DEF Spec

\* Every reachable state is well typed.
THEOREM TypeCorrect == Spec => []TypeOK
<1>1. IInv => TypeOK
  BY DEF IInv
<1> QED BY <1>1, Invariant, PTL

\* At most one process is inside the user's critical section, and what it
\* read there stays true until it leaves: the references and reservations of
\* a cleanup, the enabled account of a user's request, the draft a promotion
\* was computed from.
THEOREM LockProtection == Spec => []LockProtects
<1>1. IInv => LockProtects
  BY DEF IInv
<1> QED BY <1>1, Invariant, PTL

\* A cleanup whose unlinks all succeeded leaves no orphan behind, however its
\* steps interleave with expiries and waiting requests.
THEOREM CleanupComplete == Spec => []CleanupLeavesNoOrphan
<1>1. IInv => CleanupLeavesNoOrphan
  BY DEF IInv, LockProtects, Guarded, CleanupLeavesNoOrphan, At
<1> QED BY <1>1, Invariant, PTL

-----------------------------------------------------------------------------
(* What a step may do to the disk.                                         *)

\* The only ways a version leaves the user's directory.
LEMMA VersionLeaves ==
    ASSUME IInv, [Next]_vars, NEW f \in Files, f \in disk, f \notin disk'
    PROVE  \E p \in Procs :
              \/ req[p].pc = "unlink" /\ f \in req[p].todo
              \/ req[p].pc = "remove" /\ req[p].arg = f /\ f \notin References
              \/ req[p].pc = "detach"
<1> USE DEF IInv
<1> DEFINE Left(p) == \/ req[p].pc = "unlink" /\ f \in req[p].todo
                      \/ req[p].pc = "remove" /\ req[p].arg = f /\ f \notin References
                      \/ req[p].pc = "detach"
<1>0. \A p \in Procs : req[p].tmp # f
  BY ConstantsAssumption DEF TypeOK, Request
<1>1. disk' # disk
  OBVIOUS
<1>2. ASSUME NEW p \in Procs, Step(p) PROVE Left(p)
  <2>1. ASSUME NEW x \in Files \cup Temps, Unlink(p, x) PROVE Left(p)
    BY <2>1 DEF Unlink, At
  <2>2. CASE Replace(p)
    BY <1>0, <2>2 DEF Replace
  <2>3. CASE RemoveVersion(p)
    BY <2>3 DEF RemoveVersion, At
  <2>4. CASE Detach(p)
    BY <2>4 DEF Detach, At
  <2>5. ASSUME NEW t \in Temps, WriteTemporary(p, t) PROVE FALSE
    BY <2>5 DEF WriteTemporary
  <2> QED
    BY <1>1, <1>2, <2>1, <2>2, <2>3, <2>4, <2>5
       DEF Step, BeginCleanup, EndCleanup, ReuseVersion, RefuseQuota, Reserve, Validate,
           SaveDraft, Commit, Promote, RefuseRemove, Toggle, DropRow, DropMarkers, Purge
<1>3. ASSUME NEW p \in Procs, Fail(p) PROVE FALSE
  BY <1>0, <1>3 DEF Fail
<1>4. \E p \in Procs : Step(p)
  BY <1>1, <1>3 DEF Next, vars, ArriveUser, ArriveAdmin, Enter, Reject, Expire, Crash
<1> QED BY <1>2, <1>4

\* Whatever the interleaving, a version that the saved draft or the published
\* YAML names stays on disk.
THEOREM ReferencedVersionsAreKept == Spec => ReferencedVersionsStay
<1>1. ASSUME IInv, [Next]_vars
      PROVE  \A f \in (disk \ disk') \cap Files : f \notin References
  BY <1>1, VersionLeaves DEF IInv, LockProtects, Guarded
<1>2. IInv /\ [Next]_vars => [\A f \in (disk \ disk') \cap Files : f \notin References]_vars
  BY <1>1
<1> QED BY <1>2, Invariant, PTL DEF Spec, ReferencedVersionsStay

\* No cleanup removes an upload whose reservation is still active.
THEOREM ReservedVersionsAreKept == Spec => ReservedVersionsStay
<1> DEFINE A == \A f \in (disk \ disk') \cap Reservations :
                  \/ account = "gone"
                  \/ \E p \in Procs : At(p, "remove") /\ req[p].arg = f
<1>1. ASSUME IInv, [Next]_vars PROVE A
  BY <1>1, VersionLeaves DEF IInv, LockProtects, Guarded, Reservations, At
<1>2. IInv /\ [Next]_vars => [A]_vars
  BY <1>1
<1> QED BY <1>2, Invariant, PTL DEF Spec, ReservedVersionsStay

-----------------------------------------------------------------------------
(* What a step may do to the reservations.                                 *)

\* The steps that touch the markers at all.
LEMMA MarkersChange ==
    ASSUME IInv, [Next]_vars, marker' # marker
    PROVE  \/ \E p \in Procs : BeginCleanup(p) \/ Reserve(p) \/ Promote(p) \/ DropMarkers(p)
           \/ \E f \in Files : Expire(f)
BY DEF Next, vars, Step, ArriveUser, ArriveAdmin, Enter, Reject, Crash, Fail, Unlink, EndCleanup,
       ReuseVersion, WriteTemporary, RefuseQuota, Replace, Validate, SaveDraft, Commit,
       RemoveVersion, RefuseRemove, Toggle, DropRow, Detach, Purge

\* A reservation is given up only for a reference to the same version.
THEOREM ReservationsAreHandedOver == Spec => ReservationHandover
<1> DEFINE Free(f) == \/ f \notin disk
                     \/ f \in References
                     \/ account = "gone"
           A == \A f \in Reservations :
                  marker'[f] = "none" =>
                     \/ f \notin disk
                     \/ f \in References
                     \/ account = "gone"
<1>1. ASSUME IInv, [Next]_vars, NEW f \in Reservations, marker'[f] = "none"
      PROVE  Free(f)
  <2> USE <1>1 DEF IInv
  <2>0. f \in Files /\ marker[f] = "active" /\ marker \in [Files -> {"none", "active", "expired"}]
    BY DEF Reservations, TypeOK
  <2>1. ASSUME NEW p \in Procs, BeginCleanup(p) PROVE Free(f)
    BY <2>0, <2>1 DEF BeginCleanup, SweptMarkers
  <2>2. ASSUME NEW p \in Procs, Reserve(p) PROVE FALSE
    BY <2>0, <2>2 DEF Reserve
  <2>3. ASSUME NEW p \in Procs, Promote(p) PROVE Free(f)
    BY <2>0, <2>3 DEF Promote, SweptMarkers, At, LockProtects, Guarded, References
  <2>4. ASSUME NEW p \in Procs, DropMarkers(p) PROVE Free(f)
    BY <2>4 DEF DropMarkers, At, LockProtects, Guarded
  <2>5. ASSUME NEW g \in Files, Expire(g) PROVE FALSE
    BY <2>0, <2>5 DEF Expire
  <2>6. marker' # marker
    BY <2>0
  <2> QED BY <2>1, <2>2, <2>3, <2>4, <2>5, <2>6, MarkersChange
<1>2. IInv /\ [Next]_vars => [A]_vars
  BY <1>1
<1> QED BY <1>2, Invariant, PTL DEF Spec, ReservationHandover

-----------------------------------------------------------------------------
(* A disabled or deleted account.                                          *)

\* The steps a process can take while the account is not enabled.
LEMMA StepsWhileDisabled ==
    ASSUME IInv, NEW p \in Procs, Step(p), account # "enabled"
    PROVE  Toggle(p) \/ DropRow(p) \/ Detach(p) \/ DropMarkers(p) \/ Purge(p)
<1>1. req[p].pc \notin UserSteps
  BY DEF IInv, LockProtects, Guarded
<1> QED
  BY <1>1 DEF Step, UserSteps, Steps, At, BeginCleanup, Unlink, EndCleanup, ReuseVersion,
      WriteTemporary, RefuseQuota, Replace, Reserve, Validate, SaveDraft, Commit, Promote,
      RemoveVersion, RefuseRemove

\* A request that was authenticated before the account was disabled or
\* deleted adds nothing to it, however long it waited for the lock.
THEOREM NothingIsAddedWhileDisabled == Spec => WritesOnlyWhileEnabled
<1> DEFINE A == account # "enabled" =>
                  /\ draft' \subseteq draft
                  /\ published' \in {published, {}}
                  /\ disk' \subseteq disk
                  /\ \A f \in Files : marker'[f] = "active" => marker[f] = "active"
                  /\ account = "gone" => account' = "gone"
<1>1. ASSUME IInv, [Next]_vars, account # "enabled" PROVE A
  <2> USE <1>1 DEF IInv
  <2>0. marker \in [Files -> {"none", "active", "expired"}]
    BY DEF TypeOK
  <2>1. CASE UNCHANGED vars
    BY <2>1 DEF vars
  <2>2. ASSUME NEW p \in Procs, Step(p) PROVE A
    <3>1. CASE Toggle(p)
      BY <3>1 DEF Toggle, At, LockProtects, Guarded
    <3>2. CASE DropRow(p)
      BY <3>2 DEF DropRow
    <3>3. CASE Detach(p) \/ Purge(p)
      BY <3>3 DEF Detach, Purge
    <3>4. CASE DropMarkers(p)
      BY <2>0, <3>4 DEF DropMarkers
    <3> QED BY <2>2, <3>1, <3>2, <3>3, <3>4, StepsWhileDisabled
  <2>3. ASSUME NEW p \in Procs, Fail(p) PROVE A
    BY <2>3 DEF Fail
  <2>4. ASSUME NEW f \in Files, Expire(f) PROVE A
    BY <2>0, <2>4 DEF Expire
  <2> QED
    BY <2>1, <2>2, <2>3, <2>4 DEF Next, ArriveUser, ArriveAdmin, Enter, Reject, Crash
<1>2. IInv /\ [Next]_vars => [A]_vars
  BY <1>1
<1> QED BY <1>2, Invariant, PTL DEF Spec, WritesOnlyWhileEnabled

-----------------------------------------------------------------------------
(* The quota.                                                              *)

\* The quota is inductive together with the finiteness of the directory.
DiskBounded == IsFiniteSet(disk) /\ QuotaRespected

LEMMA SmallerIsBounded ==
    ASSUME DiskBounded, disk' \subseteq disk
    PROVE  DiskBounded'
<1>1. /\ IsFiniteSet(disk') /\ Cardinality(disk') <= Cardinality(disk)
      /\ Cardinality(disk') \in Nat /\ Cardinality(disk) \in Nat
  BY FS_Subset, FS_CardinalityType DEF DiskBounded
<1> QED
  BY <1>1, ConstantsAssumption DEF DiskBounded, QuotaRespected

LEMMA QuotaStep ==
    ASSUME IInv, DiskBounded, [Next]_vars
    PROVE  DiskBounded'
<1> USE DEF IInv
<1>0. IsFiniteSet(disk) /\ Cardinality(disk) \in Nat /\ Cardinality(disk) <= MaxFiles
      /\ MaxFiles \in Nat
  BY FS_CardinalityType, ConstantsAssumption DEF DiskBounded, QuotaRespected
<1>1. ASSUME NEW p \in Procs, NEW t \in Temps, WriteTemporary(p, t) PROVE DiskBounded'
  <2>1. disk' = disk \cup {t} /\ Cardinality(disk) + 1 <= MaxFiles
    BY <1>1 DEF WriteTemporary, QuotaAllows
  <2>2. IsFiniteSet(disk') /\ Cardinality(disk') <= Cardinality(disk) + 1
        /\ Cardinality(disk') \in Nat
    BY <1>0, <2>1, FS_AddElement
  <2> QED BY <1>0, <2>1, <2>2 DEF DiskBounded, QuotaRespected
<1>2. ASSUME NEW p \in Procs, Replace(p) PROVE DiskBounded'
  <2> DEFINE rest == disk \ {req[p].tmp}
  <2>1. req[p].tmp \in disk
    BY <1>2 DEF Replace, At, LockProtects, Guarded
  <2>2. IsFiniteSet(rest) /\ Cardinality(rest) = Cardinality(disk) - 1
    BY <1>0, <2>1, FS_RemoveElement
  <2>3. disk' = rest \cup {req[p].arg}
    BY <1>2 DEF Replace
  <2>4. IsFiniteSet(disk') /\ Cardinality(disk') <= Cardinality(rest) + 1
    <3> HIDE DEF rest
    <3>1. Cardinality(rest) \in Nat
      BY <2>2, FS_CardinalityType
    <3> QED BY <2>2, <2>3, <3>1, FS_AddElement
  <2>5. Cardinality(disk') \in Nat
    BY <2>4, FS_CardinalityType
  <2> QED BY <1>0, <2>2, <2>4, <2>5 DEF DiskBounded, QuotaRespected
<1>3. ASSUME ~ \E p \in Procs : Replace(p) \/ \E t \in Temps : WriteTemporary(p, t)
      PROVE  disk' \subseteq disk
  BY <1>3
     DEF Next, vars, Step, ArriveUser, ArriveAdmin, Enter, Reject, Crash, Fail, Expire,
         BeginCleanup, Unlink, EndCleanup, ReuseVersion, RefuseQuota, Reserve, Validate,
         SaveDraft, Commit, Promote, RemoveVersion, RefuseRemove, Toggle, DropRow, Detach,
         DropMarkers, Purge
<1> QED BY <1>1, <1>2, <1>3, SmallerIsBounded

\* Crashed uploads and refused cleanups never push the directory over the
\* quota.
THEOREM QuotaIsRespected == Spec => []QuotaRespected
<1>1. Init => DiskBounded
  BY DEF Init, DiskBounded, QuotaRespected
<1>2. IInv /\ DiskBounded /\ [Next]_vars => DiskBounded'
  BY QuotaStep
<1>3. DiskBounded => QuotaRespected
  BY DEF DiskBounded
<1> QED BY <1>1, <1>2, <1>3, Invariant, PTL DEF Spec
-----------------------------------------------------------------------------
(* The store implements its contract.                                      *)

\* What the contract sees of a state.
View == <<account, disk \cap Files, References \cap Files, Reservations>>

LEMMA ViewChanges ==
    ASSUME View' = View PROVE UNCHANGED Promise!contract
BY DEF View, Promise!contract

\* Steps the contract does not see: they touch neither the account, nor the
\* versions, nor what names or reserves them.
LEMMA Unseen ==
    ASSUME UNCHANGED <<account, draft, published, readable, disk, marker>>
    PROVE  View' = View
BY DEF View, References, YamlReferences, Reservations

\* A sweep gives up reservations only of versions that are named or missing.
LEMMA SweepHandsOver ==
    ASSUME UNCHANGED <<account, draft, published, readable, disk>>,
           NEW refs, refs \subseteq References, marker' = SweptMarkers(refs)
    PROVE  \E b \in SUBSET Files : Promise!HandOver(b)
<1> DEFINE b == Reservations \ (Reservations')
<1>1. Reservations' = Reservations \ b
  BY DEF Reservations, SweptMarkers
<1>2. b \in SUBSET Files /\ b \subseteq (References \cap Files) \cup (Files \ (disk \cap Files))
  BY DEF Reservations, SweptMarkers
<1>3. References' = References
  BY DEF References, YamlReferences
<1> QED
  BY <1>1, <1>2, <1>3 DEF Promise!HandOver

LEMMA RefineStep == ASSUME IInv, [Next]_vars PROVE [Promise!Change]_Promise!contract
<1> USE DEF IInv
<1>0. req \in [Procs -> Request] /\ (\A p \in Procs : Guarded(p)) /\ StoreOK
  BY TypeOKParts DEF TypeOK, LockProtects
<1>1. CASE UNCHANGED vars
  BY <1>1, Unseen, ViewChanges DEF vars
<1>2. ASSUME NEW p \in Procs, ArriveUser(p) \/ ArriveAdmin(p) \/ Reject(p)
      PROVE  UNCHANGED Promise!contract
  BY <1>2, Unseen, ViewChanges DEF ArriveUser, ArriveAdmin, Reject
<1>3. ASSUME NEW p \in Procs, NEW o \in Ops, NEW f \in ArgsOf(o), NEW b \in BodiesOf(o),
             Enter(p, o, f, b)
      PROVE  UNCHANGED Promise!contract
  BY <1>3, Unseen, ViewChanges DEF Enter
<1>4. ASSUME NEW p \in Procs, Step(p) PROVE [Promise!Change]_Promise!contract
  <2> DEFINE f == req[p].arg
  <2>1. CASE BeginCleanup(p)
    BY <2>1, SweepHandsOver DEF BeginCleanup, Promise!Change
  <2>2. ASSUME NEW x \in Files \cup Temps, Unlink(p, x)
        PROVE  [Promise!Change]_Promise!contract
    <3>1. /\ req[p].pc = "unlink" /\ x \notin References \cup Reservations
          /\ account' = account /\ Reservations' = Reservations
      BY <1>0, <2>2 DEF Unlink, At, Guarded, Reservations
    <3>2. References' \cap Files = References \cap Files
      BY <2>2, <3>1 DEF Unlink, References, YamlReferences
    <3>3. CASE x \in Files /\ x \in disk /\ disk' = disk \ {x}
      <4>1. Promise!Collect(x)
        BY <3>1, <3>2, <3>3 DEF Promise!Collect
      <4> QED BY <3>3, <4>1 DEF Promise!Change
    <3>4. CASE disk' \cap Files = disk \cap Files
      BY <3>1, <3>2, <3>4, ViewChanges DEF View
    <3> QED BY <2>2, <3>3, <3>4 DEF Unlink
  <2>3. CASE EndCleanup(p) \/ ReuseVersion(p) \/ RefuseQuota(p) \/ Validate(p)
             \/ RefuseRemove(p) \/ Purge(p)
    BY <2>3, Unseen, ViewChanges
       DEF EndCleanup, ReuseVersion, RefuseQuota, Validate, RefuseRemove, Purge
  <2>4. ASSUME NEW t \in Temps, WriteTemporary(p, t) PROVE UNCHANGED Promise!contract
    <3>1. disk' \cap Files = disk \cap Files
      BY <2>4, ConstantsAssumption DEF WriteTemporary
    <3>2. References' \cap Files = References \cap Files /\ Reservations' = Reservations
          /\ account' = account
      BY <2>4, ConstantsAssumption DEF WriteTemporary, References, YamlReferences, Reservations
    <3> QED BY <3>1, <3>2, ViewChanges DEF View
  <2>5. CASE Replace(p)
    <3>1. /\ f \in Files /\ req[p].tmp \in Temps /\ req[p].tmp \notin Files
          /\ account = "enabled" /\ account' = account
      BY <1>0, <2>5, ConstantsAssumption
         DEF Replace, At, Guarded, UserSteps, Steps, TypeOK, Request, FileOps
    <3>2. disk' \cap Files = (disk \cap Files) \cup {f}
      BY <2>5, <3>1 DEF Replace
    <3>3. Reservations' = Reservations
      BY <2>5 DEF Replace, Reservations
    <3>4. References' \cap Files \in {References \cap Files, (References \cap Files) \cup {f}}
      <4>1. CASE readable
        BY <2>5, <4>1 DEF Replace, References, YamlReferences
      <4>2. CASE ~readable
        BY <2>5, <3>2, <4>2 DEF Replace, References, YamlReferences
      <4> QED BY <4>1, <4>2
    <3>5. Promise!Store(f)
      BY <3>1, <3>2, <3>3, <3>4 DEF Promise!Store
    <3> QED BY <3>1, <3>5 DEF Promise!Change
  <2>6. CASE Reserve(p)
    <3>1. f \in Files /\ f \in disk /\ account = "enabled"
      BY <1>0, <2>6 DEF Reserve, At, Guarded, UserSteps, Steps, FileOps
    <3>2. Reservations' = Reservations \cup {f}
      BY <1>0, <2>6, <3>1 DEF Reserve, Reservations, StoreOK
    <3>3. Promise!Hold(f)
      BY <2>6, <3>1, <3>2 DEF Reserve, Promise!Hold, References, YamlReferences
    <3> QED BY <3>1, <3>3 DEF Promise!Change
  <2>7. CASE SaveDraft(p) \/ Commit(p)
    <3>1. account = "enabled" /\ account' = account /\ disk' = disk
          /\ Reservations' = Reservations
      BY <1>0, <2>7 DEF SaveDraft, Commit, At, Guarded, UserSteps, Steps, Reservations
    <3>2. Promise!Name(References' \cap Files)
      BY <3>1 DEF Promise!Name
    <3> QED BY <3>2 DEF Promise!Change
  <2>8. CASE Promote(p)
    <3>1. req[p].body \subseteq References
      BY <1>0, <2>8 DEF Promote, At, Guarded, References
    <3> QED BY <2>8, <3>1, SweepHandsOver DEF Promote, Promise!Change
  <2>9. CASE RemoveVersion(p)
    <3>1. /\ f \in Files /\ f \notin References /\ account = "enabled"
          /\ account' = account /\ Reservations' = Reservations
      BY <1>0, <2>9 DEF RemoveVersion, At, Guarded, UserSteps, Steps, FileOps, Reservations
    <3>2. /\ disk' \cap Files = (disk \cap Files) \ {f}
          /\ References' \cap Files = References \cap Files
      BY <2>9, <3>1 DEF RemoveVersion, References, YamlReferences
    <3>3. CASE f \in disk
      BY <3>1, <3>2, <3>3 DEF Promise!Change, Promise!Delete
    <3>4. CASE f \notin disk
      BY <3>1, <3>2, <3>4, ViewChanges DEF View
    <3> QED BY <3>3, <3>4
  <2>10. CASE Toggle(p)
    <3>1. account # "gone"
      BY <1>0, <2>10 DEF Toggle, At, Guarded
    <3>2. Promise!Switch
      BY <2>10, <3>1 DEF Toggle, Promise!Switch, References, YamlReferences, Reservations
    <3> QED BY <3>2 DEF Promise!Change
  <2>11. CASE DropRow(p)
    <3>1. account # "gone"
      BY <1>0, <2>11 DEF DropRow, At, Guarded
    <3>2. Promise!Retire
      BY <2>11, <3>1 DEF DropRow, Promise!Retire, References, YamlReferences, Reservations
    <3> QED BY <3>2 DEF Promise!Change
  <2>12. CASE Detach(p)
    <3>1. account = "gone" /\ References = {}
      BY <1>0, <2>12 DEF Detach, At, Guarded
    <3>2. References' = {} /\ disk' = {} /\ Reservations' = Reservations /\ account' = account
      BY <2>12, <3>1 DEF Detach, References, YamlReferences, Reservations
    <3>3. Promise!Clear
      BY <3>1, <3>2 DEF Promise!Clear
    <3> QED BY <3>3 DEF Promise!Change
  <2>13. CASE DropMarkers(p)
    <3>1. account = "gone"
      BY <1>0, <2>13 DEF DropMarkers, At, Guarded
    <3>2. Reservations' = {}
      BY <2>13 DEF DropMarkers, Reservations
    <3>3. Promise!Clear
      BY <2>13, <3>1, <3>2 DEF DropMarkers, Promise!Clear, References, YamlReferences
    <3> QED BY <3>3 DEF Promise!Change
  <2> QED
    BY <1>4, <2>1, <2>2, <2>3, <2>4, <2>5, <2>6, <2>7, <2>8, <2>9, <2>10, <2>11, <2>12, <2>13
       DEF Step
<1>5. ASSUME NEW p \in Procs, Fail(p) PROVE UNCHANGED Promise!contract
  <2>1. req[p].tmp \notin Files
    BY <1>0, ConstantsAssumption DEF Request
  <2>2. disk' \cap Files = disk \cap Files
    BY <1>5, <2>1 DEF Fail
  <2>3. References' \cap Files = References \cap Files /\ Reservations' = Reservations
        /\ account' = account
    BY <1>5, <2>1 DEF Fail, References, YamlReferences, Reservations
  <2> QED BY <2>2, <2>3, ViewChanges DEF View
<1>6. ASSUME NEW f \in Files, Expire(f) PROVE Promise!Change
  <2>1. Reservations' = Reservations \ {f}
    BY <1>0, <1>6 DEF Expire, Reservations, StoreOK
  <2>2. Promise!TimeOut(f)
    BY <1>6, <2>1 DEF Expire, Promise!TimeOut, References, YamlReferences
  <2> QED BY <2>2 DEF Promise!Change
<1>7. CASE Crash
  BY <1>7, Unseen, ViewChanges DEF Crash
<1> QED
  BY <1>1, <1>2, <1>3, <1>4, <1>5, <1>6, <1>7 DEF Next

\* The store implements the contract of RulesetContract: every step of every
\* process, and every failure, expiry and crash, is one change the contract
\* allows or invisible to it.
THEOREM Refinement == Spec => Implements
<1>1. Init => Promise!Open
  <2> SUFFICES ASSUME Init PROVE Promise!Open
    OBVIOUS
  <2>1. Reservations = {}
    BY DEF Init, Reservations
  <2>2. References \cap Files \subseteq disk \cap Files
    BY DEF Init, References, YamlReferences
  <2> QED BY <2>1, <2>2 DEF Init, Promise!Open
<1>2. IInv /\ [Next]_vars => [Promise!Change]_Promise!contract
  BY RefineStep
<1> QED
  BY <1>1, <1>2, Invariant, PTL DEF Spec, Implements, Promise!Contract

=============================================================================
