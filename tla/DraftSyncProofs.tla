---------------------------- MODULE DraftSyncProofs ----------------------------
(***************************************************************************)
(* Proofs about DraftSync, for any number of edits and failures and any of *)
(* the buttons: a validation counts for the draft it was about, only       *)
(* drafts that were checked are published, and a page with nothing unsaved *)
(* whose own saves wrote last has its newest draft stored.                 *)
(***************************************************************************)
EXTENDS DraftSync, TLAPS

\* A record with the three fields of a caller's state.
State(r) == r = [pc |-> r.pc, gen |-> r.gen, wait |-> r.wait]

\* What the state of caller f tells: a publication under way, or run, is of a
\* checked draft, and a validation found valid what is now checked.
Honest(f, r) ==
    /\ State(r)
    /\ f = "publish" /\ r.pc \in {"request", "ok"} => r.gen \in checked
    /\ f = "validate" /\ r.pc = "ok" => r.gen \in checked

AllHonest(F) == F = [f \in Flows |-> F[f]] /\ \A f \in Flows : Honest(f, F[f])

DInv ==
    /\ dirty \in Nat
    /\ ValidationIsCurrent
    /\ PublishedWasChecked
    /\ AllHonest(flow)
    /\ \A m \in abandoned : m.kind = "publish" => m.body \in checked

\* The page's bookkeeping on [chain, flow] keeps the callers of flushDraftSave
\* honest.
Sound(s) == s = [chain |-> s.chain, flow |-> s.flow] /\ AllHonest(s.flow)

\* A caller in a state of its own, and any chain.
LEMMA Put ==
    ASSUME NEW s, Sound(s), NEW f \in Flows, NEW r, Honest(f, r), NEW c
    PROVE  /\ Sound([s EXCEPT !.flow[f] = r])
           /\ Sound([s EXCEPT !.chain = c, !.flow[f] = r])
<1> DEFINE F == [s.flow EXCEPT ![f] = r]
<1>1. AllHonest(F)
  BY DEF Sound, AllHonest
<1>2. [s EXCEPT !.flow[f] = r] = [chain |-> s.chain, flow |-> F]
  BY DEF Sound
<1>3. [s EXCEPT !.chain = c, !.flow[f] = r] = [chain |-> c, flow |-> F]
  <2> DEFINE t == [s EXCEPT !.chain = c]
  <2>1. t = [chain |-> c, flow |-> s.flow]
    BY DEF Sound
  <2>2. [s EXCEPT !.chain = c, !.flow[f] = r] = [t EXCEPT !.flow[f] = r]
    OBVIOUS
  <2> HIDE DEF t
  <2>3. [t EXCEPT !.flow[f] = r] = [chain |-> c, flow |-> F]
    BY <2>1
  <2> QED BY <2>2, <2>3
<1> HIDE DEF F
<1>4. \A d : Sound([chain |-> d, flow |-> F])
  BY <1>1 DEF Sound
<1> QED BY <1>2, <1>3, <1>4

LEMMA IdleHonest == \A f \in Flows : Honest(f, IdleFlow)
BY DEF IdleFlow, State, Honest

\* A publication proceeds only with a valid draft, and that draft is checked.
LEMMA ProceedSound ==
    ASSUME DInv, NEW s, Sound(s), NEW f \in Flows
    PROVE  Sound(Proceed(s, f))
<1>1. CASE f = "save" \/ (f = "publish" /\ ~CurrentValidation)
  BY <1>1, Put, IdleHonest DEF Proceed
<1>2. CASE ~(f = "save" \/ (f = "publish" /\ ~CurrentValidation))
  <2> DEFINE r == [pc |-> "request", gen |-> dirty, wait |-> 0]
  <2>1. Honest(f, r)
    BY <1>2 DEF Honest, State, CurrentValidation, DInv, ValidationIsCurrent
  <2>2. Proceed(s, f) = [s EXCEPT !.flow[f] = r]
    BY <1>2 DEF Proceed
  <2> HIDE DEF r
  <2>3. Sound([s EXCEPT !.flow[f] = r])
    BY <2>1, Put
  <2> QED BY <2>2, <2>3
<1> QED BY <1>1, <1>2

LEMMA QueueSound ==
    ASSUME NEW s, Sound(s), NEW f \in Flows
    PROVE  Sound(QueueAndAwait(s, f))
<1> DEFINE r == [pc |-> "flush", gen |-> dirty, wait |-> Len(s.chain) + 1]
           c == Append(s.chain, dirty)
<1>1. Honest(f, r)
  BY DEF State, Honest
<1>2. QueueAndAwait(s, f) = [s EXCEPT !.chain = c, !.flow[f] = r]
  BY DEF QueueAndAwait
<1> HIDE DEF r, c
<1>3. Sound([s EXCEPT !.chain = c, !.flow[f] = r])
  BY <1>1, Put
<1> QED BY <1>2, <1>3

LEMMA AwaitSound ==
    ASSUME DInv, NEW s, Sound(s), NEW f \in Flows, NEW ok
    PROVE  Sound(AwaitChain(s, f, ok))
<1>1. CASE s.chain # <<>>
  <2> DEFINE r == [s.flow[f] EXCEPT !.pc = "tail", !.wait = Len(s.chain)]
  <2>1. s.flow[f] = [pc |-> s.flow[f].pc, gen |-> s.flow[f].gen, wait |-> s.flow[f].wait]
    BY DEF Sound, AllHonest, Honest, State
  <2>2. r = [pc |-> "tail", gen |-> s.flow[f].gen, wait |-> Len(s.chain)]
    <3> DEFINE q == s.flow[f]
               u == [q EXCEPT !.pc = "tail"]
    <3>1. u = [pc |-> "tail", gen |-> q.gen, wait |-> q.wait]
      BY <2>1
    <3> HIDE DEF u
    <3>2. [u EXCEPT !.wait = Len(s.chain)] = [pc |-> "tail", gen |-> q.gen, wait |-> Len(s.chain)]
      BY <3>1
    <3>3. r = [u EXCEPT !.wait = Len(s.chain)]
      BY DEF u
    <3> QED BY <3>2, <3>3
  <2>3. Honest(f, r)
    BY <2>2 DEF Honest, State
  <2>4. AwaitChain(s, f, ok) = [s EXCEPT !.flow[f] = r]
    BY <1>1 DEF AwaitChain
  <2> HIDE DEF r
  <2>5. Sound([s EXCEPT !.flow[f] = r])
    BY <2>3, Put
  <2> QED BY <2>4, <2>5
<1>2. CASE s.chain = <<>> /\ ok
  BY <1>2, ProceedSound DEF AwaitChain
<1>3. CASE s.chain = <<>> /\ ~ok
  BY <1>3, Put, IdleHonest DEF AwaitChain
<1> QED BY <1>1, <1>2, <1>3

LEMMA SettleSound ==
    ASSUME DInv, NEW s, Sound(s), NEW f \in Flows, NEW ok, NEW savedNow
    PROVE  Sound(Settle(s, f, ok, savedNow))
<1>1. CASE s.flow[f].wait = 0
  BY <1>1 DEF Settle
<1>2. CASE s.flow[f].wait # 0 /\ s.flow[f].wait > 1
  <2> DEFINE r == [s.flow[f] EXCEPT !.wait = @ - 1]
  <2>1. Honest(f, s.flow[f])
    BY DEF Sound, AllHonest
  <2>2. r = [pc |-> s.flow[f].pc, gen |-> s.flow[f].gen, wait |-> s.flow[f].wait - 1]
    BY <2>1 DEF Honest, State
  <2>3. Honest(f, r)
    BY <2>1, <2>2 DEF Honest, State
  <2>4. Settle(s, f, ok, savedNow) = [s EXCEPT !.flow[f] = r]
    BY <1>2 DEF Settle
  <2> HIDE DEF r
  <2>5. Sound([s EXCEPT !.flow[f] = r])
    BY <2>3, Put
  <2> QED BY <2>4, <2>5
<1>3. CASE s.flow[f].wait # 0 /\ ~(s.flow[f].wait > 1) /\ ok
  BY <1>3, ProceedSound, QueueSound, AwaitSound DEF Settle, Resume
<1>4. CASE s.flow[f].wait # 0 /\ ~(s.flow[f].wait > 1) /\ ~ok
  BY <1>4, Put, IdleHonest DEF Settle
<1> QED BY <1>1, <1>2, <1>3, <1>4

\* Installing what the bookkeeping computed.
LEMMA InstallKeeps ==
    ASSUME DInv, NEW s, Sound(s), Install(s),
           UNCHANGED <<dirty, valid, abandoned, published, checked>>
    PROVE  DInv'
BY DEF DInv, Sound, AllHonest, Honest, Install, ValidationIsCurrent, PublishedWasChecked

LEMMA StepKeeps == ASSUME BoundsAssumption, DInv, [NextSync]_syncVars PROVE DInv'
<1> USE DEF DInv, ValidationIsCurrent, PublishedWasChecked, AllHonest
<1>0. Sound([chain |-> chain, flow |-> flow])
  BY DEF Sound
<1>1. CASE Edit
  BY <1>1 DEF Edit, server, Honest
<1>2. CASE TimerFires
  BY <1>2 DEF TimerFires, server, Honest
<1>3. ASSUME NEW f \in Flows, Begin(f) PROVE DInv'
  <2> DEFINE s == [chain |-> chain, flow |-> flow]
             t == IF dirty > saved THEN QueueAndAwait(s, f) ELSE AwaitChain(s, f, lastOk)
  <2>1. Sound(t)
    BY <1>0, QueueSound, AwaitSound
  <2>2. Install(t) /\ UNCHANGED <<dirty, valid, abandoned, published, checked>>
    BY <1>3 DEF Begin, server
  <2> HIDE DEF t
  <2> QED BY <2>1, <2>2, InstallKeeps
<1>4. CASE ServePut
  BY <1>4 DEF ServePut, client, Honest
<1>5. CASE ServeValidate
  BY <1>5 DEF ServeValidate, Honest, State, Flows
<1>6. CASE ServePublish
  BY <1>6 DEF ServePublish, Honest, State, Flows
<1>7. ASSUME NEW m \in abandoned, ServeAbandoned(m) PROVE DInv'
  BY <1>7 DEF ServeAbandoned, client, Honest
<1>8. CASE LosePut
  BY <1>8 DEF LosePut, client, server, Honest
<1>9. ASSUME NEW f \in Requests, LoseFlow(f) PROVE DInv'
  <2>1. f \in Flows /\ Honest(f, flow[f])
    BY DEF Flows, Requests
  <2> DEFINE r == [flow[f] EXCEPT !.pc = "error"]
  <2>2. r = [pc |-> "error", gen |-> flow[f].gen, wait |-> flow[f].wait]
    BY <2>1 DEF Honest, State
  <2>3. Honest(f, r)
    BY <2>2 DEF Honest, State
  <2>4. flow' = [flow EXCEPT ![f] = r]
    BY <1>9 DEF LoseFlow
  <2> HIDE DEF r
  <2>5. AllHonest(flow')
    <3>1. \A g \in Flows : flow'[g] = IF g = f THEN r ELSE flow[g]
      BY <2>4
    <3>2. flow' = [g \in Flows |-> flow'[g]]
      BY <2>4
    <3> QED BY <2>3, <3>1, <3>2
  <2>6. \A m \in abandoned' : m.kind = "publish" => m.body \in checked
    BY <1>9, <2>1 DEF LoseFlow, Honest
  <2> QED BY <1>9, <2>5, <2>6 DEF LoseFlow, server, Honest
<1>10. CASE PutAnswered
  <2> DEFINE s0 == [chain |-> Tail(chain), flow |-> flow]
             s == SettleAll(s0, put = "ok", saved')
  <2>1. Sound(s0)
    BY <1>0 DEF Sound
  <2>2. Sound(s)
    BY <2>1, SettleSound DEF SettleAll, Flows
  <2>3. Install(s) /\ UNCHANGED <<dirty, valid, abandoned, published, checked>>
    BY <1>10 DEF PutAnswered, server
  <2> HIDE DEF s
  <2> QED BY <2>2, <2>3, InstallKeeps
<1>11. CASE ValidateAnswered
  BY <1>11, IdleHonest DEF ValidateAnswered, server, Honest, Flows
<1>12. CASE PublishAnswered
  BY <1>12, IdleHonest DEF PublishAnswered, server, Honest, Flows
<1>13. CASE UNCHANGED syncVars
  BY <1>13 DEF syncVars, client, server, Honest
<1>14. Buttons \subseteq Flows
  BY ButtonsAssumption
<1> QED
  BY <1>1, <1>2, <1>3, <1>4, <1>5, <1>6, <1>7, <1>8, <1>9, <1>10, <1>11, <1>12, <1>13, <1>14
  DEF NextSync

\* What the callers of flushDraftSave rely on, in every reachable state.
THEOREM DraftInvariant == SpecSync => []DInv
<1>1. InitSync => DInv
  BY IdleHonest DEF InitSync, DInv, AllHonest, ValidationIsCurrent, PublishedWasChecked
<1>2. DInv /\ [NextSync]_syncVars => DInv'
  BY StepKeeps, BoundsAssumption
<1> QED BY <1>1, <1>2, PTL DEF SpecSync

\* No answer, however late, makes the page take a draft for validated that the
\* server has not checked as it stands.
THEOREM ValidationsAreCurrent == SpecSync => []ValidationIsCurrent
<1>1. DInv => ValidationIsCurrent
  BY DEF DInv
<1> QED BY <1>1, DraftInvariant, PTL

\* What is published was checked, whatever edits, failures and broken
\* connections come between the validation and the publication.
THEOREM PublicationsWereChecked == SpecSync => []PublishedWasChecked
<1>1. DInv => PublishedWasChecked
  BY DEF DInv
<1> QED BY <1>1, DraftInvariant, PTL

-----------------------------------------------------------------------------
(* Saves alone lose nothing.  While the head of the chain settles, the      *)
(* callers in R have not been told yet: c is the rest of the chain, h the   *)
(* draft at its head and sv the saved generation after its answer.          *)

\* The place in the chain of what a caller waits for, 0 for the head, and the
\* draft there.
Place(R, f, r) == r.wait - (IF f \in R THEN 1 ELSE 0)
Entry(c, h, k) == IF k = 0 THEN h ELSE c[k]

\* Drafts are saved in the order of their edits, and once the newest one is
\* saved, no older one is in the queue.
InOrder(c, h, sv) ==
    /\ c \in Seq(Nat) /\ h \in 0..dirty /\ sv \in 0..dirty
    /\ \A i \in 1..Len(c) : h <= c[i] /\ c[i] <= dirty
    /\ \A i, j \in 1..Len(c) : i <= j => c[i] <= c[j]
    /\ sv = dirty => \A i \in 1..Len(c) : c[i] = dirty

\* A flush waits for the save of its own draft; a caller at its tail waits for
\* a draft that is saved, and only newer ones were queued since.
Standing(c, h, sv, k, r) ==
    /\ State(r) /\ r.wait \in Nat /\ r.gen \in 0..dirty
    /\ r.pc \in {"flush", "tail"} <=> r.wait > 0
    /\ r.wait > 0 => k \in 0..Len(c)
    /\ r.pc = "flush" => Entry(c, h, k) = r.gen
    /\ r.pc = "tail" => /\ Entry(c, h, k) <= sv
                        /\ \A i \in (k + 1)..Len(c) : Entry(c, h, k) < c[i]

\* A publication overtakes no save of an older draft: at its tail it waits no
\* longer than the validation does, so a validation of the newest draft either
\* comes with all older saves done or too late for it.
Overtakes(c, h, R, v, p) ==
    /\ v.pc = "tail" /\ p.pc = "tail" => Place(R, "publish", p) <= Place(R, "validate", v)
    /\ valid = dirty /\ p.pc = "tail" => Entry(c, h, Place(R, "publish", p)) = dirty
    /\ v.pc \in {"request", "ok"} /\ v.gen = dirty /\ p.pc = "tail"
         => \/ Entry(c, h, Place(R, "publish", p)) = dirty
            \/ "publish" \in R /\ p.wait = 1
    /\ p.pc \in {"request", "ok"} /\ p.gen = dirty => \A i \in 1..Len(c) : c[i] = dirty
    /\ p.pc = "ok" /\ p.gen = dirty /\ writer = "put" => draft = dirty

Queue(s, h, sv, R) ==
    /\ s = [chain |-> s.chain, flow |-> s.flow]
    /\ s.flow = [f \in Flows |-> s.flow[f]]
    /\ InOrder(s.chain, h, sv)
    /\ \A f \in Flows : Standing(s.chain, h, sv, Place(R, f, s.flow[f]), s.flow[f])
    /\ Overtakes(s.chain, h, R, s.flow["validate"], s.flow["publish"])

\* What the answers under way rely on.
Stores ==
    /\ put \in {"none", "request", "ok", "error"}
    /\ put = "none" <=> chain = <<>>
    /\ saved = dirty /\ writer = "put" => draft = dirty
    /\ put = "ok" /\ writer = "put" => draft = Head(chain)

SavesInv ==
    /\ dirty \in Nat
    /\ Queue([chain |-> chain, flow |-> flow], 0, saved, {})
    /\ Stores

\* s with the chain c and caller f in the state r.
With(s, f, c, r) == [chain |-> c, flow |-> [s.flow EXCEPT ![f] = r]]

LEMMA WithIs ==
    ASSUME NEW s, NEW h, NEW sv, NEW R, Queue(s, h, sv, R), NEW f \in Flows, NEW c, NEW r
    PROVE  /\ [s EXCEPT !.flow[f] = r] = With(s, f, s.chain, r)
           /\ [s EXCEPT !.chain = c, !.flow[f] = r] = With(s, f, c, r)
<1> DEFINE F == [s.flow EXCEPT ![f] = r]
           t == [s EXCEPT !.chain = c]
<1>1. s = [chain |-> s.chain, flow |-> s.flow]
  BY DEF Queue
<1>2. [s EXCEPT !.flow[f] = r] = [chain |-> s.chain, flow |-> F]
  BY <1>1
<1>3. t = [chain |-> c, flow |-> s.flow]
  BY <1>1
<1>4. [s EXCEPT !.chain = c, !.flow[f] = r] = [t EXCEPT !.flow[f] = r]
  OBVIOUS
<1> HIDE DEF t
<1>5. [t EXCEPT !.flow[f] = r] = [chain |-> c, flow |-> F]
  BY <1>3
<1> QED BY <1>2, <1>4, <1>5 DEF With

Proceeding == [pc |-> "request", gen |-> dirty, wait |-> 0]

\* What the answer to the head does to caller f.
LEMMA SettleCases ==
    ASSUME NEW s, NEW h, NEW sv, NEW R, Queue(s, h, sv, R), NEW f \in Flows,
           NEW ok \in BOOLEAN
    PROVE  LET r == s.flow[f]
               t == Settle(s, f, ok, sv)
               stops == f = "save" \/ (f = "publish" /\ ~CurrentValidation)
           IN  \/ r.wait = 0 /\ t = s
               \/ r.wait > 1 /\ t = With(s, f, s.chain, [pc |-> r.pc, gen |-> r.gen, wait |-> r.wait - 1])
               \/ r.wait = 1 /\ t = With(s, f, s.chain, IdleFlow)
               \/ /\ r.wait = 1 /\ ~stops /\ r.pc = "tail"
                  /\ t = With(s, f, s.chain, Proceeding)
               \/ /\ r.wait = 1 /\ ~stops /\ s.chain = <<>>
                  /\ t = With(s, f, s.chain, Proceeding)
               \/ /\ r.wait = 1 /\ r.pc = "flush" /\ dirty > sv
                  /\ t = With(s, f, Append(s.chain, dirty),
                              [pc |-> "flush", gen |-> dirty, wait |-> Len(s.chain) + 1])
               \/ /\ r.wait = 1 /\ ok /\ r.pc = "flush" /\ s.chain # <<>>
                  /\ r.gen = dirty \/ ~(dirty > sv)
                  /\ t = With(s, f, s.chain, [pc |-> "tail", gen |-> r.gen, wait |-> Len(s.chain)])
<1> DEFINE r == s.flow[f]
           t == Settle(s, f, ok, sv)
           stops == f = "save" \/ (f = "publish" /\ ~CurrentValidation)
<1>1. /\ State(r) /\ r.wait \in Nat
      /\ r.pc \in {"flush", "tail"} <=> r.wait > 0
  BY DEF Queue, Standing
<1>2. \A c, q : /\ [s EXCEPT !.flow[f] = q] = With(s, f, s.chain, q)
                /\ [s EXCEPT !.chain = c, !.flow[f] = q] = With(s, f, c, q)
  BY WithIs
<1>3. CASE r.wait = 0
  BY <1>3 DEF Settle
<1>4. CASE r.wait > 1
  <2> DEFINE q == [r EXCEPT !.wait = @ - 1]
  <2>1. q = [pc |-> r.pc, gen |-> r.gen, wait |-> r.wait - 1]
    BY <1>1 DEF State
  <2>2. t = [s EXCEPT !.flow[f] = q]
    BY <1>1, <1>4 DEF Settle
  <2> HIDE DEF q, t
  <2>3. t = With(s, f, s.chain, q)
    BY <1>2, <2>2
  <2> QED BY <1>4, <2>1, <2>3 DEF t
<1>5. ASSUME r.wait = 1, ~ok PROVE t = With(s, f, s.chain, IdleFlow)
  <2>1. t = [s EXCEPT !.flow[f] = IdleFlow]
    BY <1>5 DEF Settle
  <2> QED BY <1>2, <2>1
<1>6. Proceed(s, f) = IF stops THEN With(s, f, s.chain, IdleFlow) ELSE With(s, f, s.chain, Proceeding)
  BY <1>2 DEF Proceed, Proceeding
<1>7. CASE r.wait = 1 /\ ok /\ r.pc = "tail"
  BY <1>6, <1>7 DEF Settle, Resume
<1>8. ASSUME r.wait = 1, ok, r.pc = "flush", r.gen # dirty /\ dirty > sv
      PROVE  t = With(s, f, Append(s.chain, dirty),
                      [pc |-> "flush", gen |-> dirty, wait |-> Len(s.chain) + 1])
  <2>1. t = QueueAndAwait(s, f)
    BY <1>8 DEF Settle, Resume
  <2> DEFINE q == [pc |-> "flush", gen |-> dirty, wait |-> Len(s.chain) + 1]
             c == Append(s.chain, dirty)
  <2>2. QueueAndAwait(s, f) = [s EXCEPT !.chain = c, !.flow[f] = q]
    BY DEF QueueAndAwait
  <2> HIDE DEF q, c, t
  <2>3. t = With(s, f, c, q)
    BY <1>2, <2>1, <2>2
  <2> QED BY <2>3 DEF q, c
<1>9. ASSUME r.wait = 1, ok, r.pc = "flush", ~(r.gen # dirty /\ dirty > sv)
      PROVE  t = AwaitChain(s, f, TRUE)
  <2>1. t = Resume(s, f, sv)
    BY <1>9 DEF Settle
  <2> QED BY <1>9, <2>1 DEF Resume
<1>10. ASSUME s.chain # <<>>
       PROVE  AwaitChain(s, f, TRUE)
                = With(s, f, s.chain, [pc |-> "tail", gen |-> r.gen, wait |-> Len(s.chain)])
  <2> DEFINE u == [r EXCEPT !.pc = "tail"]
             q == [r EXCEPT !.pc = "tail", !.wait = Len(s.chain)]
  <2>1. u = [pc |-> "tail", gen |-> r.gen, wait |-> r.wait]
    BY <1>1 DEF State
  <2>2. q = [u EXCEPT !.wait = Len(s.chain)]
    OBVIOUS
  <2>3. AwaitChain(s, f, TRUE) = [s EXCEPT !.flow[f] = q]
    BY <1>10 DEF AwaitChain
  <2> HIDE DEF u
  <2>4. [u EXCEPT !.wait = Len(s.chain)] = [pc |-> "tail", gen |-> r.gen, wait |-> Len(s.chain)]
    BY <2>1
  <2> HIDE DEF q
  <2>5. [s EXCEPT !.flow[f] = q] = With(s, f, s.chain, q)
    BY <1>2
  <2> QED BY <2>2, <2>3, <2>4, <2>5
<1>11. ASSUME s.chain = <<>> PROVE AwaitChain(s, f, TRUE) = Proceed(s, f)
  BY <1>11 DEF AwaitChain
<1> HIDE DEF r, t, stops
<1>12. ASSUME r.wait = 1, ok, r.pc = "flush", s.chain = <<>>, ~(r.gen # dirty /\ dirty > sv)
       PROVE  t = IF stops THEN With(s, f, s.chain, IdleFlow) ELSE With(s, f, s.chain, Proceeding)
  BY <1>6, <1>9, <1>11, <1>12
<1>13. ASSUME r.wait = 1, ok, r.pc = "flush", s.chain # <<>>, ~(r.gen # dirty /\ dirty > sv)
       PROVE  t = With(s, f, s.chain, [pc |-> "tail", gen |-> r.gen, wait |-> Len(s.chain)])
  BY <1>9, <1>10, <1>13
<1> QED BY <1>1, <1>3, <1>4, <1>5, <1>7, <1>8, <1>12, <1>13 DEF r, t, stops
\* The newest draft may be queued while it is not saved.
Grows(s, c, sv) == c = s.chain \/ (sv < dirty /\ c = Append(s.chain, dirty))

LEMMA GrowthInOrder ==
    ASSUME dirty \in Nat, NEW s, NEW h, NEW sv, NEW R, Queue(s, h, sv, R), NEW c, Grows(s, c, sv)
    PROVE  /\ InOrder(c, h, sv)
           /\ \A k, r : Standing(s.chain, h, sv, k, r) => Standing(c, h, sv, k, r)
           /\ Len(s.chain) \in Nat /\ Len(s.chain) <= Len(c)
           /\ \A k \in 1..Len(s.chain) : c[k] = s.chain[k]
           /\ \A k \in 1..Len(c) : k \notin 1..Len(s.chain) => c[k] = dirty
<1>1. CASE c = s.chain
  BY <1>1 DEF Queue, InOrder
<1>2. ASSUME sv < dirty, c = Append(s.chain, dirty)
      PROVE  /\ InOrder(c, h, sv)
             /\ \A k, r : Standing(s.chain, h, sv, k, r) => Standing(c, h, sv, k, r)
             /\ Len(s.chain) \in Nat /\ Len(s.chain) <= Len(c)
             /\ \A k \in 1..Len(s.chain) : c[k] = s.chain[k]
             /\ \A k \in 1..Len(c) : k \notin 1..Len(s.chain) => c[k] = dirty
  <2> DEFINE n == Len(s.chain)
  <2>1. InOrder(s.chain, h, sv)
    BY DEF Queue
  <2>2. s.chain \in Seq(Nat) /\ n \in Nat /\ h \in 0..dirty /\ sv \in 0..dirty
    BY <2>1 DEF InOrder
  <2>3. c \in Seq(Nat) /\ Len(c) = n + 1 /\ c[n + 1] = dirty /\ \A k \in 1..n : c[k] = s.chain[k]
    BY <1>2, <2>2
  <2> HIDE DEF n
  <2>4. \A i \in 1..n : h <= s.chain[i] /\ s.chain[i] <= dirty /\ s.chain[i] \in Nat
    BY <2>1, <2>2 DEF InOrder, n
  <2>i. InOrder(c, h, sv)
    <3>1. ASSUME NEW i \in 1..Len(c), NEW j \in 1..Len(c), i <= j PROVE c[i] <= c[j]
      <4>1. CASE j = n + 1
        <5>1. c[j] = dirty
          BY <2>3, <4>1
        <5>2. c[i] = dirty \/ c[i] <= dirty
          BY <2>2, <2>3, <2>4
        <5> QED BY <5>1, <5>2
      <4>2. CASE j # n + 1
        <5>1. i \in 1..n /\ j \in 1..n
          BY <2>2, <2>3, <3>1, <4>2
        <5>2. s.chain[i] <= s.chain[j]
          BY <2>1, <3>1, <5>1 DEF InOrder, n
        <5> QED BY <2>3, <5>1, <5>2
      <4> QED BY <4>1, <4>2
    <3>2. \A i \in 1..Len(c) : h <= c[i] /\ c[i] <= dirty
      BY <2>2, <2>3, <2>4
    <3>3. sv = dirty => \A i \in 1..Len(c) : c[i] = dirty
      BY <1>2, <2>2
    <3> QED BY <2>2, <2>3, <3>1, <3>2, <3>3 DEF InOrder
  <2>5. ASSUME NEW k, NEW r, Standing(s.chain, h, sv, k, r) PROVE Standing(c, h, sv, k, r)
    <3>1. r.wait > 0 => k \in 0..n
      BY <2>5 DEF Standing, n
    <3>2. r.pc \in {"flush", "tail"} <=> r.wait > 0
      BY <2>5 DEF Standing
    <3>3. k \in 0..n => Entry(c, h, k) = Entry(s.chain, h, k) /\ Entry(c, h, k) \in Nat
      BY <2>2, <2>3, <2>4 DEF Entry
    <3>4. r.pc = "tail" => \A i \in (k + 1)..Len(c) : Entry(c, h, k) < c[i]
      <4> SUFFICES ASSUME r.pc = "tail", NEW i \in (k + 1)..Len(c) PROVE Entry(c, h, k) < c[i]
        OBVIOUS
      <4>1. k \in 0..n
        BY <3>1, <3>2
      <4>2. CASE i = n + 1
        <5>1. Entry(s.chain, h, k) <= sv
          BY <2>5 DEF Standing
        <5> QED BY <1>2, <2>2, <2>3, <3>3, <4>1, <4>2, <5>1
      <4>3. CASE i # n + 1
        <5>1. i \in (k + 1)..n /\ i \in 1..n
          BY <2>2, <2>3, <4>1, <4>3
        <5>2. Entry(s.chain, h, k) < s.chain[i]
          BY <2>5, <5>1 DEF Standing, n
        <5> QED BY <2>3, <3>3, <4>1, <5>1, <5>2
      <4> QED BY <4>2, <4>3
    <3>5. r.pc = "flush" => Entry(c, h, k) = r.gen
      BY <2>5, <3>1, <3>2, <3>3 DEF Standing
    <3>6. r.pc = "tail" => Entry(c, h, k) <= sv
      BY <2>5, <3>1, <3>2, <3>3 DEF Standing
    <3>7. r.wait > 0 => k \in 0..Len(c)
      BY <2>2, <2>3, <3>1
    <3> QED BY <2>5, <3>4, <3>5, <3>6, <3>7 DEF Standing
  <2>6. \A k \in 1..Len(c) : k \notin 1..n => c[k] = dirty
    BY <2>2, <2>3
  <2>7. n <= Len(c)
    BY <2>2, <2>3
  <2> QED BY <2>2, <2>3, <2>i, <2>5, <2>6, <2>7 DEF n
<1> QED BY <1>1, <1>2 DEF Grows

\* A caller in a new state that stands in the queue, and nothing overtakes.
LEMMA Replace ==
    ASSUME dirty \in Nat, NEW s, NEW h, NEW sv, NEW R, Queue(s, h, sv, R),
           NEW c, Grows(s, c, sv), NEW f \in Flows, NEW r, Standing(c, h, sv, r.wait, r),
           Overtakes(c, h, R \ {f}, IF f = "validate" THEN r ELSE s.flow["validate"],
                                    IF f = "publish" THEN r ELSE s.flow["publish"])
    PROVE  Queue(With(s, f, c, r), h, sv, R \ {f})
<1> DEFINE F == [s.flow EXCEPT ![f] = r]
           Q == R \ {f}
<1>1. F = [g \in Flows |-> F[g]] /\ \A g \in Flows : F[g] = IF g = f THEN r ELSE s.flow[g]
  BY DEF Queue
<1>2. "validate" \in Flows /\ "publish" \in Flows
  BY DEF Flows
<1>3. Overtakes(c, h, Q, F["validate"], F["publish"])
  BY <1>1, <1>2
<1>4. ASSUME NEW g \in Flows PROVE Standing(c, h, sv, Place(Q, g, F[g]), F[g])
  <2>1. CASE g = f
    <3>1. r.wait \in Nat
      BY DEF Standing
    <3>2. Place(Q, g, r) = r.wait
      BY <2>1, <3>1 DEF Place
    <3> QED BY <1>1, <2>1, <3>2
  <2>2. CASE g # f
    <3>1. F[g] = s.flow[g] /\ Place(Q, g, F[g]) = Place(R, g, s.flow[g])
      BY <1>1, <2>2 DEF Place
    <3>2. Standing(s.chain, h, sv, Place(R, g, s.flow[g]), s.flow[g])
      BY DEF Queue
    <3> QED BY <3>1, <3>2, GrowthInOrder
  <2> QED BY <2>1, <2>2
<1>5. InOrder(c, h, sv)
  BY GrowthInOrder
<1> HIDE DEF F
<1>6. Queue([chain |-> c, flow |-> F], h, sv, Q)
  BY <1>1, <1>3, <1>4, <1>5 DEF Queue
<1> QED BY <1>6 DEF With, F

LEMMA IdleStands == \A c, h, sv, k : dirty \in Nat => Standing(c, h, sv, k, IdleFlow)
BY DEF Standing, State, IdleFlow

\* Where the publication waits, growth changes nothing.
LEMMA PublishPlace ==
    ASSUME dirty \in Nat, NEW s, NEW h, NEW sv, NEW R, Queue(s, h, sv, R), NEW c, Grows(s, c, sv),
           s.flow["publish"].pc = "tail"
    PROVE  LET k == Place(R, "publish", s.flow["publish"])
           IN  k \in 0..Len(s.chain) /\ Entry(c, h, k) = Entry(s.chain, h, k)
<1> DEFINE k == Place(R, "publish", s.flow["publish"])
<1>1. "publish" \in Flows
  BY DEF Flows
<1>2. k \in 0..Len(s.chain)
  BY <1>1 DEF Queue, Standing
<1>3. Len(s.chain) \in Nat /\ \A i \in 1..Len(s.chain) : c[i] = s.chain[i]
  BY GrowthInOrder
<1> HIDE DEF k
<1>4. k = 0 \/ k \in 1..Len(s.chain)
  BY <1>2, <1>3
<1> QED BY <1>2, <1>3, <1>4 DEF Entry, k

\* A caller that stops, or that waits for a draft it has just queued.
LEMMA Quietly ==
    ASSUME dirty \in Nat, NEW s, NEW h, NEW sv, NEW R, Queue(s, h, sv, R), NEW c, Grows(s, c, sv),
           NEW f \in Flows, NEW r, Standing(c, h, sv, r.wait, r), r.pc \in {"idle", "flush"}
    PROVE  Queue(With(s, f, c, r), h, sv, R \ {f})
<1> DEFINE v == s.flow["validate"]
           p == s.flow["publish"]
           w == IF f = "validate" THEN r ELSE v
           q == IF f = "publish" THEN r ELSE p
<1>1. Overtakes(s.chain, h, R, v, p)
  BY DEF Queue
<1>2. (p.pc \in {"request", "ok"} /\ p.gen = dirty) => \A i \in 1..Len(c) : c[i] = dirty
  BY <1>1, GrowthInOrder DEF Overtakes
<1>3. ASSUME f = "publish" PROVE Overtakes(c, h, R \ {f}, w, q)
  BY <1>3 DEF Overtakes
<1>4. ASSUME f # "publish" PROVE Overtakes(c, h, R \ {f}, w, q)
  <2>1. /\ Place(R \ {f}, "publish", p) = Place(R, "publish", p)
        /\ "publish" \in R <=> "publish" \in R \ {f}
        /\ f # "validate" => Place(R \ {f}, "validate", v) = Place(R, "validate", v)
    BY <1>4 DEF Place
  <2>2. p.pc = "tail" => Entry(c, h, Place(R, "publish", p)) = Entry(s.chain, h, Place(R, "publish", p))
    BY PublishPlace
  <2> HIDE DEF v, p
  <2>3. q = p
    BY <1>4
  <2>4. CASE f = "validate"
    BY <1>1, <1>2, <2>1, <2>2, <2>3, <2>4 DEF Overtakes
  <2>5. CASE f # "validate"
    BY <1>1, <1>2, <2>1, <2>2, <2>3, <2>5 DEF Overtakes, v
  <2> QED BY <2>4, <2>5
<1>5. Overtakes(c, h, R \ {f}, w, q)
  BY <1>3, <1>4
<1> QED BY <1>5, Replace

\* A caller that need not be told.
LEMMA Told ==
    ASSUME dirty \in Nat, NEW s, NEW h, NEW sv, NEW R, Queue(s, h, sv, R),
           NEW f \in Flows, s.flow[f].wait = 0
    PROVE  Queue(s, h, sv, R \ {f})
<1> DEFINE v == s.flow["validate"]
           p == s.flow["publish"]
           Q == R \ {f}
<1>1. Overtakes(s.chain, h, R, v, p)
  BY DEF Queue
<1>2. s.flow[f].pc # "tail"
  BY DEF Queue, Standing
<1>3. ASSUME NEW g \in Flows PROVE Standing(s.chain, h, sv, Place(Q, g, s.flow[g]), s.flow[g])
  <2>1. Standing(s.chain, h, sv, Place(R, g, s.flow[g]), s.flow[g])
    BY DEF Queue
  <2>2. CASE g = f
    BY <2>1, <2>2 DEF Standing
  <2>3. CASE g # f
    <3>1. Place(Q, g, s.flow[g]) = Place(R, g, s.flow[g])
      BY <2>3 DEF Place
    <3> QED BY <2>1, <3>1
  <2> QED BY <2>2, <2>3
<1>4. Overtakes(s.chain, h, Q, v, p)
  <2>1. f # "publish" => /\ Place(Q, "publish", p) = Place(R, "publish", p)
                         /\ "publish" \in R <=> "publish" \in Q
    BY DEF Place
  <2>2. f # "validate" => Place(Q, "validate", v) = Place(R, "validate", v)
    BY DEF Place
  <2> HIDE DEF Q
  <2>3. CASE f = "publish"
    BY <1>1, <1>2, <2>3 DEF Overtakes
  <2>4. CASE f # "publish" /\ f = "validate"
    BY <1>1, <1>2, <2>1, <2>4 DEF Overtakes
  <2>5. CASE f # "publish" /\ f # "validate"
    BY <1>1, <2>1, <2>2, <2>5 DEF Overtakes
  <2> QED BY <2>3, <2>4, <2>5
<1> QED BY <1>3, <1>4 DEF Queue

\* A caller that waits for further saves before the one it awaits.
LEMMA Counts ==
    ASSUME dirty \in Nat, NEW s, NEW h, NEW sv, NEW R, Queue(s, h, sv, R),
           NEW f \in Flows, f \in R, s.flow[f].wait > 1
    PROVE  LET o == s.flow[f]
           IN  Queue(With(s, f, s.chain, [pc |-> o.pc, gen |-> o.gen, wait |-> o.wait - 1]),
                     h, sv, R \ {f})
<1> DEFINE o == s.flow[f]
           r == [pc |-> o.pc, gen |-> o.gen, wait |-> o.wait - 1]
           v == s.flow["validate"]
           p == s.flow["publish"]
           Q == R \ {f}
<1>1. Standing(s.chain, h, sv, Place(R, f, o), o)
  BY DEF Queue
<1>2. o.wait \in Nat /\ Place(R, f, o) = r.wait /\ r.wait \in Nat /\ r.wait > 0
  BY <1>1 DEF Standing, Place
<1>3. Standing(s.chain, h, sv, r.wait, r)
  BY <1>1, <1>2 DEF Standing, State
<1>4. Overtakes(s.chain, h, R, v, p)
  BY DEF Queue
<1>5. Place(Q, f, r) = Place(R, f, o)
  BY <1>2 DEF Place
<1>6. \A g \in Flows : g # f => /\ \A x : Place(Q, g, x) = Place(R, g, x)
                                /\ g \in R <=> g \in Q
  BY DEF Place
<1>7. "validate" \in Flows /\ "publish" \in Flows
  BY DEF Flows
<1>8. r.pc = o.pc /\ r.gen = o.gen
  OBVIOUS
<1> HIDE DEF Q, r
<1>9. Overtakes(s.chain, h, Q, IF f = "validate" THEN r ELSE v, IF f = "publish" THEN r ELSE p)
  <2>1. CASE f = "publish"
    BY <1>4, <1>5, <1>6, <1>7, <1>8, <2>1 DEF Overtakes
  <2>2. CASE f = "validate"
    BY <1>4, <1>5, <1>6, <1>7, <1>8, <2>2 DEF Overtakes
  <2>3. CASE f # "publish" /\ f # "validate"
    BY <1>4, <1>6, <1>7, <2>3 DEF Overtakes
  <2> QED BY <2>1, <2>2, <2>3
<1>10. Grows(s, s.chain, sv)
  BY DEF Grows
<1>11. Queue(With(s, f, s.chain, r), h, sv, R \ {f})
  BY <1>3, <1>9, <1>10, Replace DEF Q
<1> QED BY <1>11 DEF r

\* A caller whose wait is over and that sends the newest draft.
LEMMA Proceeds ==
    ASSUME dirty \in Nat, NEW s, NEW h, NEW sv, NEW R, Queue(s, h, sv, R), NEW f \in Flows,
           f = "publish" => valid = dirty,
           \/ f \in R /\ s.flow[f].wait = 1 /\ s.flow[f].pc = "tail"
           \/ s.chain = <<>>
    PROVE  Queue(With(s, f, s.chain, Proceeding), h, sv, R \ {f})
<1> DEFINE v == s.flow["validate"]
           p == s.flow["publish"]
           c == s.chain
           r == Proceeding
           Q == R \ {f}
           w == IF f = "validate" THEN r ELSE v
           q == IF f = "publish" THEN r ELSE p
<1>1. Overtakes(c, h, R, v, p) /\ InOrder(c, h, sv)
  BY DEF Queue
<1>2. "validate" \in Flows /\ "publish" \in Flows
  BY DEF Flows
<1>3. r.pc = "request" /\ r.gen = dirty /\ r.wait = 0
  BY DEF Proceeding
<1>4. Standing(c, h, sv, r.wait, r)
  BY DEF Proceeding, Standing, State
<1>5. \A g \in Flows : g # f => /\ \A x : Place(Q, g, x) = Place(R, g, x)
                                /\ g \in R <=> g \in Q
  BY DEF Place
<1>6. Standing(c, h, sv, Place(R, "publish", p), p)
  BY <1>2 DEF Queue
<1>7. c \in Seq(Nat) /\ Len(c) \in Nat
  BY <1>1 DEF InOrder
<1>8. ASSUME f = "publish" PROVE Overtakes(c, h, Q, w, q)
  <2>1. \A i \in 1..Len(c) : c[i] = dirty
    <3>1. CASE c = <<>>
      BY <3>1
    <3>2. ASSUME f \in R, p.wait = 1, p.pc = "tail" PROVE \A i \in 1..Len(c) : c[i] = dirty
      <4>1. Place(R, "publish", p) = 0
        BY <1>8, <3>2 DEF Place
      <4>2. h = dirty
        BY <1>1, <1>8, <3>2, <4>1 DEF Overtakes, Entry
      <4>3. \A i \in 1..Len(c) : h <= c[i] /\ c[i] <= dirty /\ c[i] \in Nat
        BY <1>1, <1>7 DEF InOrder
      <4> QED BY <4>2, <4>3
    <3> QED BY <1>8, <3>1, <3>2
  <2> HIDE DEF r
  <2> QED BY <1>3, <1>8, <2>1 DEF Overtakes
<1>9. ASSUME f # "publish" PROVE Overtakes(c, h, Q, w, q)
  <2> HIDE DEF r, v, p, Q
  <2>1. q = p
    BY <1>9
  <2>2. CASE f = "validate"
    <3>1. ASSUME p.pc = "tail" PROVE "publish" \in R /\ p.wait = 1
      <4>1. p.wait \in Nat /\ p.wait > 0 /\ Place(R, "publish", p) \in 0..Len(c)
        BY <1>6, <3>1 DEF Standing
      <4>2. CASE c = <<>>
        BY <4>1, <4>2 DEF Place
      <4>3. CASE f \in R /\ s.flow[f].wait = 1 /\ s.flow[f].pc = "tail"
        <5>1. v.pc = "tail" /\ Place(R, "validate", v) = 0
          BY <2>2, <4>3 DEF Place, v
        <5>2. Place(R, "publish", p) <= 0
          BY <1>1, <3>1, <5>1 DEF Overtakes
        <5> QED BY <4>1, <5>2 DEF Place
      <4> QED BY <4>2, <4>3
    <3>2. w = r
      BY <2>2
    <3> QED BY <1>1, <1>2, <1>3, <1>5, <1>9, <2>1, <3>1, <3>2 DEF Overtakes
  <2>3. CASE f # "validate"
    BY <1>1, <1>2, <1>5, <1>9, <2>1, <2>3 DEF Overtakes
  <2> QED BY <2>2, <2>3
<1>10. Overtakes(c, h, Q, w, q)
  BY <1>8, <1>9
<1>11. Grows(s, c, sv)
  BY DEF Grows
<1> QED BY <1>4, <1>10, <1>11, Replace

\* A caller that comes to the tail of the queue, where all drafts are saved.
LEMMA Joins ==
    ASSUME dirty \in Nat, NEW s, NEW h, NEW sv, NEW R, Queue(s, h, sv, R), NEW f \in Flows,
           f = "publish" => "validate" \notin R,
           s.chain # <<>>, sv = dirty, NEW g \in 0..dirty
    PROVE  Queue(With(s, f, s.chain, [pc |-> "tail", gen |-> g, wait |-> Len(s.chain)]),
                 h, sv, R \ {f})
<1> DEFINE v == s.flow["validate"]
           p == s.flow["publish"]
           c == s.chain
           r == [pc |-> "tail", gen |-> g, wait |-> Len(c)]
           Q == R \ {f}
           w == IF f = "validate" THEN r ELSE v
           q == IF f = "publish" THEN r ELSE p
<1>1. Overtakes(c, h, R, v, p) /\ InOrder(c, h, sv)
  BY DEF Queue
<1>2. "validate" \in Flows /\ "publish" \in Flows
  BY DEF Flows
<1>3. c \in Seq(Nat) /\ Len(c) \in Nat /\ Len(c) > 0 /\ \A i \in 1..Len(c) : c[i] = dirty
  BY <1>1 DEF InOrder
<1>4. r.pc = "tail" /\ r.gen = g /\ r.wait = Len(c)
  OBVIOUS
<1>5. Entry(c, h, Len(c)) = dirty
  BY <1>3 DEF Entry
<1>6. Standing(c, h, sv, r.wait, r)
  <2>1. State(r)
    BY DEF State
  <2> HIDE DEF r
  <2> QED BY <1>3, <1>4, <1>5, <2>1 DEF Standing
<1>7. \A e \in Flows : e # f => /\ \A x : Place(Q, e, x) = Place(R, e, x)
                                /\ e \in R <=> e \in Q
  BY DEF Place
<1>8. Place(Q, f, r) = Len(c)
  BY <1>3 DEF Place
<1>9. Standing(c, h, sv, Place(R, "validate", v), v) /\ Standing(c, h, sv, Place(R, "publish", p), p)
  BY <1>2 DEF Queue
<1> HIDE DEF r, v, p, Q
<1>10. ASSUME f = "publish" PROVE Overtakes(c, h, Q, w, q)
  <2>1. q = r /\ w = v
    BY <1>10
  <2>2. ASSUME v.pc = "tail" PROVE Len(c) <= Place(Q, "validate", v)
    <3> DEFINE k == Place(Q, "validate", v)
    <3>1. k = v.wait /\ v.wait \in Nat /\ v.wait > 0 /\ k = Place(R, "validate", v)
      BY <1>7, <1>9, <1>10, <1>2, <2>2 DEF Place, Standing, Q
    <3>2. k \in 1..Len(c) /\ \A i \in (k + 1)..Len(c) : Entry(c, h, k) < c[i]
      BY <1>9, <2>2, <3>1 DEF Standing
    <3> HIDE DEF k
    <3>3. Entry(c, h, k) = dirty
      BY <1>3, <3>2 DEF Entry
    <3>4. ~(k < Len(c))
      <4> SUFFICES ASSUME k < Len(c) PROVE FALSE
        OBVIOUS
      <4>1. k + 1 \in (k + 1)..Len(c) /\ k + 1 \in 1..Len(c)
        BY <1>3, <3>2
      <4>2. dirty < c[k + 1] /\ c[k + 1] = dirty
        BY <1>3, <3>2, <3>3, <4>1
      <4> QED BY <4>2
    <3> QED BY <1>3, <3>2, <3>4 DEF k
  <2> QED BY <1>4, <1>5, <1>8, <1>10, <2>1, <2>2 DEF Overtakes
<1>11. ASSUME f # "publish" PROVE Overtakes(c, h, Q, w, q)
  <2>1. q = p
    BY <1>11
  <2>2. CASE f = "validate"
    <3>1. w = r
      BY <2>2
    <3>2. p.pc = "tail" => Place(R, "publish", p) <= Len(c)
      BY <1>3, <1>9 DEF Standing
    <3> QED BY <1>1, <1>2, <1>4, <1>7, <1>8, <1>11, <2>1, <2>2, <3>1, <3>2 DEF Overtakes
  <2>3. CASE f # "validate"
    BY <1>1, <1>2, <1>7, <1>11, <2>1, <2>3 DEF Overtakes
  <2> QED BY <2>2, <2>3
<1>12. Overtakes(c, h, Q, w, q)
  BY <1>10, <1>11
<1>13. Grows(s, c, sv)
  BY DEF Grows
<1>14. Queue(With(s, f, c, r), h, sv, R \ {f})
  BY <1>6, <1>12, <1>13, Replace DEF v, p, Q
<1> QED BY <1>14 DEF r

\* A caller that queues the newest draft and waits for it.
LEMMA Queues ==
    ASSUME dirty \in Nat, NEW s, NEW h, NEW sv, NEW R, Queue(s, h, sv, R), NEW f \in Flows, sv < dirty
    PROVE  Queue(With(s, f, Append(s.chain, dirty),
                      [pc |-> "flush", gen |-> dirty, wait |-> Len(s.chain) + 1]), h, sv, R \ {f})
<1> DEFINE c == Append(s.chain, dirty)
           r == [pc |-> "flush", gen |-> dirty, wait |-> Len(s.chain) + 1]
<1>1. s.chain \in Seq(Nat) /\ Len(s.chain) \in Nat
  BY DEF Queue, InOrder
<1>2. Len(c) = Len(s.chain) + 1 /\ c[Len(s.chain) + 1] = dirty
  BY <1>1
<1>3. Grows(s, c, sv)
  BY DEF Grows
<1>4. State(r) /\ r.pc = "flush" /\ r.gen = dirty /\ r.wait = Len(s.chain) + 1
  BY DEF State
<1> HIDE DEF c, r
<1>5. Entry(c, h, r.wait) = dirty
  BY <1>1, <1>2, <1>4 DEF Entry
<1>6. Standing(c, h, sv, r.wait, r)
  BY <1>1, <1>2, <1>4, <1>5 DEF Standing
<1>7. Queue(With(s, f, c, r), h, sv, R \ {f})
  BY <1>3, <1>4, <1>6, Quietly
<1> QED BY <1>7 DEF c, r

LEMMA SettleKeeps ==
    ASSUME dirty \in Nat, NEW s, NEW h, NEW sv, NEW R, Queue(s, h, sv, R), NEW f \in Flows, f \in R,
           f = "publish" => "validate" \notin R,
           NEW ok \in BOOLEAN, ok /\ h = dirty => sv = dirty
    PROVE  Queue(Settle(s, f, ok, sv), h, sv, R \ {f})
<1> DEFINE o == s.flow[f]
           t == Settle(s, f, ok, sv)
           stops == f = "save" \/ (f = "publish" /\ ~CurrentValidation)
<1>1. Standing(s.chain, h, sv, Place(R, f, o), o) /\ InOrder(s.chain, h, sv)
  BY DEF Queue
<1>2. CASE o.wait = 0 /\ t = s
  BY <1>2, Told
<1>3. CASE o.wait > 1 /\ t = With(s, f, s.chain, [pc |-> o.pc, gen |-> o.gen, wait |-> o.wait - 1])
  BY <1>3, Counts
<1>4. CASE t = With(s, f, s.chain, IdleFlow)
  <2>1. Standing(s.chain, h, sv, IdleFlow.wait, IdleFlow) /\ IdleFlow.pc = "idle" /\ Grows(s, s.chain, sv)
    BY IdleStands DEF Grows, IdleFlow
  <2> HIDE DEF t
  <2> QED BY <1>4, <2>1, Quietly DEF t
<1>5. CASE /\ ~stops
           /\ (o.wait = 1 /\ o.pc = "tail") \/ s.chain = <<>>
           /\ t = With(s, f, s.chain, Proceeding)
  <2>1. f = "publish" => valid = dirty
    BY <1>5 DEF CurrentValidation
  <2> QED BY <1>5, <2>1, Proceeds
<1>6. CASE dirty > sv /\ t = With(s, f, Append(s.chain, dirty),
                                  [pc |-> "flush", gen |-> dirty, wait |-> Len(s.chain) + 1])
  <2>1. sv < dirty
    BY <1>1, <1>6 DEF InOrder
  <2>2. Queue(With(s, f, Append(s.chain, dirty),
                   [pc |-> "flush", gen |-> dirty, wait |-> Len(s.chain) + 1]), h, sv, R \ {f})
    BY <2>1, Queues
  <2> QED BY <1>6, <2>2
<1>7. CASE /\ o.wait = 1 /\ ok /\ o.pc = "flush" /\ s.chain # <<>>
           /\ o.gen = dirty \/ ~(dirty > sv)
           /\ t = With(s, f, s.chain, [pc |-> "tail", gen |-> o.gen, wait |-> Len(s.chain)])
  <2>1. h = o.gen /\ o.gen \in 0..dirty
    BY <1>1, <1>7 DEF Standing, Place, Entry
  <2>2. sv = dirty
    BY <1>1, <1>7, <2>1 DEF InOrder
  <2>3. Queue(With(s, f, s.chain, [pc |-> "tail", gen |-> o.gen, wait |-> Len(s.chain)]),
              h, sv, R \ {f})
    <3> DEFINE g == o.gen
    <3> HIDE DEF g
    <3>1. g \in 0..dirty
      BY <2>1 DEF g
    <3>2. Queue(With(s, f, s.chain, [pc |-> "tail", gen |-> g, wait |-> Len(s.chain)]),
                h, sv, R \ {f})
      BY <1>7, <2>2, <3>1, Joins
    <3> QED BY <3>2 DEF g
  <2> QED BY <1>7, <2>3
<1> HIDE DEF o, t, stops
<1>8. \/ o.wait = 0 /\ t = s
      \/ o.wait > 1 /\ t = With(s, f, s.chain, [pc |-> o.pc, gen |-> o.gen, wait |-> o.wait - 1])
      \/ o.wait = 1 /\ t = With(s, f, s.chain, IdleFlow)
      \/ o.wait = 1 /\ ~stops /\ o.pc = "tail" /\ t = With(s, f, s.chain, Proceeding)
      \/ o.wait = 1 /\ ~stops /\ s.chain = <<>> /\ t = With(s, f, s.chain, Proceeding)
      \/ /\ o.wait = 1 /\ o.pc = "flush" /\ dirty > sv
         /\ t = With(s, f, Append(s.chain, dirty),
                     [pc |-> "flush", gen |-> dirty, wait |-> Len(s.chain) + 1])
      \/ /\ o.wait = 1 /\ ok /\ o.pc = "flush" /\ s.chain # <<>>
         /\ o.gen = dirty \/ ~(dirty > sv)
         /\ t = With(s, f, s.chain, [pc |-> "tail", gen |-> o.gen, wait |-> Len(s.chain)])
  BY SettleCases DEF o, t, stops
<1> QED BY <1>2, <1>3, <1>4, <1>5, <1>6, <1>7, <1>8 DEF t

\* The answer to the head, told to all callers.
LEMMA SettleAllKeeps ==
    ASSUME dirty \in Nat, NEW s, NEW h, NEW sv, Queue(s, h, sv, Flows),
           NEW ok \in BOOLEAN, ok /\ h = dirty => sv = dirty
    PROVE  Queue(SettleAll(s, ok, sv), 0, sv, {})
<1> DEFINE s1 == Settle(s, "save", ok, sv)
           s2 == Settle(s1, "validate", ok, sv)
           s3 == Settle(s2, "publish", ok, sv)
<1>1. Queue(s1, h, sv, {"validate", "publish"})
  <2>1. Queue(s1, h, sv, Flows \ {"save"})
    BY SettleKeeps DEF Flows
  <2>2. Flows \ {"save"} = {"validate", "publish"}
    BY DEF Flows
  <2> QED BY <2>1, <2>2
<1> HIDE DEF s1
<1>2. Queue(s2, h, sv, {"publish"})
  <2>1. Queue(s2, h, sv, {"validate", "publish"} \ {"validate"})
    BY <1>1, SettleKeeps DEF Flows
  <2>2. {"validate", "publish"} \ {"validate"} = {"publish"}
    OBVIOUS
  <2> QED BY <2>1, <2>2
<1> HIDE DEF s2
<1>3. Queue(s3, h, sv, {})
  <2>1. Queue(s3, h, sv, {"publish"} \ {"publish"})
    BY <1>2, SettleKeeps DEF Flows
  <2>2. {"publish"} \ {"publish"} = {}
    OBVIOUS
  <2> QED BY <2>1, <2>2
<1> HIDE DEF s3
<1>4. Queue(s3, 0, sv, {})
  <2>1. \A f, r : Place({}, f, r) = r.wait - 0
    BY DEF Place
  <2>2. InOrder(s3.chain, h, sv)
    BY <1>3 DEF Queue
  <2>3. InOrder(s3.chain, 0, sv)
    BY <2>2 DEF InOrder
  <2>4. \A k, r : Standing(s3.chain, h, sv, k, r) /\ k = r.wait - 0 => Standing(s3.chain, 0, sv, k, r)
    BY DEF Standing, Entry
  <2>5. Overtakes(s3.chain, h, {}, s3.flow["validate"], s3.flow["publish"])
        => Overtakes(s3.chain, 0, {}, s3.flow["validate"], s3.flow["publish"])
    <3>1. "publish" \in Flows
      BY DEF Flows
    <3>2. LET r == s3.flow["publish"]
          IN  r.pc = "tail" => r.wait \in Nat /\ r.wait > 0 /\ Place({}, "publish", r) = r.wait
      BY <1>3, <3>1 DEF Queue, Standing, Place
    <3> QED BY <3>2 DEF Overtakes, Entry
  <2> QED BY <1>3, <2>1, <2>3, <2>4, <2>5 DEF Queue
<1> QED BY <1>4 DEF SettleAll, s1, s2, s3

\* The answer to the head, before any caller is told.
LEMMA HeadSettles ==
    ASSUME dirty \in Nat, Queue([chain |-> chain, flow |-> flow], 0, saved, {}), chain # <<>>,
           NEW sv \in {saved, dirty}, sv = dirty => saved = dirty \/ Head(chain) = dirty
    PROVE  Queue([chain |-> Tail(chain), flow |-> flow], Head(chain), sv, Flows)
<1> DEFINE h == Head(chain)
           c == Tail(chain)
           n == Len(chain)
<1>1. /\ InOrder(chain, 0, saved)
      /\ flow = [f \in Flows |-> flow[f]]
      /\ \A f \in Flows : Standing(chain, 0, saved, Place({}, f, flow[f]), flow[f])
      /\ Overtakes(chain, 0, {}, flow["validate"], flow["publish"])
  BY DEF Queue
<1>2. chain \in Seq(Nat) /\ saved \in 0..dirty
  BY <1>1 DEF InOrder
<1>3. /\ n \in Nat /\ n > 0 /\ Len(c) = n - 1 /\ c \in Seq(Nat) /\ h = chain[1]
      /\ \A i \in 1..Len(c) : c[i] = chain[i + 1]
  BY <1>2
<1> HIDE DEF c, h, n
<1>4. h \in 0..dirty /\ sv \in 0..dirty /\ saved <= sv
  <2>1. 1 \in 1..n
    BY <1>3
  <2>2. 0 <= chain[1] /\ chain[1] <= dirty /\ chain[1] \in Nat
    BY <1>1, <1>2, <2>1 DEF InOrder, n
  <2> QED BY <1>2, <1>3, <2>2
<1>5. InOrder(c, h, sv)
  <2>1. \A i \in 1..Len(c) : /\ i + 1 \in 1..n /\ 1 \in 1..n
                             /\ chain[1] <= chain[i + 1] /\ chain[i + 1] <= dirty
                             /\ chain[i + 1] \in Nat
    <3> SUFFICES ASSUME NEW i \in 1..Len(c)
                 PROVE  /\ i + 1 \in 1..n /\ 1 \in 1..n
                        /\ chain[1] <= chain[i + 1] /\ chain[i + 1] <= dirty
                        /\ chain[i + 1] \in Nat
      OBVIOUS
    <3>1. i + 1 \in 1..n /\ 1 \in 1..n /\ 1 <= i + 1
      BY <1>3
    <3>2. chain[1] <= chain[i + 1] /\ chain[i + 1] <= dirty
      BY <1>1, <3>1 DEF InOrder, n
    <3>3. chain[i + 1] \in Nat
      BY <1>2, <3>1 DEF n
    <3> QED BY <3>1, <3>2, <3>3
  <2>2. \A i, j \in 1..Len(c) : i <= j => c[i] <= c[j]
    <3> SUFFICES ASSUME NEW i \in 1..Len(c), NEW j \in 1..Len(c), i <= j PROVE c[i] <= c[j]
      OBVIOUS
    <3>1. i + 1 \in 1..n /\ j + 1 \in 1..n /\ i + 1 <= j + 1
      BY <1>3
    <3>2. chain[i + 1] <= chain[j + 1]
      BY <1>1, <3>1 DEF InOrder, n
    <3> QED BY <1>3, <3>2
  <2>3. sv = dirty => \A i \in 1..Len(c) : c[i] = dirty
    <3>1. CASE saved = dirty
      BY <1>1, <1>3, <2>1, <3>1 DEF InOrder, n
    <3>2. CASE h = dirty
      BY <1>3, <1>4, <2>1, <3>2
    <3> QED BY <3>1, <3>2 DEF h
  <2> QED BY <1>3, <1>4, <2>1, <2>2, <2>3 DEF InOrder
<1>6. \A f \in Flows : flow[f].wait \in Nat /\ Place(Flows, f, flow[f]) = flow[f].wait - 1
                       /\ Place({}, f, flow[f]) = flow[f].wait
  BY <1>1 DEF Standing, Place
<1>7. \A k \in 1..n : Entry(c, h, k - 1) = Entry(chain, 0, k) /\ chain[k] \in Nat
  <2> SUFFICES ASSUME NEW k \in 1..n PROVE Entry(c, h, k - 1) = Entry(chain, 0, k) /\ chain[k] \in Nat
    OBVIOUS
  <2>1. CASE k = 1
    BY <1>2, <1>3, <2>1 DEF Entry, n
  <2>2. CASE k # 1
    <3>1. k - 1 \in 1..Len(c) /\ k - 1 # 0 /\ (k - 1) + 1 = k
      BY <1>3, <2>2
    <3> QED BY <1>2, <1>3, <3>1 DEF Entry, n
  <2> QED BY <2>1, <2>2
<1>8. ASSUME NEW f \in Flows PROVE Standing(c, h, sv, Place(Flows, f, flow[f]), flow[f])
  <2> DEFINE r == flow[f]
             k == r.wait
  <2>1. Standing(chain, 0, saved, k, r) /\ k \in Nat /\ Place(Flows, f, r) = k - 1
    BY <1>1, <1>6
  <2> HIDE DEF r, k
  <2>2. r.pc \in {"flush", "tail"} <=> r.wait > 0
    BY <2>1 DEF Standing
  <2>3. r.wait > 0 => k \in 1..n /\ k - 1 \in 0..Len(c) /\ Entry(c, h, k - 1) = Entry(chain, 0, k)
                      /\ Entry(chain, 0, k) = chain[k] /\ chain[k] \in Nat
    BY <1>3, <1>7, <2>1 DEF Standing, Entry, k, n
  <2>4. r.pc = "tail" => \A i \in ((k - 1) + 1)..Len(c) : Entry(c, h, k - 1) < c[i]
    <3> SUFFICES ASSUME r.pc = "tail", NEW i \in ((k - 1) + 1)..Len(c) PROVE Entry(c, h, k - 1) < c[i]
      OBVIOUS
    <3>1. k \in 1..n
      BY <2>2, <2>3
    <3>2. i + 1 \in (k + 1)..n /\ i \in 1..Len(c)
      BY <1>3, <3>1
    <3>3. Entry(chain, 0, k) < chain[i + 1]
      BY <2>1, <3>2 DEF Standing, n
    <3> QED BY <1>3, <2>2, <2>3, <3>2, <3>3
  <2>5. r.pc = "tail" => Entry(c, h, k - 1) <= sv
    BY <1>2, <1>4, <2>1, <2>2, <2>3 DEF Standing
  <2>6. r.pc = "flush" => Entry(c, h, k - 1) = r.gen
    BY <2>1, <2>2, <2>3 DEF Standing
  <2>7. Standing(c, h, sv, k - 1, r)
    BY <2>1, <2>2, <2>3, <2>4, <2>5, <2>6 DEF Standing
  <2> QED BY <2>1, <2>7 DEF r
<1>9. Overtakes(c, h, Flows, flow["validate"], flow["publish"])
  <2> DEFINE v == flow["validate"]
             p == flow["publish"]
  <2>1. "validate" \in Flows /\ "publish" \in Flows
    BY DEF Flows
  <2>2. p.pc = "tail" => Entry(c, h, p.wait - 1) = Entry(chain, 0, p.wait)
    <3>1. Standing(chain, 0, saved, p.wait, p)
      BY <1>1, <1>6, <2>1
    <3>2. p.pc = "tail" => p.wait \in 1..n
      BY <3>1 DEF Standing, n
    <3> QED BY <1>7, <3>2
  <2>3. (\A i \in 1..n : chain[i] = dirty) => \A i \in 1..Len(c) : c[i] = dirty
    <3>1. \A i \in 1..Len(c) : i + 1 \in 1..n
      BY <1>3
    <3> QED BY <1>3, <3>1
  <2>4. /\ v.wait \in Nat /\ Place(Flows, "validate", v) = v.wait - 1 /\ Place({}, "validate", v) = v.wait
        /\ p.wait \in Nat /\ Place(Flows, "publish", p) = p.wait - 1 /\ Place({}, "publish", p) = p.wait
    BY <1>6, <2>1
  <2> HIDE DEF v, p
  <2>5. Overtakes(chain, 0, {}, v, p)
    BY <1>1 DEF v, p
  <2>6. Overtakes(c, h, Flows, v, p)
    BY <2>2, <2>3, <2>4, <2>5 DEF Overtakes, n
  <2> QED BY <2>6 DEF v, p
<1>10. Queue([chain |-> c, flow |-> flow], h, sv, Flows)
  BY <1>1, <1>5, <1>8, <1>9 DEF Queue
<1> QED BY <1>10 DEF c, h

-----------------------------------------------------------------------------
\* A step that leaves the queue and its callers alone.
LEMMA QueueUnchanged ==
    ASSUME SavesInv, UNCHANGED <<dirty, saved, valid, chain, flow>>,
           writer' = "put" => draft' = draft /\ writer = "put"
    PROVE  Queue([chain |-> chain, flow |-> flow], 0, saved, {})'
<1>1. Overtakes(chain, 0, {}, flow["validate"], flow["publish"])'
  BY DEF SavesInv, Queue, Overtakes, Place, Entry
<1>2. InOrder(chain, 0, saved)'
  BY DEF SavesInv, Queue, InOrder
<1>3. \A f \in Flows : Standing(chain, 0, saved, Place({}, f, flow[f]), flow[f])'
  BY DEF SavesInv, Queue, Standing, State, Place, Entry
<1> QED BY <1>1, <1>2, <1>3 DEF SavesInv, Queue

\* Installing a queue that the bookkeeping computed.
LEMMA InstallsQueue ==
    ASSUME NEW s, NEW sv, Queue(s, 0, sv, {}), Install(s), saved' = sv,
           UNCHANGED <<dirty, valid, draft, writer>>
    PROVE  Queue([chain |-> chain, flow |-> flow], 0, saved, {})'
<1>1. chain' = s.chain /\ flow' = s.flow
  BY DEF Install
<1>2. InOrder(chain, 0, saved)'
  BY <1>1 DEF Queue, InOrder
<1>3. \A f \in Flows : Standing(chain, 0, saved, Place({}, f, flow[f]), flow[f])'
  BY <1>1 DEF Queue, Standing, State, Place, Entry
<1>4. Overtakes(chain, 0, {}, flow["validate"], flow["publish"])'
  BY <1>1 DEF Queue, Overtakes, Place, Entry
<1>5. flow' = [f \in Flows |-> flow'[f]]
  BY <1>1 DEF Queue
<1> QED BY <1>2, <1>3, <1>4, <1>5 DEF Queue

\* A caller whose request was answered, or served.
LEMMA AnswersQueue ==
    ASSUME SavesInv, UNCHANGED <<dirty, saved, chain>>, NEW f \in Flows, NEW r,
           flow' = [flow EXCEPT ![f] = r], State(r), r.wait = 0, r.gen \in 0..dirty,
           r.pc \notin {"flush", "tail"},
           Overtakes(chain, 0, {}, flow["validate"], flow["publish"])'
    PROVE  Queue([chain |-> chain, flow |-> flow], 0, saved, {})'
<1>1. flow' = [g \in Flows |-> flow'[g]] /\ \A g \in Flows : flow'[g] = IF g = f THEN r ELSE flow[g]
  BY DEF SavesInv, Queue
<1>2. InOrder(chain, 0, saved)'
  BY DEF SavesInv, Queue, InOrder
<1>3. ASSUME NEW g \in Flows PROVE Standing(chain, 0, saved, Place({}, g, flow[g]), flow[g])'
  <2>1. CASE g = f
    BY <1>1, <2>1 DEF Standing, State
  <2>2. CASE g # f
    <3>1. flow'[g] = flow[g]
      BY <1>1, <2>2
    <3> QED BY <3>1 DEF SavesInv, Queue, Standing, State, Place, Entry
  <2> QED BY <2>1, <2>2
<1> QED BY <1>1, <1>2, <1>3 DEF Queue

LEMMA Facts ==
    ASSUME SavesInv
    PROVE  /\ dirty \in Nat /\ saved \in 0..dirty /\ chain \in Seq(Nat) /\ Len(chain) \in Nat
           /\ saved = dirty => \A i \in 1..Len(chain) : chain[i] = dirty
           /\ flow = [f \in Flows |-> flow[f]]
           /\ \A f \in Flows : Standing(chain, 0, saved, Place({}, f, flow[f]), flow[f])
           /\ \A f \in Flows : /\ State(flow[f]) /\ flow[f].gen \in 0..dirty
                               /\ flow[f].pc \notin {"flush", "tail"} => flow[f].wait = 0
           /\ Overtakes(chain, 0, {}, flow["validate"], flow["publish"])
           /\ chain # <<>> => 1 \in 1..Len(chain) /\ Head(chain) = chain[1]
           /\ Stores
<1>1. InOrder(chain, 0, saved) /\ flow = [f \in Flows |-> flow[f]]
      /\ Overtakes(chain, 0, {}, flow["validate"], flow["publish"])
      /\ \A f \in Flows : Standing(chain, 0, saved, Place({}, f, flow[f]), flow[f])
  BY DEF SavesInv, Queue
<1>2. chain \in Seq(Nat) /\ Len(chain) \in Nat
  BY <1>1 DEF InOrder
<1>3. chain # <<>> => 1 \in 1..Len(chain) /\ Head(chain) = chain[1]
  BY <1>2
<1>4. \A f \in Flows : /\ State(flow[f]) /\ flow[f].gen \in 0..dirty
                       /\ flow[f].pc \notin {"flush", "tail"} => flow[f].wait = 0
  BY <1>1 DEF Standing
<1> QED BY <1>1, <1>2, <1>3, <1>4 DEF SavesInv, InOrder

\* The timer queues the newest draft for nobody.
LEMMA GrowsAlone ==
    ASSUME SavesInv, NEW c, Grows([chain |-> chain, flow |-> flow], c, saved)
    PROVE  Queue([chain |-> c, flow |-> flow], 0, saved, {})
<1> DEFINE s == [chain |-> chain, flow |-> flow]
           p == flow["publish"]
<1>1. Queue(s, 0, saved, {}) /\ dirty \in Nat /\ s.chain = chain /\ s.flow = flow
  BY DEF SavesInv
<1> HIDE DEF s
<1>2. Grows(s, c, saved)
  BY DEF s
<1>3. /\ InOrder(c, 0, saved)
      /\ \A k, r : Standing(s.chain, 0, saved, k, r) => Standing(c, 0, saved, k, r)
      /\ \A k \in 1..Len(s.chain) : c[k] = s.chain[k]
      /\ \A k \in 1..Len(c) : k \notin 1..Len(s.chain) => c[k] = dirty
  BY <1>1, <1>2, GrowthInOrder
<1>4. \A f \in Flows : Standing(c, 0, saved, Place({}, f, flow[f]), flow[f])
  BY <1>1, <1>3, Facts
<1>5. p.pc = "tail" => Entry(c, 0, Place({}, "publish", p)) = Entry(chain, 0, Place({}, "publish", p))
  BY <1>1, <1>2, PublishPlace
<1>6. Overtakes(c, 0, {}, flow["validate"], p)
  <2>1. Overtakes(chain, 0, {}, flow["validate"], p)
    BY Facts
  <2> HIDE DEF p
  <2> QED BY <1>1, <1>3, <1>5, <2>1 DEF Overtakes
<1>7. flow = [f \in Flows |-> flow[f]]
  BY Facts
<1> QED BY <1>3, <1>4, <1>6, <1>7 DEF Queue

\* A button: its caller queues the newest draft, waits at the tail, or goes on.
LEMMA BeginQueue ==
    ASSUME SavesInv, NEW f \in Flows
    PROVE  LET s == [chain |-> chain, flow |-> flow]
               t == IF dirty > saved THEN QueueAndAwait(s, f) ELSE AwaitChain(s, f, lastOk)
           IN  /\ Queue(t, 0, saved, {})
               /\ t.chain = chain \/ t.chain = Append(chain, dirty)
<1> DEFINE s == [chain |-> chain, flow |-> flow]
           t == IF dirty > saved THEN QueueAndAwait(s, f) ELSE AwaitChain(s, f, lastOk)
<1>1. Queue(s, 0, saved, {}) /\ dirty \in Nat /\ saved \in 0..dirty
      /\ s.chain = chain /\ s.flow = flow /\ State(flow[f]) /\ flow[f].gen \in 0..dirty
  BY Facts DEF SavesInv
<1> HIDE DEF s
<1>2. \A c, q : /\ [s EXCEPT !.flow[f] = q] = With(s, f, s.chain, q)
                /\ [s EXCEPT !.chain = c, !.flow[f] = q] = With(s, f, c, q)
                /\ With(s, f, c, q).chain = c
  <2>1. \A c, q : With(s, f, c, q).chain = c
    BY DEF With
  <2>2. \A c, q : /\ [s EXCEPT !.flow[f] = q] = With(s, f, s.chain, q)
                  /\ [s EXCEPT !.chain = c, !.flow[f] = q] = With(s, f, c, q)
    BY <1>1, WithIs
  <2> QED BY <2>1, <2>2
<1>3. {} \ {f} = {}
  OBVIOUS
<1>4. ASSUME dirty > saved PROVE Queue(t, 0, saved, {}) /\ t.chain = Append(chain, dirty)
  <2> DEFINE q == [pc |-> "flush", gen |-> dirty, wait |-> Len(s.chain) + 1]
             c == Append(s.chain, dirty)
             w == With(s, f, c, q)
  <2>1. saved < dirty
    BY <1>1, <1>4
  <2>2. Queue(w, 0, saved, {})
    <3>1. Queue(w, 0, saved, {} \ {f})
      BY <1>1, <2>1, Queues
    <3> QED BY <1>3, <3>1
  <2>3. t = [s EXCEPT !.chain = c, !.flow[f] = q]
    BY <1>4 DEF QueueAndAwait
  <2> HIDE DEF q, c
  <2>4. t = w /\ w.chain = c
    BY <1>2, <2>3
  <2> QED BY <1>1, <2>2, <2>4 DEF c
<1>5. Queue(With(s, f, s.chain, IdleFlow), 0, saved, {})
  <2>1. Standing(s.chain, 0, saved, IdleFlow.wait, IdleFlow) /\ IdleFlow.pc = "idle" /\ Grows(s, s.chain, saved)
    BY <1>1, IdleStands DEF Grows, IdleFlow
  <2> QED BY <1>1, <1>3, <2>1, Quietly
<1>6. ASSUME ~(dirty > saved), s.chain # <<>> PROVE Queue(t, 0, saved, {}) /\ t.chain = chain
  <2> DEFINE g == s.flow[f].gen
             u == [s.flow[f] EXCEPT !.pc = "tail"]
             q == [s.flow[f] EXCEPT !.pc = "tail", !.wait = Len(s.chain)]
             r == [pc |-> "tail", gen |-> g, wait |-> Len(s.chain)]
  <2>1. u = [pc |-> "tail", gen |-> g, wait |-> s.flow[f].wait]
    BY <1>1 DEF State
  <2>2. q = [u EXCEPT !.wait = Len(s.chain)]
    OBVIOUS
  <2>3. t = [s EXCEPT !.flow[f] = q]
    BY <1>6 DEF AwaitChain
  <2> HIDE DEF u
  <2>4. [u EXCEPT !.wait = Len(s.chain)] = r
    BY <2>1
  <2> HIDE DEF q, t
  <2>5. t = With(s, f, s.chain, q) /\ t.chain = s.chain
    <3>1. t = With(s, f, s.chain, q)
      BY <1>2, <2>3
    <3> QED BY <1>2, <3>1
  <2>6. saved = dirty /\ g \in 0..dirty
    BY <1>1, <1>6
  <2> HIDE DEF g
  <2>7. f = "publish" => "validate" \notin {}
    OBVIOUS
  <2>8. Queue(With(s, f, s.chain, r), 0, saved, {} \ {f})
    BY <1>1, <1>6, <2>6, <2>7, Joins
  <2> QED BY <1>1, <1>3, <2>2, <2>4, <2>5, <2>8
<1>7. ASSUME ~(dirty > saved), s.chain = <<>> PROVE Queue(t, 0, saved, {}) /\ t.chain = chain
  <2>1. t = IF lastOk THEN Proceed(s, f) ELSE [s EXCEPT !.flow[f] = IdleFlow]
    BY <1>7 DEF AwaitChain
  <2> DEFINE stops == f = "save" \/ (f = "publish" /\ ~CurrentValidation)
  <2>2. Proceed(s, f) = IF stops THEN With(s, f, s.chain, IdleFlow) ELSE With(s, f, s.chain, Proceeding)
    BY <1>2 DEF Proceed, Proceeding
  <2>3. ASSUME ~stops PROVE Queue(With(s, f, s.chain, Proceeding), 0, saved, {})
    <3>1. f = "publish" => valid = dirty
      BY <2>3 DEF CurrentValidation
    <3>2. Queue(With(s, f, s.chain, Proceeding), 0, saved, {} \ {f})
      BY <1>1, <1>7, <3>1, Proceeds
    <3> QED BY <1>3, <3>2
  <2> HIDE DEF t, stops
  <2>4. t = With(s, f, s.chain, IdleFlow) \/ (t = With(s, f, s.chain, Proceeding) /\ ~stops)
    BY <1>2, <2>1, <2>2
  <2>5. t.chain = s.chain
    <3>1. \A q : With(s, f, s.chain, q).chain = s.chain
      BY DEF With
    <3>2. With(s, f, s.chain, IdleFlow).chain = s.chain /\ With(s, f, s.chain, Proceeding).chain = s.chain
      BY <3>1
    <3> QED BY <2>4, <3>2
  <2>6. Queue(t, 0, saved, {})
    BY <1>5, <2>3, <2>4
  <2> QED BY <1>1, <2>5, <2>6
<1> QED BY <1>4, <1>6, <1>7 DEF s

\* A request of caller f was answered or lost: its state with another mark.
LEMMA Marked ==
    ASSUME SavesInv, NEW f \in Flows, NEW m
    PROVE  [flow EXCEPT ![f].pc = m]
             = [flow EXCEPT ![f] = [pc |-> m, gen |-> flow[f].gen, wait |-> flow[f].wait]]
<1> DEFINE o == flow[f]
<1>1. o = [pc |-> o.pc, gen |-> o.gen, wait |-> o.wait]
  BY Facts DEF State
<1>2. [o EXCEPT !.pc = m] = [pc |-> m, gen |-> o.gen, wait |-> o.wait]
  BY <1>1
<1>3. [flow EXCEPT ![f].pc = m] = [flow EXCEPT ![f] = [o EXCEPT !.pc = m]]
  OBVIOUS
<1> QED BY <1>2, <1>3

\* Such a caller, while the writer and the draft stay, or the writer is no put.
Marks(f, m) ==
    /\ UNCHANGED <<dirty, saved, valid, chain>>
    /\ flow[f].pc \in {"request", "ok", "bad"}
    /\ flow' = [flow EXCEPT ![f].pc = m]
    /\ m \in {"bad", "error"} \/ (m = "ok" /\ flow[f].pc = "request" /\ writer' # "put")
    /\ writer' = "put" => draft' = draft /\ writer = "put"

LEMMA MarksQueue ==
    ASSUME SavesInv, NEW f \in Requests, NEW m, Marks(f, m)
    PROVE  Queue([chain |-> chain, flow |-> flow], 0, saved, {})'
<1> DEFINE r == [pc |-> m, gen |-> flow[f].gen, wait |-> flow[f].wait]
           v == flow["validate"]
           p == flow["publish"]
<1>0. /\ UNCHANGED <<dirty, saved, valid, chain>>
      /\ flow[f].pc \in {"request", "ok", "bad"}
      /\ flow' = [flow EXCEPT ![f].pc = m]
      /\ m \in {"bad", "error"} \/ (m = "ok" /\ flow[f].pc = "request" /\ writer' # "put")
      /\ writer' = "put" => draft' = draft /\ writer = "put"
  BY DEF Marks
<1>1. f \in Flows /\ "validate" \in Flows /\ "publish" \in Flows /\ f \in {"validate", "publish"}
  BY DEF Flows, Requests
<1>2. flow' = [flow EXCEPT ![f] = r]
  BY <1>0, <1>1, Marked
<1>3. /\ State(r) /\ r.pc = m /\ r.gen = flow[f].gen /\ r.wait = flow[f].wait
      /\ flow[f].wait = 0 /\ r.gen \in 0..dirty
  BY <1>0, <1>1, Facts DEF State
<1> HIDE DEF r
<1>4. Overtakes(chain, 0, {}, v, p)
  BY Facts
<1>5. \A g \in Flows : flow'[g] = IF g = f THEN r ELSE flow[g]
  BY <1>2, Facts
<1>6. Overtakes(chain, 0, {}, flow["validate"], flow["publish"])'
  <2>1. CASE f = "validate"
    <3>1. flow'["validate"] = r /\ flow'["publish"] = p
      BY <1>1, <1>5, <2>1
    <3> QED BY <1>0, <1>3, <1>4, <2>1, <3>1 DEF Overtakes, Place, Entry
  <2>2. CASE f = "publish"
    <3>1. flow'["validate"] = v /\ flow'["publish"] = r
      BY <1>1, <1>5, <2>2
    <3> QED BY <1>0, <1>3, <1>4, <2>2, <3>1 DEF Overtakes, Place, Entry
  <2> QED BY <1>1, <2>1, <2>2
<1>7. r.pc \notin {"flush", "tail"}
  BY <1>0, <1>3
<1> QED BY <1>0, <1>1, <1>2, <1>3, <1>6, <1>7, AnswersQueue

LEMMA SavesStep == ASSUME SavesInv, [NextSync]_syncVars PROVE SavesInv'
<1>0. /\ dirty \in Nat /\ saved \in 0..dirty /\ chain \in Seq(Nat) /\ Len(chain) \in Nat
      /\ saved = dirty => \A i \in 1..Len(chain) : chain[i] = dirty
      /\ chain # <<>> => 1 \in 1..Len(chain) /\ Head(chain) = chain[1]
      /\ Stores
  BY Facts
<1> DEFINE v == flow["validate"]
           p == flow["publish"]
<1>a. /\ "validate" \in Flows /\ "publish" \in Flows
      /\ Overtakes(chain, 0, {}, v, p)
      /\ v.gen \in 0..dirty /\ p.gen \in 0..dirty
  BY Facts DEF Flows
<1>1. CASE Edit
  <2>1. dirty' = dirty + 1 /\ valid' = -1 /\ dirty' \in Nat
        /\ UNCHANGED <<saved, chain, flow, put, draft, writer>>
    BY <1>0, <1>1 DEF Edit, server
  <2>2. InOrder(chain, 0, saved)'
    BY <1>0, <2>1 DEF SavesInv, Queue, InOrder
  <2>3. \A f \in Flows : Standing(chain, 0, saved, Place({}, f, flow[f]), flow[f])'
    BY <1>0, <2>1, Facts DEF Standing, State, Place, Entry
  <2>4. Overtakes(chain, 0, {}, flow["validate"], flow["publish"])'
    BY <1>0, <1>a, <2>1 DEF Overtakes, Place, Entry
  <2>5. flow' = [f \in Flows |-> flow'[f]]
    BY <2>1, Facts
  <2>6. Stores'
    BY <1>0, <2>1 DEF Stores
  <2> QED BY <2>1, <2>2, <2>3, <2>4, <2>5, <2>6 DEF SavesInv, Queue
<1>2. CASE TimerFires
  <2>1. UNCHANGED <<dirty, saved, valid, flow, draft, writer>>
    BY <1>2 DEF TimerFires, server
  <2>2. Grows([chain |-> chain, flow |-> flow], chain', saved)
    BY <1>0, <1>2 DEF TimerFires, Grows
  <2>3. Queue([chain |-> chain', flow |-> flow], 0, saved, {})
    BY <2>2, GrowsAlone
  <2>4. Queue([chain |-> chain, flow |-> flow], 0, saved, {})'
    <3> DEFINE s == [chain |-> chain', flow |-> flow]
    <3>1. s.chain = chain' /\ s.flow = flow'
      BY <2>1
    <3> HIDE DEF s
    <3> QED BY <2>1, <2>3, <3>1, InstallsQueue DEF Install, s
  <2>5. Stores'
    <3>1. chain # <<>> => chain' # <<>> /\ Head(chain') = Head(chain)
      BY <1>0, <1>2 DEF TimerFires
    <3> QED BY <1>0, <1>2, <2>1, <3>1 DEF Stores, TimerFires
  <2> QED BY <1>0, <2>1, <2>4, <2>5 DEF SavesInv
<1>3. ASSUME NEW f \in Flows, Begin(f) PROVE SavesInv'
  <2> DEFINE s == [chain |-> chain, flow |-> flow]
             t == IF dirty > saved THEN QueueAndAwait(s, f) ELSE AwaitChain(s, f, lastOk)
  <2>1. Queue(t, 0, saved, {}) /\ (t.chain = chain \/ t.chain = Append(chain, dirty))
    BY BeginQueue
  <2>2. /\ Install(t) /\ put' = (IF put = "none" THEN PutAfter(t) ELSE put)
        /\ UNCHANGED <<dirty, saved, valid, draft, writer>>
    BY <1>3 DEF Begin, server
  <2> HIDE DEF t
  <2>3. Queue([chain |-> chain, flow |-> flow], 0, saved, {})'
    BY <2>1, <2>2, InstallsQueue
  <2>4. chain' = chain \/ chain' = Append(chain, dirty)
    BY <2>1, <2>2 DEF Install
  <2>5. chain # <<>> => chain' # <<>> /\ Head(chain') = Head(chain)
    BY <1>0, <2>4
  <2>6. Stores'
    BY <1>0, <2>2, <2>5 DEF Stores, Install, PutAfter
  <2> QED BY <1>0, <2>2, <2>3, <2>6 DEF SavesInv
<1>4. CASE ServePut
  <2>1. put = "request" /\ chain # <<>> /\ UNCHANGED <<dirty, saved, valid, chain, flow>>
    BY <1>0, <1>4 DEF ServePut, client, Stores
  <2>2. /\ put' \in {"ok", "error"}
        /\ \/ draft' = Head(chain) /\ writer' = "put"
           \/ put' = "error" /\ UNCHANGED <<draft, writer>>
    BY <1>4 DEF ServePut, StoreDraft
  <2>3. CASE draft' = Head(chain) /\ writer' = "put"
    <3>1. Overtakes(chain, 0, {}, flow["validate"], flow["publish"])'
      BY <1>0, <1>a, <2>1, <2>3 DEF Overtakes, Place, Entry
    <3>2. InOrder(chain, 0, saved)'
      BY <2>1 DEF SavesInv, Queue, InOrder
    <3>3. \A f \in Flows : Standing(chain, 0, saved, Place({}, f, flow[f]), flow[f])'
      BY <2>1 DEF SavesInv, Queue, Standing, State, Place, Entry
    <3>4. Queue([chain |-> chain, flow |-> flow], 0, saved, {})'
      BY <2>1, <3>1, <3>2, <3>3 DEF SavesInv, Queue
    <3>5. Stores'
      BY <1>0, <2>1, <2>2, <2>3 DEF Stores
    <3> QED BY <1>0, <2>1, <3>4, <3>5 DEF SavesInv
  <2>4. CASE put' = "error" /\ UNCHANGED <<draft, writer>>
    <3>1. Stores'
      BY <1>0, <2>1, <2>4 DEF Stores
    <3> QED BY <1>0, <2>1, <2>4, <3>1, QueueUnchanged DEF SavesInv
  <2> QED BY <2>2, <2>3, <2>4
<1>5. CASE ServeValidate
  <2>1. /\ v.pc = "request" /\ UNCHANGED <<dirty, saved, valid, chain, put>>
        /\ \E m \in {"ok", "bad", "error"} : flow' = [flow EXCEPT !["validate"].pc = m]
        /\ writer' = "validate" \/ UNCHANGED <<draft, writer>>
        /\ \/ writer' = "validate"
           \/ flow' = [flow EXCEPT !["validate"].pc = "error"]
    BY <1>5 DEF ServeValidate, StoreDraft
  <2>2. PICK m \in {"ok", "bad", "error"} : /\ flow' = [flow EXCEPT !["validate"].pc = m]
                                            /\ m = "ok" => writer' # "put"
    BY <2>1
  <2>3. Queue([chain |-> chain, flow |-> flow], 0, saved, {})'
    <3>1. m \in {"bad", "error"} \/ (m = "ok" /\ v.pc = "request" /\ writer' # "put")
      BY <2>1, <2>2
    <3>2. writer' = "put" => draft' = draft /\ writer = "put"
      BY <2>1
    <3>3. "validate" \in Requests /\ v.pc \in {"request", "ok", "bad"}
      BY <2>1 DEF Requests
    <3>4. Marks("validate", m)
      BY <2>1, <2>2, <3>1, <3>2, <3>3 DEF Marks
    <3> QED BY <3>3, <3>4, MarksQueue
  <2>4. Stores'
    BY <1>0, <2>1 DEF Stores
  <2> QED BY <1>0, <2>1, <2>3, <2>4 DEF SavesInv
<1>6. CASE ServePublish
  <2>1. /\ p.pc = "request" /\ UNCHANGED <<dirty, saved, valid, chain, put>>
        /\ writer' = "publish" \/ UNCHANGED <<draft, writer>>
        /\ \/ writer' = "publish" /\ flow' = [flow EXCEPT !["publish"].pc = "ok"]
           \/ flow' = [flow EXCEPT !["publish"].pc = "bad"]
           \/ flow' = [flow EXCEPT !["publish"].pc = "error"]
    BY <1>6 DEF ServePublish, StoreDraft
  <2>2. PICK m \in {"ok", "bad", "error"} : /\ flow' = [flow EXCEPT !["publish"].pc = m]
                                            /\ m = "ok" => writer' # "put"
    BY <2>1
  <2>3. Queue([chain |-> chain, flow |-> flow], 0, saved, {})'
    <3>1. m \in {"bad", "error"} \/ (m = "ok" /\ p.pc = "request" /\ writer' # "put")
      BY <2>1, <2>2
    <3>2. writer' = "put" => draft' = draft /\ writer = "put"
      BY <2>1
    <3>3. "publish" \in Requests /\ p.pc \in {"request", "ok", "bad"}
      BY <2>1 DEF Requests
    <3>4. Marks("publish", m)
      BY <2>1, <2>2, <3>1, <3>2, <3>3 DEF Marks
    <3> QED BY <3>3, <3>4, MarksQueue
  <2>4. Stores'
    BY <1>0, <2>1 DEF Stores
  <2> QED BY <1>0, <2>1, <2>3, <2>4 DEF SavesInv
<1>7. ASSUME NEW m \in abandoned, ServeAbandoned(m) PROVE SavesInv'
  <2>1. /\ UNCHANGED <<dirty, saved, valid, chain, flow, put>>
        /\ writer' = "abandoned" \/ UNCHANGED <<draft, writer>>
    BY <1>7 DEF ServeAbandoned, StoreDraft, client
  <2>2. Stores'
    BY <1>0, <2>1 DEF Stores
  <2> QED BY <1>0, <2>1, <2>2, QueueUnchanged DEF SavesInv
<1>8. CASE LosePut
  <2>1. /\ UNCHANGED <<dirty, saved, valid, chain, flow, draft, writer>>
        /\ put \in {"request", "ok"} /\ put' = "error"
    BY <1>8 DEF LosePut, client, server
  <2>2. Stores'
    BY <1>0, <2>1 DEF Stores
  <2> QED BY <1>0, <2>1, <2>2, QueueUnchanged DEF SavesInv
<1>9. ASSUME NEW f \in Requests, LoseFlow(f) PROVE SavesInv'
  <2>1. /\ UNCHANGED <<dirty, saved, valid, chain, put, draft, writer>>
        /\ flow[f].pc \in {"request", "ok", "bad"} /\ flow' = [flow EXCEPT ![f].pc = "error"]
    BY <1>9 DEF LoseFlow, server
  <2>2. Queue([chain |-> chain, flow |-> flow], 0, saved, {})'
    <3>1. Marks(f, "error")
      BY <2>1 DEF Marks
    <3> QED BY <3>1, MarksQueue
  <2>3. Stores'
    BY <1>0, <2>1 DEF Stores
  <2> QED BY <1>0, <2>1, <2>2, <2>3 DEF SavesInv
<1>10. CASE PutAnswered
  <2> DEFINE s0 == [chain |-> Tail(chain), flow |-> flow]
             s == SettleAll(s0, put = "ok", saved')
  <2>1. /\ put \in {"ok", "error"} /\ chain # <<>> /\ saved' = SavedByAnswer
        /\ UNCHANGED <<dirty, valid, draft, writer>>
        /\ Install(s) /\ put' = PutAfter(s)
    BY <1>0, <1>10 DEF PutAnswered, server, Stores
  <2>2. /\ saved' \in {saved, dirty}
        /\ saved' = dirty => saved = dirty \/ (put = "ok" /\ Head(chain) = dirty)
        /\ put = "ok" /\ Head(chain) = dirty => saved' = dirty
    BY <2>1 DEF SavedByAnswer
  <2>3. Queue(s0, Head(chain), saved', Flows)
    BY <1>0, <2>1, <2>2, HeadSettles DEF SavesInv
  <2>4. Queue(s, 0, saved', {})
    <3> HIDE DEF s0
    <3> QED BY <1>0, <2>2, <2>3, SettleAllKeeps
  <2> HIDE DEF s
  <2>5. Queue([chain |-> chain, flow |-> flow], 0, saved, {})'
    BY <2>1, <2>4, InstallsQueue
  <2>6. Stores'
    BY <1>0, <2>1, <2>2 DEF Stores, Install, PutAfter
  <2> QED BY <1>0, <2>1, <2>5, <2>6 DEF SavesInv
<1>11. CASE ValidateAnswered
  <2>1. /\ v.pc \in {"ok", "bad", "error"}
        /\ UNCHANGED <<dirty, saved, chain, put, draft, writer>>
        /\ valid' = -1 \/ valid' = valid \/ (valid' = dirty /\ v.pc = "ok" /\ v.gen = dirty)
        /\ flow' = [flow EXCEPT !["validate"] = IdleFlow]
    BY <1>11 DEF ValidateAnswered, server
  <2>2. flow'["validate"] = IdleFlow /\ flow'["publish"] = p
    BY <1>a, <2>1, Facts
  <2>3. State(IdleFlow) /\ IdleFlow.pc = "idle" /\ IdleFlow.wait = 0 /\ IdleFlow.gen \in 0..dirty
    BY <1>0 DEF State, IdleFlow
  <2>4. Overtakes(chain, 0, {}, flow["validate"], flow["publish"])'
    BY <1>0, <1>a, <2>1, <2>2, <2>3 DEF Overtakes, Place, Entry
  <2>5. IdleFlow.pc \notin {"flush", "tail"}
    BY <2>3
  <2>6. Queue([chain |-> chain, flow |-> flow], 0, saved, {})'
    BY <1>a, <2>1, <2>3, <2>4, <2>5, AnswersQueue
  <2>7. Stores'
    BY <1>0, <2>1 DEF Stores
  <2> QED BY <1>0, <2>1, <2>6, <2>7 DEF SavesInv
<1>12. CASE PublishAnswered
  <2> DEFINE current == p.pc = "ok" /\ p.gen = dirty
  <2>1. /\ p.pc \in {"ok", "bad", "error"}
        /\ UNCHANGED <<dirty, chain, put, draft, writer>>
        /\ saved' = (IF current THEN dirty ELSE saved)
        /\ flow' = [flow EXCEPT !["publish"] = IdleFlow]
    BY <1>12 DEF PublishAnswered, server
  <2>2. /\ flow'["publish"] = IdleFlow /\ flow'["validate"] = v
        /\ flow' = [f \in Flows |-> flow'[f]]
        /\ \A f \in Flows : f # "publish" => flow'[f] = flow[f]
    BY <1>a, <2>1, Facts
  <2>3. State(IdleFlow) /\ IdleFlow.pc = "idle" /\ IdleFlow.wait = 0 /\ IdleFlow.gen = 0
    BY DEF State, IdleFlow
  <2>4. Overtakes(chain, 0, {}, flow["validate"], flow["publish"])'
    BY <1>0, <1>a, <2>1, <2>2, <2>3 DEF Overtakes
  <2>5. current => \A i \in 1..Len(chain) : chain[i] = dirty
    BY <1>a DEF Overtakes
  <2>6. saved' \in 0..dirty /\ saved <= saved' /\ saved' = dirty => \A i \in 1..Len(chain) : chain[i] = dirty
    BY <1>0, <2>1, <2>5
  <2>7. InOrder(chain, 0, saved)'
    BY <1>0, <2>1, <2>5 DEF SavesInv, Queue, InOrder
  <2>8. ASSUME NEW f \in Flows
        PROVE  Standing(chain, 0, saved, Place({}, f, flow[f]), flow[f])'
    <3>1. CASE f = "publish"
      BY <1>0, <2>1, <2>2, <2>3, <3>1 DEF Standing, State, Place
    <3>2. CASE f # "publish"
      <4>1. Standing(chain, 0, saved, Place({}, f, flow[f]), flow[f])
        BY Facts
      <4> DEFINE k == Place({}, f, flow[f])
      <4>2. flow[f].pc = "tail" => k \in 1..Len(chain) /\ Entry(chain, 0, k) = chain[k]
                                   /\ chain[k] \in Nat
        <5>1. flow[f].pc = "tail" => flow[f].wait \in Nat /\ flow[f].wait > 0 /\ k = flow[f].wait
                                     /\ k \in 0..Len(chain)
          BY <4>1 DEF Standing, Place
        <5> QED BY <1>0, <5>1 DEF Entry
      <4>3. flow[f].pc = "tail" => Entry(chain, 0, k) <= saved'
        <5> HIDE DEF k
        <5>1. flow[f].pc = "tail" => Entry(chain, 0, k) <= saved
          BY <4>1 DEF Standing, k
        <5>2. saved' \in Nat /\ saved \in Nat /\ saved <= saved'
          BY <1>0, <2>1
        <5> QED BY <4>2, <5>1, <5>2
      <4>4. Standing(chain, 0, saved', k, flow[f])
        <5> HIDE DEF k
        <5> QED BY <4>1, <4>3 DEF Standing, k
      <4>5. flow'[f] = flow[f] /\ chain' = chain /\ dirty' = dirty
        BY <2>1, <2>2, <3>2
      <4> QED BY <4>4, <4>5 DEF Standing, State, Place, Entry
    <3> QED BY <3>1, <3>2
  <2>9. Queue([chain |-> chain, flow |-> flow], 0, saved, {})'
    BY <2>2, <2>4, <2>7, <2>8 DEF Queue
  <2>10. Stores'
    BY <1>0, <1>a, <2>1 DEF Stores, Overtakes
  <2> QED BY <1>0, <2>1, <2>9, <2>10 DEF SavesInv
<1>13. CASE UNCHANGED syncVars
  <2>1. UNCHANGED <<dirty, saved, valid, chain, flow, put, draft, writer>>
    BY <1>13 DEF syncVars, client, server
  <2>2. Stores'
    BY <1>0, <2>1 DEF Stores
  <2> QED BY <1>0, <2>1, <2>2, QueueUnchanged DEF SavesInv
<1>14. Buttons \subseteq Flows
  BY ButtonsAssumption
<1> QED
  BY <1>1, <1>2, <1>3, <1>4, <1>5, <1>6, <1>7, <1>8, <1>9, <1>10, <1>11, <1>12, <1>13, <1>14
  DEF NextSync

\* The queue of saves stays in the order of the edits, and every caller waits
\* in it for the save that it needs, in every reachable state.
THEOREM SavesInvariant == SpecSync => []SavesInv
<1>1. InitSync => SavesInv
  <2> SUFFICES ASSUME InitSync PROVE SavesInv
    OBVIOUS
  <2>1. /\ dirty = 0 /\ saved = 0 /\ valid = -1 /\ chain = <<>> /\ put = "none"
        /\ flow = [f \in Flows |-> IdleFlow] /\ draft = 0 /\ writer = "put"
    BY DEF InitSync
  <2>2. State(IdleFlow) /\ IdleFlow.pc = "idle" /\ IdleFlow.wait = 0 /\ IdleFlow.gen = 0
    BY DEF State, IdleFlow
  <2>3. InOrder(chain, 0, saved)
    BY <2>1 DEF InOrder
  <2>4. \A f \in Flows : Standing(chain, 0, saved, Place({}, f, flow[f]), flow[f])
    BY <2>1, <2>2 DEF Standing
  <2>5. Overtakes(chain, 0, {}, flow["validate"], flow["publish"])
    <3>1. flow["validate"] = IdleFlow /\ flow["publish"] = IdleFlow
      BY <2>1 DEF Flows
    <3> QED BY <2>2, <3>1 DEF Overtakes
  <2>6. Stores
    BY <2>1 DEF Stores
  <2> QED BY <2>1, <2>3, <2>4, <2>5, <2>6 DEF SavesInv, Queue
<1>2. SavesInv /\ [NextSync]_syncVars => SavesInv'
  BY SavesStep
<1> QED BY <1>1, <1>2, PTL DEF SpecSync

\* Whatever fails and whichever buttons are pressed while saves are under way:
\* when the page shows no unsaved change and a save of its own wrote last, the
\* stored draft is the newest edit.  That no publication is answered ahead of
\* the save of an older draft is what the proof has to show.
THEOREM SavesLoseNothing == SpecSync => []SavesAloneLoseNothing
<1>1. SavesInv => SavesAloneLoseNothing
  BY Facts DEF SavesAloneLoseNothing, HasUnsavedChanges, Stores
<1> QED BY <1>1, SavesInvariant, PTL
=============================================================================
