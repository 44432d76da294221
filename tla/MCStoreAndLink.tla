---------------------------- MODULE MCStoreAndLink ----------------------------
(***************************************************************************)
(* The stored rulesets (RulesetStore) and the link under which a           *)
(* subscription is fetched (Subscription).  They share no state at this    *)
(* level of detail, so a behaviour follows one of them, chosen at the      *)
(* start, and the instance has the sum of their states.                    *)
(***************************************************************************)
EXTENDS RulesetStore, Subscription, TLC

VARIABLE part

allVars == <<part, vars, linkVars>>

\* A part that rests stays in one of its states.
StoreRests ==
    /\ account = "enabled" /\ draft = {} /\ published = {} /\ disk = {} /\ trash = {}
    /\ readable = TRUE /\ marker = [f \in Files |-> "none"] /\ lock = None
    /\ req = [p \in Procs |-> Idle]
LinkRests ==
    /\ row = [u \in Users |-> [status |-> "deleted", token |-> Nil, type |-> "base",
                               yaml |-> NoYaml]]
    /\ issued = 0 /\ cache = <<>> /\ changes = 0
    /\ request = [p \in ApiThreads |-> IdleThread] /\ seen = [p \in ApiThreads |-> {}]

InitParts ==
    /\ part \in {"store", "link"}
    /\ IF part = "store" THEN Init ELSE StoreRests
    /\ IF part = "link" THEN InitLink ELSE LinkRests

NextParts ==
    \/ /\ UNCHANGED part
       /\ \/ part = "store" /\ Next /\ UNCHANGED linkVars
          \/ part = "link" /\ NextLink /\ UNCHANGED vars
    \* Only the store must always have something to do.
    \/ part = "link" /\ UNCHANGED allVars

SpecParts == InitParts /\ [][NextParts]_allVars

\* The threads of both parts are the same model values.
Symmetry == Permutations(Files) \cup Permutations(Temps) \cup Permutations(Procs)
=============================================================================
