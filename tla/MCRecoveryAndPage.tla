--------------------------- MODULE MCRecoveryAndPage ---------------------------
(***************************************************************************)
(* The recovery of the stored files when the server starts                 *)
(* (RulesetRecovery), the login state of a page (TabSession) and the nodes *)
(* of the draft on it (DraftContents).  They share no state at this level  *)
(* of detail, so a behaviour follows one of them, chosen at the start, and *)
(* the instance has the sum of their states.                               *)
(***************************************************************************)
EXTENDS RulesetRecovery, TabSession, DraftContents, TLC

VARIABLE part

allVars == <<part, vars, tabVars, pageVars>>

\* A part that rests stays in one state, a recovery in an initial one.
TabRests ==
    /\ owner = <<>> /\ live = {} /\ cookie = 0 /\ reqs = <<>> /\ started = 0
    /\ drafts = [x \in Accounts |-> Nobody] /\ tab = [user |-> Nobody, csrf |-> 0]
PageRests ==
    /\ list = <<>> /\ options = Base /\ dirty = FALSE
    /\ corrupted = FALSE /\ agreed = FALSE
    /\ form = NoForm /\ import = [pc |-> "idle"] /\ put = [pc |-> "none"]
    /\ stored = [nodes |-> <<>>, options |-> Base] /\ published = stored
    /\ events = 0

InitParts ==
    /\ part \in {"recovery", "tab", "page"}
    /\ Init
    /\ IF part = "tab" THEN InitTab ELSE TabRests
    /\ IF part = "page" THEN InitPage ELSE PageRests

NextParts ==
    /\ UNCHANGED part
    /\ \/ part = "recovery" /\ Next /\ UNCHANGED <<tabVars, pageVars>>
       \/ part = "tab" /\ NextTab /\ UNCHANGED <<vars, pageVars>>
       \/ part = "page" /\ NextPage /\ UNCHANGED <<vars, tabVars>>

SpecParts == InitParts /\ [][NextParts]_allVars

\* The accounts of the page are model values of the tombstones: a permutation
\* of them is one of every part.
Symmetry == Permutations(Dbs) \cup Permutations(Procs) \cup Permutations(Tombs)
=============================================================================
