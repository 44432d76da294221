---------------------------- MODULE MCSignInAndSave ----------------------------
(***************************************************************************)
(* Three protocols between a client and the server: signing in and the     *)
(* accounts (Accounts), the two limits of a client's address               *)
(* (LoginThrottle) and the saves of one page (DraftSync).  They share no   *)
(* state, so a behaviour follows one of them and the instance has the sum  *)
(* of their states.  The first two may stop where their bounds end them,   *)
(* the page may not: its deadlocks are errors.                             *)
(***************************************************************************)
EXTENDS Accounts, LoginThrottle, DraftSync

VARIABLE part

ASSUME ThrottleAssumption

allVars == <<part, vars, throttleVars, syncVars>>

InitParts == /\ part \in {"accounts", "throttle", "saves"}
             /\ Init /\ InitThrottle /\ InitSync

NextParts ==
    \/ /\ UNCHANGED part
       /\ \/ part = "accounts" /\ Next /\ UNCHANGED <<throttleVars, syncVars>>
          \/ part = "throttle" /\ NextThrottle /\ UNCHANGED <<vars, syncVars>>
          \/ part = "saves" /\ NextSync /\ UNCHANGED <<vars, throttleVars>>
    \/ part # "saves" /\ UNCHANGED allVars

\* The parts that rest are in their initial states, where no step is owed.
SpecParts == /\ InitParts
             /\ [][NextParts]_allVars
             /\ \A p \in Procs : WF_vars(Step(p))
             /\ Fairness
=============================================================================
