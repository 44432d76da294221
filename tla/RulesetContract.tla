---------------------------- MODULE RulesetContract ----------------------------
(***************************************************************************)
(* What the ruleset store promises a user, without requests, locks,        *)
(* processes, partial writes or crashes: a version is stored whole, stays  *)
(* while a configuration names it or an upload still reserves it, and a    *)
(* reservation is given up for a durable reference only.  RulesetStore     *)
(* implements this specification (Implements, there).                      *)
(***************************************************************************)
CONSTANT Versions   \* immutable versions of rulesets

VARIABLES
    account,        \* whether the account accepts changes
    stored,         \* versions that can be served whole
    named,          \* versions the saved or the published configuration names
    reserved        \* uploads whose time to be named has not run out

contract == <<account, stored, named, reserved>>

Open ==
    /\ account = "enabled"
    /\ stored \in SUBSET Versions
    /\ named \in SUBSET stored
    /\ reserved = {}

\* A version appears in one step.  A configuration that cannot be read names
\* whatever is stored, the new version included.
Store(f) ==
    /\ account = "enabled"
    /\ stored' = stored \cup {f}
    /\ named' \in {named, named \cup {f}}
    /\ UNCHANGED <<account, reserved>>

Hold(f) ==
    /\ account = "enabled"
    /\ f \in stored
    /\ reserved' = reserved \cup {f}
    /\ UNCHANGED <<account, stored, named>>

\* A draft is saved or a configuration published.
Name(b) ==
    /\ account = "enabled"
    /\ named' = b
    /\ UNCHANGED <<account, stored, reserved>>

\* Reservations are given up together, for versions named or not stored.
HandOver(s) ==
    /\ s \subseteq named \cup (Versions \ stored)
    /\ reserved' = reserved \ s
    /\ UNCHANGED <<account, stored, named>>

\* The only way a version disappears without being asked for.
Collect(f) ==
    /\ f \in stored \ (named \cup reserved)
    /\ stored' = stored \ {f}
    /\ UNCHANGED <<account, named, reserved>>

\* The user deletes a version that no configuration names.
Delete(f) ==
    /\ account = "enabled"
    /\ f \in stored \ named
    /\ stored' = stored \ {f}
    /\ UNCHANGED <<account, named, reserved>>

TimeOut(f) ==
    /\ reserved' = reserved \ {f}
    /\ UNCHANGED <<account, stored, named>>

Switch ==
    /\ account # "gone"
    /\ account' = IF account = "enabled" THEN "disabled" ELSE "enabled"
    /\ UNCHANGED <<stored, named, reserved>>

\* The account goes first, with its configuration; then what it stored.
Retire ==
    /\ account # "gone"
    /\ account' = "gone"
    /\ named' = {}
    /\ UNCHANGED <<stored, reserved>>

Clear ==
    /\ account = "gone"
    /\ \/ stored' = {} /\ UNCHANGED reserved
       \/ reserved' = {} /\ UNCHANGED stored
    /\ UNCHANGED <<account, named>>

Change ==
    \/ \E f \in Versions : Store(f) \/ Hold(f) \/ Collect(f) \/ Delete(f) \/ TimeOut(f)
    \/ \E b \in SUBSET Versions : Name(b) \/ HandOver(b)
    \/ Switch
    \/ Retire
    \/ Clear

Contract == Open /\ [][Change]_contract
=============================================================================
