--------------------------- MODULE RulesetUpdater ---------------------------
(***************************************************************************)
(* src/src/ruleset_updater.py: the thread that downloads the public        *)
(* rulesets into the cache that GET /ruleset serves, whose start calls may *)
(* race within a process.                                                  *)
(***************************************************************************)
EXTENDS Naturals

CONSTANTS
    Processes,
    Callers,    \* threads of a process that call start_ruleset_update_worker
    Rulesets,   \* how many files: the order of sorted(source_urls.items()) is 1..Rulesets
    MaxCrashes  \* bound: processes that die

UpdaterAssumption == Rulesets \in Nat \ {0} /\ MaxCrashes \in Nat

VARIABLES
    caller,     \* <<process, caller>> |-> idle, in _START_LOCK, done
    started,    \* process |-> _STARTED
    loops,      \* process |-> threads running _background_loop
    worker,     \* process |-> step and number of the file in hand
    cache,      \* file |-> what the cache serves under its name
    temp,       \* temporary files: <<process, file>> |-> contents
    crashes

updaterVars == <<caller, started, loops, worker, cache, temp, crashes>>

Files == 1..Rulesets
File(w) == worker[w].at
Sleeping == [pc |-> "sleep", at |-> 1]
Contents == {"absent", "empty", "part", "whole"}

\* Types.  A process never runs two update threads, which would download
\* everything twice.
TypeOKUpdater ==
    /\ caller \in [Processes \X Callers -> {"idle", "locked", "done"}]
    /\ started \in [Processes -> BOOLEAN] /\ loops \in [Processes -> 0..1]
    /\ worker \in [Processes -> [pc : {"sleep", "get", "write", "more", "replace", "drop"},
                                 at : Files]]
    /\ cache \in [Files -> Contents]
    /\ temp \in [Processes \X Files -> Contents]
    /\ crashes \in 0..MaxCrashes

InitUpdater ==
    /\ caller = [c \in Processes \X Callers |-> "idle"]
    /\ started = [w \in Processes |-> FALSE] /\ loops = [w \in Processes |-> 0]
    /\ worker = [w \in Processes |-> Sleeping]
    /\ cache \in [Files -> {"absent", "whole"}]
    /\ temp = [t \in Processes \X Files |-> "absent"] /\ crashes = 0

\* start_ruleset_update_worker: _START_LOCK makes the test and the assignment
\* one step.
Enter(c) ==
    /\ caller[c] = "idle" /\ \A d \in Callers : caller[<<c[1], d>>] # "locked"
    /\ caller' = [caller EXCEPT ![c] = "locked"]
    /\ UNCHANGED <<started, loops, worker, cache, temp, crashes>>

MayStart(w) == ~started[w]
Start(c) ==
    /\ caller[c] = "locked"
    /\ caller' = [caller EXCEPT ![c] = "done"]
    /\ loops' = [loops EXCEPT ![c[1]] = IF MayStart(c[1]) THEN @ + 1 ELSE @]
    /\ started' = [started EXCEPT ![c[1]] = TRUE]
    /\ UNCHANGED <<worker, cache, temp, crashes>>

-----------------------------------------------------------------------------
(* update_dustinwin_rulesets, one file after the other.                    *)

Go(w, pc) == worker' = [worker EXCEPT ![w].pc = pc]
NextFileOrStop(w) == worker' = [worker EXCEPT ![w] = Sleeping]
\* After a file, updated or not, comes the next one; after the last, sleep.
NextFile(w) ==
    worker' = [worker EXCEPT ![w] =
        IF @.at < Rulesets THEN [pc |-> "get", at |-> @.at + 1] ELSE Sleeping]

Wake(w) ==
    /\ worker[w].pc = "sleep" /\ loops[w] > 0
    /\ Go(w, "get") /\ UNCHANGED <<temp, cache>>

\* requests.get: failed, empty, or a body and a temporary file for it.
Get(w) ==
    /\ worker[w].pc = "get"
    /\ \/ Go(w, "drop") /\ UNCHANGED temp
       \/ Go(w, "write") /\ temp' = [temp EXCEPT ![<<w, File(w)>>] = "empty"]
    /\ UNCHANGED cache

Write(w) ==
    /\ worker[w].pc \in {"write", "more"}
    /\ \/ /\ temp' = [temp EXCEPT ![<<w, File(w)>>] =
                        IF worker[w].pc = "write" THEN "part" ELSE "whole"]
          /\ Go(w, IF worker[w].pc = "write" THEN "more" ELSE "replace")
       \/ Go(w, "drop") /\ UNCHANGED temp           \* the disk is full
    /\ UNCHANGED cache

Replace(w) ==
    /\ worker[w].pc = "replace"
    /\ \/ /\ cache' = [cache EXCEPT ![File(w)] = temp[<<w, File(w)>>]]
          /\ temp' = [temp EXCEPT ![<<w, File(w)>>] = "absent"]
          /\ NextFile(w)
       \/ Go(w, "drop") /\ UNCHANGED <<temp, cache>>

KeptOnFailureMoved(w) == [cache EXCEPT ![File(w)] = temp[<<w, File(w)>>]]
\* A download that failed leaves the cached file as it was.
KeptOnFailure(w) == cache
Drop(w) ==
    /\ worker[w].pc = "drop"
    /\ cache' = KeptOnFailure(w)
    /\ temp' = [temp EXCEPT ![<<w, File(w)>>] = "absent"]
    /\ NextFile(w)

Work(w) == /\ Wake(w) \/ Get(w) \/ Write(w) \/ Replace(w) \/ Drop(w)
           /\ UNCHANGED <<caller, started, loops, crashes>>

\* The process ends and comes back; what it was writing stays behind under a
\* name that is never used again.
Crash(w) ==
    /\ crashes < MaxCrashes /\ crashes' = crashes + 1
    /\ caller' = [c \in Processes \X Callers |-> IF c[1] = w THEN "idle" ELSE caller[c]]
    /\ started' = [started EXCEPT ![w] = FALSE] /\ loops' = [loops EXCEPT ![w] = 0]
    /\ worker' = [worker EXCEPT ![w] = Sleeping]
    /\ UNCHANGED <<cache, temp>>

NextUpdater == \/ \E c \in Processes \X Callers : Enter(c) \/ Start(c)
               \/ \E w \in Processes : Work(w) \/ Crash(w)

\* Threads run, requests time out, sleeps end.
FairnessUpdater ==
    /\ \A c \in Processes \X Callers : WF_updaterVars(Enter(c) \/ Start(c))
    /\ \A w \in Processes : WF_updaterVars(Work(w))
SpecUpdater == InitUpdater /\ [][NextUpdater]_updaterVars /\ FairnessUpdater

-----------------------------------------------------------------------------
\* A reader gets a whole ruleset or none, whatever failed or crashed while it
\* was downloaded.
ServedRulesetsAreWhole == \A f \in Files : cache[f] \in {"absent", "whole"}

\* Every ruleset is tried again and again, however often another one fails.
EveryRulesetIsTried ==
    \A w \in Processes : \A i \in Files :
        []<>(worker[w] = [pc |-> "get", at |-> i])
=============================================================================
