-------------------------- MODULE MihomoValidator --------------------------
(***************************************************************************)
(* validate_with_mihomo of src/src/mihomo_validator.py: requests of both   *)
(* processes that test a configuration with the kernel in one shared       *)
(* directory, which the first of them has to fill with geodata.  The       *)
(* kernel is external: it downloads what it needs and misses, then exits   *)
(* or is killed when its time is up.                                       *)
(***************************************************************************)
EXTENDS Naturals, FiniteSets

CONSTANTS
    Procs,      \* requests that validate
    Databases,  \* the geodata files: geoip, geosite, asn
    NoProc      \* nobody holds the lock

ValidatorAssumption == NoProc \notin Procs

VARIABLES
    setup,      \* the environment: validation enabled, binary found, home writable
    lockFile,   \* the lock file can be opened
    present,    \* geodata in MIHOMO_HOME
    lock,       \* holder of the flock on .geodata.lock
    job,        \* job[p]: the validation of request p
    scratch     \* temporary files and directories that exist, by request

validatorVars == <<setup, lockFile, present, lock, job, scratch>>

Idle == [pc |-> "idle", needs |-> {}, status |-> "none", first |-> FALSE, shared |-> TRUE,
         fetching |-> {}]

Statuses == {"none", "skipped", "missing", "passed", "failed", "timeout", "error", "raised"}

TypeOKValidator ==
    /\ setup \in [enabled : BOOLEAN, binary : BOOLEAN, writable : BOOLEAN]
    /\ lockFile \in BOOLEAN
    /\ present \subseteq Databases
    /\ lock \in Procs \cup {NoProc}
    /\ job \in [Procs -> [pc : {"idle", "home", "look", "wait", "again", "start",
                                "kernel", "clean", "done"},
                          needs : SUBSET Databases, status : Statuses,
                          first : BOOLEAN, shared : BOOLEAN, fetching : SUBSET Databases]]
    /\ scratch \subseteq Procs \X {"config", "home"}

InitValidator ==
    /\ setup \in [enabled : BOOLEAN, binary : BOOLEAN, writable : BOOLEAN]
    /\ lockFile \in BOOLEAN
    /\ present \in SUBSET Databases
    /\ lock = NoProc /\ scratch = {}
    /\ job = [p \in Procs |-> Idle]

\* job[p] with its pc and one more field changed.
Proceed(p, step) == job' = [job EXCEPT ![p].pc = step]
Result(p, status, step) == job' = [job EXCEPT ![p].pc = step, ![p].status = status]

\* What _required_geodata_missing finds for a configuration.
Missing(p) == ~(job[p].needs \subseteq present)

-----------------------------------------------------------------------------
\* The early returns, or the configuration written to a temporary file.
Begin(p) ==
    /\ job[p].pc \in {"idle", "done"} /\ job[p].status # "raised"
    /\ \/ ~setup.enabled /\ Result(p, "skipped", "done") /\ UNCHANGED scratch
       \/ setup.enabled /\ ~setup.binary /\ Result(p, "missing", "done") /\ UNCHANGED scratch
       \/ /\ setup.enabled /\ setup.binary
          /\ \E needs \in SUBSET Databases :
               job' = [job EXCEPT ![p] = [Idle EXCEPT !.pc = "home", !.needs = needs]]
          /\ scratch' = scratch \cup {<<p, "config">>}
    /\ UNCHANGED <<setup, lockFile, present, lock>>

\* _mihomo_home_dir: the shared directory, or a temporary one of its own,
\* which is empty and downloads under the usual timeout.  When that cannot be
\* made either, the exception leaves before the try statement.
ChooseHome(p) ==
    /\ job[p].pc = "home"
    /\ \/ setup.writable /\ Proceed(p, "look") /\ UNCHANGED scratch
       \/ /\ ~setup.writable
          /\ job' = [job EXCEPT ![p].pc = "start", ![p].shared = FALSE]
          /\ scratch' = scratch \cup {<<p, "home">>}
       \/ ~setup.writable /\ Result(p, "raised", "done") /\ UNCHANGED scratch
    /\ UNCHANGED <<setup, lockFile, present, lock>>

\* The look before the lock.  Without a lock file nobody waits.
Look(p) ==
    /\ job[p].pc = "look"
    /\ Proceed(p, CASE ~Missing(p) -> "start" [] Missing(p) /\ lockFile -> "wait" [] OTHER -> "again")
    /\ UNCHANGED <<setup, lockFile, present, lock, scratch>>

LockFreeUnchecked == TRUE
LockFree == lock = NoProc
Lock(p) ==
    /\ job[p].pc = "wait" /\ LockFree
    /\ lock' = p
    /\ Proceed(p, "again")
    /\ UNCHANGED <<setup, lockFile, present, scratch>>

\* The look under the lock: only a run that has to download gets more time.
LookAgain(p) ==
    /\ job[p].pc = "again"
    /\ job' = [job EXCEPT ![p].pc = "start", ![p].first = Missing(p)]
    /\ UNCHANGED <<setup, lockFile, present, lock, scratch>>

\* _run_mihomo.  The kernel downloads what this configuration needs and its
\* directory lacks.
StartKernel(p) ==
    /\ job[p].pc = "start"
    /\ job' = [job EXCEPT ![p].pc = "kernel",
                          ![p].fetching = job[p].needs \ (IF job[p].shared THEN present ELSE {})]
    /\ UNCHANGED <<setup, lockFile, present, lock, scratch>>

UnlockUnlessKilled(p, status) == IF lock = p /\ status # "timeout" THEN NoProc ELSE lock
\* Leaving the with statement of _geodata_download_lock, on every path.
Unlock(p, status) == IF lock = p THEN NoProc ELSE lock

\* The kernel accepts the configuration with its downloads in place, rejects
\* it, is killed by the timeout after any of its downloads, or cannot be run.
Finish(p) ==
    /\ job[p].pc = "kernel"
    /\ \E status \in {"passed", "failed", "timeout", "error"}, got \in SUBSET job[p].fetching :
         /\ status = "passed" => got = job[p].fetching
         /\ status = "error" => got = {}
         /\ Result(p, status, "clean")
         /\ present' = IF job[p].shared THEN present \cup got ELSE present
         /\ lock' = Unlock(p, status)
    /\ UNCHANGED <<setup, lockFile, scratch>>

TempAfterResultOnly(p) == IF job[p].status = "timeout" THEN scratch ELSE scratch \ ({p} \X {"config", "home"})
\* The finally block.
TempAfter(p) == scratch \ ({p} \X {"config", "home"})
Clean(p) ==
    /\ job[p].pc = "clean"
    /\ scratch' = TempAfter(p)
    /\ Proceed(p, "done")
    /\ UNCHANGED <<setup, lockFile, present, lock>>

Validate(p) == \/ ChooseHome(p) \/ Look(p) \/ Lock(p) \/ LookAgain(p)
               \/ StartKernel(p) \/ Finish(p) \/ Clean(p)

NextValidator == \E p \in Procs : Begin(p) \/ Validate(p)

\* A validation runs on: the kernel exits or is killed.  flock is not FIFO, so
\* a waiter is owed nothing.
FairnessValidator == \A p \in Procs : WF_validatorVars(Validate(p))
SpecValidator == InitValidator /\ [][NextValidator]_validatorVars /\ FairnessValidator

-----------------------------------------------------------------------------
InKernel(p) == job[p].pc = "kernel" /\ job[p].shared

\* Two kernels never download the same file into the shared directory at
\* once, as long as the lock file can be opened: whoever looked before
\* another one's download ended looks again under the lock.
DownloadsDoNotOverlap ==
    lockFile => \A p, q \in Procs :
        p # q /\ InKernel(p) /\ InKernel(q) => job[p].fetching \cap job[q].fetching = {}

\* A kernel that has to download into the shared directory gets the longer
\* timeout; one that waited while another downloaded for it does not.
TimeForDownloads ==
    \A p \in Procs : InKernel(p) =>
        /\ job[p].fetching # {} => job[p].first
        /\ lockFile /\ job[p].first => job[p].fetching # {}

\* A validation that returns has removed its temporary files.
TemporariesRemoved ==
    \A p \in Procs : job[p].pc = "done" /\ job[p].status # "raised" =>
        ~\E t \in scratch : t[1] = p

\* The download lock is given back, also when the kernel had to be killed.
DownloadLockReleased == lock # NoProc ~> lock = NoProc
=============================================================================
