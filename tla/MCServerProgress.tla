--------------------------- MODULE MCServerProgress ---------------------------
(***************************************************************************)
(* The parts of the server that work beside each other without sharing     *)
(* state, each checked for what it must never do and for what it must      *)
(* bring to an end.  A behaviour follows one of them, chosen at the start, *)
(* while the others rest: the instance has the sum of their states.        *)
(***************************************************************************)
EXTENDS StreamlitSession, ExternalFetch, MihomoValidator, RulesetUpdater

CONSTANTS f1, t1, t2

VARIABLES part,
    account, draft, published, readable, disk, marker, trash, storeLock, req

storeVars == <<account, draft, published, readable, disk, marker, trash, storeLock, req>>
allVars == <<part, storeVars, downloadVars, validatorVars, updaterVars, vars>>

Store == INSTANCE RulesetStore WITH
    None <- NoProc, Files <- {f1}, Temps <- {t1, t2}, MaxFiles <- 2, lock <- storeLock

ASSUME /\ Store!ConstantsAssumption /\ Store!TempsAssumption
       /\ FetchAssumption /\ ValidatorAssumption /\ UpdaterAssumption

Parts == {"store", "fetch", "validator", "updater", "streamlit"}

\* A part that rests has nothing to do.
StoreRests ==
    /\ account = "gone" /\ draft = {} /\ published = {} /\ disk = {} /\ trash = {}
    /\ readable = TRUE /\ marker = [f \in {f1} |-> "none"] /\ storeLock = NoProc
    /\ req = [p \in Procs |-> Store!Idle]
FetchRests ==
    /\ pc = "done" /\ timer = "over" /\ result = "error"
    /\ hop = 0 /\ conn = 0 /\ total = 0 /\ truncated = FALSE /\ late = TRUE
    /\ addresses = {} /\ doomed = {} /\ sockets = {}
    /\ openDups = {} /\ closing = {} /\ cut = {}
    /\ expired = FALSE /\ closed = TRUE
ValidatorRests ==
    /\ setup = [enabled |-> FALSE, binary |-> FALSE, writable |-> FALSE]
    /\ lockFile = TRUE /\ present = {} /\ lock = NoProc /\ scratch = {}
    /\ job = [p \in Procs |-> Idle]
UpdaterRests ==
    /\ caller = [c \in Processes \X Callers |-> "done"]
    /\ started = [w \in Processes |-> FALSE]
    /\ loops = [w \in Processes |-> 0]
    /\ worker = [w \in Processes |-> Sleeping]
    /\ cache = [f \in Files |-> "absent"] /\ crashes = 0
    /\ temp = [t \in Processes \X Files |-> "absent"]
StreamlitRests ==
    /\ db = [draft |-> Other("ok"), status |-> "unknown", yaml |-> Nothing]
    /\ signedIn = FALSE /\ nodes = <<>> /\ conf = "ok" /\ counted = 0
    /\ persisted = <<nodes, conf, counted>>
    /\ checked = Nothing /\ editor = Nothing
    /\ run = "closed" /\ click = Nothing /\ events = 0
    /\ screen = [count |-> 0, editing |-> 0, publish |-> FALSE]

InitParts ==
    /\ part \in Parts
    /\ IF part = "store" THEN Store!Init ELSE StoreRests
    /\ IF part = "fetch" THEN InitFetch ELSE FetchRests
    /\ IF part = "validator" THEN InitValidator ELSE ValidatorRests
    /\ IF part = "updater" THEN InitUpdater ELSE UpdaterRests
    /\ IF part = "streamlit" THEN Init ELSE StreamlitRests

NextParts ==
    /\ UNCHANGED part
    /\ \/ /\ part = "store" /\ Store!Next
          /\ UNCHANGED <<downloadVars, validatorVars, updaterVars, vars>>
       \/ /\ part = "fetch" /\ NextFetch
          /\ UNCHANGED <<storeVars, validatorVars, updaterVars, vars>>
       \/ /\ part = "validator" /\ NextValidator
          /\ UNCHANGED <<storeVars, downloadVars, updaterVars, vars>>
       \/ /\ part = "updater" /\ NextUpdater
          /\ UNCHANGED <<storeVars, downloadVars, validatorVars, vars>>
       \/ /\ part = "streamlit" /\ Next
          /\ UNCHANGED <<storeVars, downloadVars, validatorVars, updaterVars>>

FairnessParts == Store!Fairness /\ FairnessFetch /\ FairnessValidator /\ FairnessUpdater
                 /\ Fairness

SpecParts == InitParts /\ [][NextParts]_allVars /\ FairnessParts

-----------------------------------------------------------------------------
\* No ruleset lock and no download lock is kept by a request that failed, was
\* killed by its timeout or ended: whoever takes one gives it back.
LocksReleased == Store!LockReleased /\ DownloadLockReleased

\* EveryRulesetIsTried of RulesetUpdater, in the behaviours of that part.
EveryRulesetIsTriedAgain == part = "updater" => EveryRulesetIsTried
=============================================================================
