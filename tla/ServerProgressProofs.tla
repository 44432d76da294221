-------------------------- MODULE ServerProgressProofs --------------------------
(***************************************************************************)
(* Proofs about the parts of the server that work beside each other, for   *)
(* any values of their constants: ExternalFetch (what was cut is not       *)
(* returned, no socket leaks), MihomoValidator (downloads do not overlap,  *)
(* the time limit fits, files are removed), RulesetUpdater (served files   *)
(* are whole) and StreamlitSession (what is published has passed, and who  *)
(* stores a draft as passed).                                              *)
(***************************************************************************)
EXTENDS StreamlitSession, ExternalFetch, MihomoValidator, RulesetUpdater, TLAPS

-----------------------------------------------------------------------------
(* ExternalFetch                                                           *)
\* The deadline has passed before anything is cut, and a body that ended
\* because of it is thrown away by the last test.
Deadlines ==
    /\ timer = "firing" => late
    /\ expired => late
    /\ pc = "refuse" => expired
    /\ cut # {} => late
    /\ truncated => late
    /\ result = "ok" => pc \in {"cancel", "swap", "close", "done"} /\ ~truncated

\* Who will close an open duplicate: the list, close() on its own list, or the
\* thread that is about to register it.
Descriptors ==
    /\ openDups \subseteq sockets \cup closing
                    \cup (IF pc \in {"register", "refuse"} THEN {conn} ELSE {})
    /\ closing # {} => pc = "close"
    /\ pc \in {"close", "done"} => sockets = {}
    /\ closed => pc \in {"close", "done"}

FInv == Deadlines /\ Descriptors

\* Every step of either thread keeps both parts; the fetching thread first.
LEMMA FetchThreadKeeps == ASSUME FInv, Fetch PROVE FInv'
<1> USE DEF FInv, Deadlines, Descriptors, guardVars, End
<1>1. CASE Resolve
  BY <1>1 DEF Resolve
<1>2. CASE GiveUp
  BY <1>2 DEF GiveUp
<1>3. CASE Connect
  BY <1>3 DEF Connect
<1>4. CASE Duplicate
  BY <1>4 DEF Duplicate
<1>5. CASE Register
  BY <1>5 DEF Register, Accepts
<1>6. CASE Refuse
  BY <1>6 DEF Refuse, RefusedDups
<1>7. CASE Headers
  BY <1>7 DEF Headers
<1>8. CASE Redirect
  BY <1>8 DEF Redirect
<1>9. CASE ReadChunk
  BY <1>9 DEF ReadChunk
<1>10. CASE ReadEnd
  BY <1>10 DEF ReadEnd
<1>11. CASE ReadFails
  BY <1>11 DEF ReadFails
<1>12. CASE Check
  BY <1>12 DEF Check, TooLate
<1>13. CASE CancelTimer
  BY <1>13 DEF CancelTimer
<1>14. CASE Swap
  BY <1>14 DEF Swap
<1>15. CASE CloseOne
  BY <1>15 DEF CloseOne
<1> QED
  BY <1>1, <1>2, <1>3, <1>4, <1>5, <1>6, <1>7, <1>8, <1>9, <1>10, <1>11, <1>12,
     <1>13, <1>14, <1>15 DEF Fetch

LEMMA FetchStep == ASSUME FInv, [NextFetch]_downloadVars PROVE FInv'
<1>1. CASE Fetch
  BY <1>1, FetchThreadKeeps
<1>2. CASE Deadline
  BY <1>2 DEF Deadline, FInv, Deadlines, Descriptors, fetchVars, guardVars
<1>3. CASE Fire
  BY <1>3 DEF Fire, FInv, Deadlines, Descriptors, fetchVars
<1>4. CASE Shutdown
  BY <1>4 DEF Shutdown, FInv, Deadlines, Descriptors, fetchVars
<1>5. CASE UNCHANGED downloadVars
  BY <1>5 DEF downloadVars, FInv, Deadlines, Descriptors, fetchVars, guardVars
<1> QED BY <1>1, <1>2, <1>3, <1>4, <1>5 DEF NextFetch

\* Nothing is cut before the deadline, and somebody will close every open
\* duplicate, in every reachable state.
THEOREM FetchInvariant == SpecFetch => []FInv
<1>1. InitFetch => FInv
  BY DEF InitFetch, FInv, Deadlines, Descriptors
<1> QED BY <1>1, FetchStep, PTL DEF SpecFetch

\* A download never returns a body that the deadline cut off, although to the
\* reader a cut connection looks like the end of the answer.
THEOREM CompleteBodies == SpecFetch => []ReturnedBodyIsComplete
<1>1. FInv => ReturnedBodyIsComplete
  BY DEF FInv, Deadlines, ReturnedBodyIsComplete
<1> QED BY <1>1, FetchInvariant, PTL

\* When a download is over, every duplicate of a socket is closed, however
\* close(), the timer and a late registration met.
THEOREM NothingLeaks == SpecFetch => []NoDuplicateLeaks
<1>1. FInv => NoDuplicateLeaks
  BY DEF FInv, Descriptors, NoDuplicateLeaks
<1> QED BY <1>1, FetchInvariant, PTL

\* The sockets the guard knows are among the connections that were made, and
\* whoever registers one has made it.
FetchTypes == TypeOKFetch /\ (pc \in {"dup", "register", "refuse"} => conn > 0)

LEMMA FetchTypesStep ==
    ASSUME FetchAssumption, FetchTypes, [NextFetch]_downloadVars PROVE FetchTypes'
<1> USE DEF FetchTypes, TypeOKFetch, FetchAssumption, Steps, fetchVars, guardVars, End
<1>1. CASE Resolve \/ GiveUp
  BY <1>1 DEF Resolve, GiveUp
<1>2. CASE Connect
  BY <1>2 DEF Connect
<1>3. CASE Duplicate
  BY <1>3 DEF Duplicate
<1>4. CASE Register \/ Refuse
  BY <1>4 DEF Register, Refuse, RefusedDups
<1>5. CASE Headers \/ Redirect
  BY <1>5 DEF Headers, Redirect
<1>6. CASE ReadChunk \/ ReadEnd \/ ReadFails \/ Check
  <2>1. CASE ReadEnd
    <3>1. truncated' = FALSE \/ truncated' = (conn \in cut)
      BY <2>1 DEF ReadEnd
    <3>2. (conn \in cut) \in BOOLEAN
      OBVIOUS
    <3>3. truncated' \in BOOLEAN
      BY <3>1, <3>2
    <3> QED BY <2>1, <3>3 DEF ReadEnd
  <2> QED BY <1>6, <2>1 DEF ReadChunk, ReadFails, Check, TooLate
<1>7. CASE CancelTimer \/ Swap \/ CloseOne
  BY <1>7 DEF CancelTimer, Swap, CloseOne
<1>8. CASE Deadline \/ Fire \/ Shutdown
  BY <1>8 DEF Deadline, Fire, Shutdown
<1>9. CASE UNCHANGED downloadVars
  BY <1>9 DEF downloadVars
<1> QED BY <1>1, <1>2, <1>3, <1>4, <1>5, <1>6, <1>7, <1>8, <1>9 DEF NextFetch, Fetch

\* Every variable of a download keeps its type, and every socket the guard
\* knows is one of a connection that was made.
THEOREM FetchTypesHold == ASSUME FetchAssumption PROVE SpecFetch => []TypeOKFetch
<1>1. InitFetch => FetchTypes
  <2> SUFFICES ASSUME InitFetch PROVE FetchTypes
    OBVIOUS
  <2>1. late = FALSE /\ expired = FALSE /\ closed = FALSE /\ truncated = FALSE
    BY DEF InitFetch
  <2>2. {late, expired, closed, truncated} \subseteq BOOLEAN
    BY <2>1
  <2> QED BY <2>2 DEF FetchAssumption, InitFetch, FetchTypes, TypeOKFetch, Steps
<1>2. FetchTypes => TypeOKFetch
  BY DEF FetchTypes
<1> QED BY <1>1, <1>2, FetchTypesStep, PTL DEF SpecFetch

-----------------------------------------------------------------------------
(* MihomoValidator                                                         *)
\* What request p knows of the shared directory.  Geodata is never removed, so
\* what a look has found present stays present; what a look under the lock has
\* found missing stays missing, since only the holder of the lock downloads.
Known(p) ==
    /\ job[p].pc = "home" => job[p].shared /\ ~job[p].first
    /\ job[p].pc \in {"look", "wait", "again"} => job[p].shared /\ ~job[p].first
    /\ job[p].pc = "wait" => lockFile
    /\ job[p].pc = "again" /\ lockFile => lock = p
    /\ job[p].pc = "start" =>
         /\ job[p].first => job[p].shared
         /\ job[p].shared /\ ~job[p].first => ~Missing(p)
         /\ job[p].first /\ lockFile => lock = p /\ Missing(p)
    /\ InKernel(p) =>
         /\ ~job[p].first => job[p].fetching = {}
         /\ job[p].first /\ lockFile => lock = p /\ job[p].fetching # {}

VInv == TypeOKValidator /\ \A p \in Procs : Known(p)

\* The types of the record of a request, one step at a time.
LEMMA ValidatorTypes == ASSUME TypeOKValidator, [NextValidator]_validatorVars PROVE TypeOKValidator'
<1> DEFINE R == [pc : {"idle", "home", "look", "wait", "again", "start",
                       "kernel", "clean", "done"},
                 needs : SUBSET Databases, status : Statuses,
                 first : BOOLEAN, shared : BOOLEAN, fetching : SUBSET Databases]
<1>0. job \in [Procs -> R]
  BY DEF TypeOKValidator
<1> USE DEF Statuses
<1>1. ASSUME NEW p \in Procs, Begin(p) PROVE TypeOKValidator'
  <2>1. Idle \in R
    BY DEF Idle
  <2>2. \A needs \in SUBSET Databases : [Idle EXCEPT !.pc = "home", !.needs = needs] \in R
    BY <2>1
  <2>3. \A s \in {"skipped", "missing"} : [job[p] EXCEPT !.pc = "done", !.status = s] \in R
    BY <1>0
  <2>4. job' \in [Procs -> R]
    <3>1. ASSUME NEW s \in {"skipped", "missing"}, Result(p, s, "done")
          PROVE  job' \in [Procs -> R]
      BY <1>0, <2>3, <3>1 DEF Result
    <3>2. ASSUME NEW needs \in SUBSET Databases,
                 job' = [job EXCEPT ![p] = [Idle EXCEPT !.pc = "home", !.needs = needs]]
          PROVE  job' \in [Procs -> R]
      BY <1>0, <2>2, <3>2
    <3> QED BY <1>1, <3>1, <3>2 DEF Begin
  <2>5. scratch' \in {scratch, scratch \cup {<<p, "config">>}}
    BY <1>1 DEF Begin
  <2>6. UNCHANGED <<setup, lockFile, present, lock>>
    BY <1>1 DEF Begin
  <2> QED BY <2>4, <2>5, <2>6 DEF TypeOKValidator
<1>2. ASSUME NEW p \in Procs, ChooseHome(p) PROVE TypeOKValidator'
  BY <1>2 DEF TypeOKValidator, ChooseHome, Proceed, Result
<1>3. ASSUME NEW p \in Procs, Look(p) PROVE TypeOKValidator'
  BY <1>3 DEF TypeOKValidator, Look, Proceed
<1>4. ASSUME NEW p \in Procs, Lock(p) PROVE TypeOKValidator'
  BY <1>4 DEF TypeOKValidator, Lock, Proceed
<1>5. ASSUME NEW p \in Procs, LookAgain(p) PROVE TypeOKValidator'
  <2>1. [job[p] EXCEPT !.pc = "start", !.first = Missing(p)] \in R
    BY <1>0 DEF Missing
  <2>2. job' \in [Procs -> R]
    BY <1>0, <1>5, <2>1 DEF LookAgain
  <2> QED BY <1>5, <2>2 DEF TypeOKValidator, LookAgain
<1>6. ASSUME NEW p \in Procs, StartKernel(p) PROVE TypeOKValidator'
  <2> DEFINE left == job[p].needs \ (IF job[p].shared THEN present ELSE {})
  <2>1. left \in SUBSET Databases
    BY <1>0
  <2>2. [job[p] EXCEPT !.pc = "kernel", !.fetching = left] \in R
    BY <1>0, <2>1
  <2>3. job' \in [Procs -> R]
    BY <1>0, <1>6, <2>2 DEF StartKernel
  <2> QED BY <1>6, <2>3 DEF TypeOKValidator, StartKernel
<1>7. ASSUME NEW p \in Procs, Finish(p) PROVE TypeOKValidator'
  <2>1. PICK status \in {"passed", "failed", "timeout", "error"}, got \in SUBSET job[p].fetching :
          /\ Result(p, status, "clean")
          /\ present' = IF job[p].shared THEN present \cup got ELSE present
          /\ lock' = Unlock(p, status)
    BY <1>7 DEF Finish
  <2>2. [job[p] EXCEPT !.pc = "clean", !.status = status] \in R
    BY <1>0
  <2>3. job' \in [Procs -> R]
    BY <1>0, <2>1, <2>2 DEF Result
  <2>4. present' \subseteq Databases /\ lock' \in Procs \cup {NoProc}
    BY <1>0, <2>1 DEF TypeOKValidator, Unlock
  <2> QED BY <1>7, <2>3, <2>4 DEF TypeOKValidator, Finish
<1>8. ASSUME NEW p \in Procs, Clean(p) PROVE TypeOKValidator'
  BY <1>8 DEF TypeOKValidator, Clean, Proceed, TempAfter
<1>9. CASE UNCHANGED validatorVars
  BY <1>9 DEF validatorVars, TypeOKValidator
<1> QED
  BY <1>1, <1>2, <1>3, <1>4, <1>5, <1>6, <1>7, <1>8, <1>9 DEF NextValidator, Validate

\* A step of p leaves what another request q knows as it is: q's record stays,
\* the lock stays with q, and geodata only grows, and not while q holds the
\* lock.
LEMMA OthersKnow ==
    ASSUME ValidatorAssumption, VInv, NEW p \in Procs, Begin(p) \/ Validate(p),
           NEW q \in Procs, q # p
    PROVE  Known(q)'
<1>1. job'[q] = job[q] /\ lockFile' = lockFile
  BY DEF VInv, TypeOKValidator, Begin, Validate, ChooseHome, Look, Lock, LookAgain, StartKernel,
         Finish, Clean, Proceed, Result
<1>2. lockFile /\ lock = q => lock' = q
  BY DEF ValidatorAssumption, Begin, Validate, ChooseHome, Look, Lock, LockFree,
         LookAgain, StartKernel, Finish, Clean, Unlock
<1>3. present \subseteq present'
  BY DEF Begin, Validate, ChooseHome, Look, Lock, LookAgain, StartKernel, Finish, Clean
<1>4. lockFile /\ lock = q => present' = present
  <2> SUFFICES ASSUME lockFile, lock = q, Finish(p), job[p].shared
               PROVE  present' = present
    BY DEF Begin, Validate, ChooseHome, Look, Lock, LookAgain, StartKernel, Finish, Clean
  <2>1. job[p].fetching = {}
    BY DEF VInv, Known, InKernel, Finish, TypeOKValidator
  <2> QED BY <2>1 DEF Finish
<1> QED
  BY <1>1, <1>2, <1>3, <1>4 DEF VInv, Known, InKernel, Missing

\* What request p knows after its own step.
LEMMA KnowsItself ==
    ASSUME VInv, NEW p \in Procs, Begin(p) \/ Validate(p)
    PROVE  Known(p)'
<1> USE DEF VInv, TypeOKValidator, Known, InKernel, Missing
<1>1. CASE Begin(p)
  <2>1. ASSUME NEW s \in {"skipped", "missing"}, Result(p, s, "done") PROVE Known(p)'
    BY <2>1 DEF Result
  <2>2. ASSUME NEW needs \in SUBSET Databases,
               job' = [job EXCEPT ![p] = [Idle EXCEPT !.pc = "home", !.needs = needs]]
        PROVE  Known(p)'
    <3>1. job'[p] = [Idle EXCEPT !.pc = "home", !.needs = needs]
      BY <2>2
    <3>2. job'[p].pc = "home" /\ job'[p].shared /\ ~job'[p].first
      BY <3>1 DEF Idle
    <3> QED BY <3>2
  <2> QED BY <1>1, <2>1, <2>2 DEF Begin
<1>2. CASE ChooseHome(p)
  BY <1>2 DEF ChooseHome, Proceed, Result
<1>3. CASE Look(p)
  BY <1>3 DEF Look, Proceed
<1>4. CASE Lock(p)
  BY <1>4 DEF Lock, Proceed
<1>5. CASE LookAgain(p)
  BY <1>5 DEF LookAgain
<1>6. CASE StartKernel(p)
  BY <1>6 DEF StartKernel
<1>7. CASE Finish(p)
  BY <1>7 DEF Finish, Result
<1>8. CASE Clean(p)
  BY <1>8 DEF Clean, Proceed
<1> QED
  BY <1>1, <1>2, <1>3, <1>4, <1>5, <1>6, <1>7, <1>8 DEF Validate

\* What every validation knows of the shared directory, in every reachable
\* state.
THEOREM ValidatorInvariant == ASSUME ValidatorAssumption PROVE SpecValidator => []VInv
<1>1. InitValidator => VInv
  BY DEF InitValidator, VInv, TypeOKValidator, Known, InKernel, Idle, Statuses
<1>2. VInv /\ [NextValidator]_validatorVars => VInv'
  <2> SUFFICES ASSUME VInv, [NextValidator]_validatorVars PROVE VInv'
    OBVIOUS
  <2>1. TypeOKValidator'
    BY ValidatorTypes DEF VInv
  <2>2. ASSUME NEW q \in Procs PROVE Known(q)'
    <3>1. ASSUME NEW p \in Procs, Begin(p) \/ Validate(p) PROVE Known(q)'
      BY <3>1, OthersKnow, KnowsItself
    <3>2. CASE UNCHANGED validatorVars
      BY <3>2 DEF validatorVars, VInv, Known, InKernel, Missing
    <3> QED BY <3>1, <3>2 DEF NextValidator
  <2> QED BY <2>1, <2>2 DEF VInv
<1> QED BY <1>1, <1>2, PTL DEF SpecValidator

\* Kernels of several processes never download the same geodata into the
\* shared directory at once.
THEOREM DownloadsApart ==
    ASSUME ValidatorAssumption PROVE SpecValidator => []DownloadsDoNotOverlap
<1>1. VInv => DownloadsDoNotOverlap
  BY DEF VInv, TypeOKValidator, Known, InKernel, DownloadsDoNotOverlap
<1> QED BY <1>1, ValidatorInvariant, PTL

\* A kernel gets the long time limit exactly if it has to download into the
\* shared directory, also when it waited for another one's download.
THEOREM TimeFits == ASSUME ValidatorAssumption PROVE SpecValidator => []TimeForDownloads
<1>1. VInv => TimeForDownloads
  BY DEF VInv, TypeOKValidator, Known, InKernel, TimeForDownloads
<1> QED BY <1>1, ValidatorInvariant, PTL

\* Whoever is not between Begin and Clean has no temporary file.  The one
\* exception is the request whose temporary directory could not be made.
Tidy == \A p \in Procs : job[p].pc \in {"idle", "done"} /\ job[p].status # "raised" =>
            ~\E t \in scratch : t[1] = p

\* Only the request itself adds files of its own, and its Clean removes both.
LEMMA StaysTidy == ASSUME VInv, Tidy, [NextValidator]_validatorVars PROVE Tidy'
<1> USE DEF VInv, TypeOKValidator, Tidy
<1>1. ASSUME NEW p \in Procs, Begin(p) \/ Validate(p), NEW q \in Procs, q # p,
             job'[q].pc \in {"idle", "done"}, job'[q].status # "raised"
      PROVE  ~\E t \in scratch' : t[1] = q
  <2>1. job'[q] = job[q]
    BY <1>1 DEF Begin, Validate, ChooseHome, Look, Lock, LookAgain, StartKernel, Finish, Clean,
                Proceed, Result
  <2>2. scratch' \subseteq scratch \cup {<<p, "config">>, <<p, "home">>}
    BY <1>1 DEF Begin, Validate, ChooseHome, Look, Lock, LookAgain, StartKernel, Finish, Clean,
                TempAfter
  <2> QED BY <1>1, <2>1, <2>2
<1>2. ASSUME NEW p \in Procs, Begin(p) \/ Validate(p),
             job'[p].pc \in {"idle", "done"}, job'[p].status # "raised"
      PROVE  ~\E t \in scratch' : t[1] = p
  <2>1. CASE Begin(p)
    <3>1. ASSUME NEW s \in {"skipped", "missing"}, Result(p, s, "done"), UNCHANGED scratch
          PROVE  ~\E t \in scratch' : t[1] = p
      BY <2>1, <3>1 DEF Begin, Result
    <3>2. ASSUME NEW needs \in SUBSET Databases,
                 job' = [job EXCEPT ![p] = [Idle EXCEPT !.pc = "home", !.needs = needs]]
          PROVE  FALSE
      <4>1. job'[p] = [Idle EXCEPT !.pc = "home", !.needs = needs]
        BY <3>2
      <4>2. job'[p].pc = "home"
        BY <4>1 DEF Idle
      <4> QED BY <4>2, <1>2
    <3> QED BY <2>1, <3>1, <3>2 DEF Begin
  <2>2. CASE ChooseHome(p)
    BY <1>2, <2>2 DEF ChooseHome, Proceed, Result
  <2>3. CASE Look(p) \/ Lock(p) \/ LookAgain(p) \/ StartKernel(p) \/ Finish(p)
    BY <1>2, <2>3 DEF Look, Lock, LookAgain, StartKernel, Finish, Proceed, Result
  <2>4. CASE Clean(p)
    BY <1>2, <2>4 DEF Clean, TempAfter
  <2> QED BY <1>2, <2>1, <2>2, <2>3, <2>4 DEF Validate
<1>3. CASE UNCHANGED validatorVars
  BY <1>3 DEF validatorVars
<1> QED BY <1>1, <1>2, <1>3 DEF NextValidator

\* A validation that returned has removed its files, whatever its kernel did
\* and however many others ran beside it.
THEOREM FilesRemoved == ASSUME ValidatorAssumption PROVE SpecValidator => []TemporariesRemoved
<1>1. InitValidator => Tidy
  BY DEF InitValidator, Tidy
<1>2. Tidy => TemporariesRemoved
  BY DEF Tidy, TemporariesRemoved
<1> QED BY <1>1, <1>2, StaysTidy, ValidatorInvariant, PTL DEF SpecValidator

-----------------------------------------------------------------------------
(* RulesetUpdater                                                          *)

\* A thread runs only once the process is marked as started, and what is about
\* to replace a served file has been written to its end.
UInv ==
    /\ TypeOKUpdater
    /\ \A w \in Processes : ~started[w] => loops[w] = 0
    /\ \A w \in Processes : worker[w].pc = "replace" => temp[<<w, File(w)>>] = "whole"
    /\ ServedRulesetsAreWhole

\* The loop over the files stays within them.
LEMMA NextFileStays ==
    ASSUME UpdaterAssumption, UInv, NEW w \in Processes, NextFile(w)
    PROVE  /\ worker' \in [Processes -> [pc : {"sleep", "get", "write", "more", "replace", "drop"},
                                         at : Files]]
           /\ worker'[w].pc # "replace"
           /\ \A v \in Processes : v # w => worker'[v] = worker[v]
<1>1. worker[w].at \in Files /\ 1 \in Files
  BY DEF UInv, TypeOKUpdater, UpdaterAssumption, Files
<1>2. (IF worker[w].at < Rulesets THEN [pc |-> "get", at |-> worker[w].at + 1] ELSE Sleeping)
        \in [pc : {"sleep", "get"}, at : Files]
  BY <1>1 DEF Files, Sleeping, UpdaterAssumption
<1> QED BY <1>2 DEF NextFile, UInv, TypeOKUpdater

\* A thread may write to its own temporary file only, so that what the others
\* are about to move stays whole.
LEMMA ThreadKeeps ==
    ASSUME UInv, NEW w \in Processes, UNCHANGED <<caller, started, loops, crashes>>,
           worker' \in [Processes -> [pc : {"sleep", "get", "write", "more", "replace", "drop"},
                                      at : Files]],
           \A v \in Processes : v # w => worker'[v] = worker[v],
           NEW c \in Contents, temp' \in {temp, [temp EXCEPT ![<<w, File(w)>>] = c]},
           worker'[w].pc = "replace" => worker'[w].at = File(w) /\ temp'[<<w, File(w)>>] = "whole",
           cache' \in [Files -> {"absent", "whole"}]
    PROVE  UInv'
<1> USE DEF UInv, TypeOKUpdater
<1>1. temp' \in [Processes \X Files -> Contents]
  OBVIOUS
<1>2. ASSUME NEW v \in Processes, worker'[v].pc = "replace"
      PROVE  temp'[<<v, worker'[v].at>>] = "whole"
  <2>1. CASE v = w
    BY <1>2, <2>1
  <2>2. CASE v # w
    <3>1. worker'[v] = worker[v] /\ temp[<<v, worker[v].at>>] = "whole"
      BY <1>2, <2>2 DEF File
    <3> QED BY <3>1, <2>2
  <2> QED BY <2>1, <2>2
<1>3. cache' \in [Files -> Contents]
  BY DEF Contents
<1> QED BY <1>1, <1>2, <1>3 DEF ServedRulesetsAreWhole, File

LEMMA GoStays ==
    ASSUME UInv, NEW w \in Processes, NEW step \in {"get", "write", "more", "replace", "drop"},
           Go(w, step)
    PROVE  /\ worker' \in [Processes -> [pc : {"sleep", "get", "write", "more", "replace", "drop"},
                                         at : Files]]
           /\ worker'[w].pc = step /\ worker'[w].at = File(w)
           /\ \A v \in Processes : v # w => worker'[v] = worker[v]
BY DEF UInv, TypeOKUpdater, Go, File

LEMMA UpdaterStep ==
    ASSUME UpdaterAssumption, UInv, [NextUpdater]_updaterVars PROVE UInv'
<1>0. cache \in [Files -> {"absent", "whole"}]
  BY DEF UInv, TypeOKUpdater, ServedRulesetsAreWhole
<1>1. ASSUME NEW c \in Processes \X Callers, Enter(c) PROVE UInv'
  BY <1>1 DEF Enter, UInv, TypeOKUpdater, ServedRulesetsAreWhole, File
<1>2. ASSUME NEW c \in Processes \X Callers, Start(c) PROVE UInv'
  <2>1. c[1] \in Processes
    OBVIOUS
  <2>2. loops' \in [Processes -> 0..1]
    BY <1>2, <2>1 DEF Start, MayStart, UInv, TypeOKUpdater
  <2> QED BY <1>2, <2>1, <2>2 DEF Start, UInv, TypeOKUpdater, ServedRulesetsAreWhole, File
<1>3. ASSUME NEW w \in Processes, Work(w) PROVE UInv'
  <2>1. UNCHANGED <<caller, started, loops, crashes>>
    BY <1>3 DEF Work
  <2> DEFINE Filled(c) == [temp EXCEPT ![<<w, File(w)>>] = c]
  <2>2. File(w) \in Files /\ <<w, File(w)>> \in DOMAIN temp
    BY DEF UInv, TypeOKUpdater, File
  <2>3. CASE Wake(w)
    BY <1>0, <2>1, <2>3, GoStays, ThreadKeeps DEF Wake, Contents
  <2>4. CASE Get(w)
    <3>1. temp' \in {temp, Filled("empty")} /\ cache' = cache
      BY <2>4 DEF Get
    <3>2. Go(w, "drop") \/ Go(w, "write")
      BY <2>4 DEF Get
    <3> HIDE DEF Filled
    <3>3. PICK step \in {"drop", "write"} : Go(w, step)
      BY <3>2
    <3>4. worker'[w].pc # "replace"
      BY <3>3, GoStays
    <3> USE DEF Filled
    <3> QED BY <1>0, <2>1, <3>1, <3>3, <3>4, GoStays, ThreadKeeps DEF Contents
  <2>5. CASE Write(w)
    <3>1. CASE Go(w, "drop") /\ UNCHANGED temp
      BY <1>0, <2>1, <2>5, <3>1, GoStays, ThreadKeeps DEF Write, Contents
    <3>2. CASE worker[w].pc = "write" /\ Go(w, "more") /\ temp' = Filled("part")
      BY <1>0, <2>1, <2>5, <3>2, GoStays, ThreadKeeps DEF Write, Contents
    <3>3. CASE worker[w].pc = "more" /\ Go(w, "replace") /\ temp' = Filled("whole")
      <4>1. temp'[<<w, File(w)>>] = "whole"
        BY <3>3, <2>2
      <4>2. cache' = cache
        BY <2>5 DEF Write
      <4> QED BY <1>0, <2>1, <3>3, <4>1, <4>2, GoStays, ThreadKeeps DEF Contents
    <3> QED BY <2>5, <3>1, <3>2, <3>3 DEF Write
  <2>6. CASE Replace(w)
    <3>1. CASE /\ NextFile(w) /\ temp' = Filled("absent")
               /\ cache' = [cache EXCEPT ![File(w)] = temp[<<w, File(w)>>]]
      <4>1. temp[<<w, File(w)>>] = "whole"
        BY <2>6 DEF Replace, UInv
      <4>2. cache' \in [Files -> {"absent", "whole"}]
        BY <1>0, <3>1, <4>1
      <4> QED BY <2>1, <3>1, <4>2, NextFileStays, ThreadKeeps DEF Contents
    <3>2. CASE Go(w, "drop") /\ UNCHANGED <<temp, cache>>
      BY <1>0, <2>1, <3>2, GoStays, ThreadKeeps DEF Contents
    <3> QED BY <2>6, <3>1, <3>2 DEF Replace
  <2>7. CASE Drop(w)
    <3>1. temp' = Filled("absent") /\ cache' = cache /\ NextFile(w)
      BY <2>7 DEF Drop, KeptOnFailure
    <3> QED BY <1>0, <2>1, <3>1, NextFileStays, ThreadKeeps DEF Contents
  <2> QED BY <1>3, <2>3, <2>4, <2>5, <2>6, <2>7 DEF Work
<1>4. ASSUME NEW w \in Processes, Crash(w) PROVE UInv'
  BY <1>4 DEF Crash, Sleeping, UpdaterAssumption, Files, UInv, TypeOKUpdater,
              ServedRulesetsAreWhole, File
<1>5. CASE UNCHANGED updaterVars
  BY <1>5 DEF updaterVars, UInv, TypeOKUpdater, ServedRulesetsAreWhole, File
<1> QED BY <1>1, <1>2, <1>3, <1>4, <1>5 DEF NextUpdater

\* Files are whole before they replace a served one, and no update thread runs
\* before its start was noted, in every reachable state.
THEOREM UpdaterInvariant == ASSUME UpdaterAssumption PROVE SpecUpdater => []UInv
<1>1. InitUpdater => UInv
  BY DEF InitUpdater, UInv, TypeOKUpdater, ServedRulesetsAreWhole, Sleeping, Contents,
         UpdaterAssumption, Files
<1> QED BY <1>1, UpdaterStep, PTL DEF SpecUpdater

\* Readers of the cache get whole rule sets, whichever downloads, writes or
\* replacements failed and whenever processes died.
THEOREM WholeRulesets == ASSUME UpdaterAssumption PROVE SpecUpdater => []ServedRulesetsAreWhole
<1>1. UInv => ServedRulesetsAreWhole
  BY DEF UInv
<1> QED BY <1>1, UpdaterInvariant, PTL

\* However many threads race to start it, a process has at most one update
\* thread.
THEOREM OneUpdateThread ==
    ASSUME UpdaterAssumption PROVE SpecUpdater => [](\A w \in Processes : loops[w] \in 0..1)
<1>1. UInv => \A w \in Processes : loops[w] \in 0..1
  BY DEF UInv, TypeOKUpdater
<1> QED BY <1>1, UpdaterInvariant, PTL

-----------------------------------------------------------------------------
(* StreamlitSession                                                        *)
\* The YAML kept from a check passed it.
CheckedYamlPassed == checked # Nothing => Passes(checked.yaml)

Row == db = [draft |-> db.draft, status |-> db.status, yaml |-> db.yaml]

SInv == Row /\ PublishedYamlPassed /\ CheckedYamlPassed

\* The body of the script touches neither the row nor the kept check.
LEMMA BodyLeaves == ASSUME Body PROVE UNCHANGED <<db, checked>>
BY DEF Body, ImportNodes, Restore, OpenEditor, Delete, Move, SaveEdit, Cancel, EditRules,
       BodyDone, session

\* Nor do the parts of a run that check, publish and save nothing, and the
\* steps of the user and the administrator within a session.
LEMMA OthersLeave ==
    ASSUME \/ PublishRaises \/ Refused \/ Tab4Done \/ Disable
           \/ \E press \in Offered, c \in Confs : Interact(press, c)
    PROVE  UNCHANGED <<db, checked>>
BY DEF PublishRaises, Refused, Tab4Done, Disable, Interact, session

\* What each save writes to the row.
LEMMA SavesWrite ==
    ASSUME Row
    PROVE  /\ CheckPasses => db' = [db EXCEPT !.draft = Draft, !.status = "passed"] /\ Passes(Draft)
           /\ CheckFails => db' = [db EXCEPT !.draft = Draft, !.status = "failed"]
           /\ AutoSave => \/ db' = db
                          \/ db' = [db EXCEPT !.draft = Draft, !.status = "unknown"]
BY DEF CheckPasses, CheckFails, AutoSave, Persist

LEMMA SessionStep == ASSUME SInv, [Next]_vars PROVE SInv'
<1> USE DEF SInv, Row, PublishedYamlPassed, CheckedYamlPassed
<1>1. ASSUME UNCHANGED <<db, checked>> PROVE SInv'
  BY <1>1
<1>2. CASE CheckPasses
  <2>1. checked' = [kind |-> "checked", signature |-> Signature, yaml |-> Draft]
    BY <1>2 DEF CheckPasses
  <2> QED BY <1>2, <2>1, SavesWrite
<1>3. CASE CheckFails
  BY <1>3, SavesWrite DEF CheckFails
<1>4. CASE Publish
  <2>1. /\ db' = [draft |-> Draft, status |-> "passed", yaml |-> checked.yaml]
        /\ checked # Nothing /\ checked' = Nothing
    BY <1>4 DEF Publish, PublishedYaml
  <2> QED BY <2>1
<1>5. CASE AutoSave
  <2>1. checked' \in {checked, Nothing}
    BY <1>5 DEF AutoSave
  <2> QED BY <1>5, <2>1, SavesWrite
<1>6. CASE V2
  <2>1. checked' = checked
    BY <1>6 DEF V2, session
  <2>2. CASE \E c \in Confs : db' = [db EXCEPT !.draft = Other(c), !.status = "unknown"]
    BY <2>1, <2>2
  <2>3. CASE db' = [db EXCEPT !.status = IF Passes(db.draft) THEN "passed" ELSE "failed"]
    BY <2>1, <2>3
  <2>4. CASE Passes(db.draft) /\ db' = [db EXCEPT !.status = "passed", !.yaml = db.draft]
    BY <2>1, <2>4
  <2> QED BY <1>6, <2>2, <2>3, <2>4 DEF V2
<1>7. CASE Close \/ \E c \in Confs : Open(c)
  BY <1>7 DEF Close, Open
<1>8. CASE UNCHANGED vars
  BY <1>1, <1>8 DEF vars, session
<1> QED
  BY <1>1, <1>2, <1>3, <1>4, <1>5, <1>6, <1>7, <1>8, BodyLeaves, OthersLeave DEF Next, Tab4

\* The YAML that a check left in the session, and every YAML that was ever
\* published, has passed, in every reachable state.
THEOREM SessionInvariant == Spec => []SInv
<1>1. Init => SInv
  BY DEF Init, SInv, Row, PublishedYamlPassed, CheckedYamlPassed
<1> QED BY <1>1, SessionStep, PTL DEF Spec

\* What is served as the published subscription has passed the checks,
\* whichever interface published it and although the page publishes a YAML
\* that an earlier run built.
THEOREM PublicationsPassed == Spec => []PublishedYamlPassed
<1>1. SInv => PublishedYamlPassed
  BY DEF SInv
<1> QED BY <1>1, SessionInvariant, PTL

\* The publish button is the only way by which a changed draft that does not
\* pass is stored as passed.
THEOREM StatusHolds == Spec => StatusIsEarned
<1> DEFINE Earned == db'.status = "passed" /\ (db.status # "passed" \/ db'.draft # db.draft)
                       => Passes(db'.draft) \/ Publish
<1>1. SInv /\ [Next]_vars => [Earned]_vars
  <2> SUFFICES ASSUME SInv, [Next]_vars, ~Publish, db'.status = "passed",
                      db.status # "passed" \/ db'.draft # db.draft
               PROVE  Passes(db'.draft)
    OBVIOUS
  <2> USE DEF SInv, Row
  <2>1. CASE CheckPasses \/ CheckFails \/ AutoSave
    BY <2>1, SavesWrite
  <2>2. CASE V2
    BY <2>2 DEF V2
  <2>3. CASE Body
    BY <2>3, BodyLeaves
  <2>4. CASE Close \/ UNCHANGED vars \/ \E c \in Confs : Open(c)
    BY <2>4 DEF Close, Open, vars
  <2> QED BY <2>1, <2>2, <2>3, <2>4, OthersLeave DEF Next, Tab4
<1> QED BY <1>1, SessionInvariant, PTL DEF Spec, StatusIsEarned
=============================================================================
