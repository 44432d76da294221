---------------------------- MODULE RulesetStore ----------------------------
(***************************************************************************)
(* The private rulesets of ONE user (src/src/ruleset_store.py and the      *)
(* request handlers of src/src/api.py and src/src/web_app.py that share    *)
(* it): the versioned files on disk, the pending-upload markers, the       *)
(* draft and the published YAML that reference the files, the account row, *)
(* and the requests of the two processes that change them under the        *)
(* user's lifecycle lock.  Users have disjoint directories and disjoint    *)
(* locks, so one user is the general case.                                 *)
(*                                                                         *)
(* A critical section is a sequence of durable effects.  Each effect is a  *)
(* step, so a crash, an exception, an expiry or (were the lock missing)    *)
(* another request can fall between any two of them.                       *)
(***************************************************************************)
EXTENDS Naturals, FiniteSets

CONSTANTS
    Files,      \* immutable versions alias--sha256.ext: the name fixes the content
    Temps,      \* names NamedTemporaryFile can draw for a partial write
    Procs,      \* worker threads of FastAPI and Streamlit sessions
    MaxFiles,   \* MAX_RULESET_USER_FILES; the byte quota has the same shape
    None        \* no process, no file, no temporary

ASSUME ConstantsAssumption ==
    /\ Files \cap Temps = {}
    /\ None \notin Files \cup Temps \cup Procs
    /\ MaxFiles \in Nat

\* Random temporary names do not run out before the quota does.
ASSUME TempsAssumption == IsFiniteSet(Temps) /\ Cardinality(Temps) >= MaxFiles

VARIABLES
    account,    \* users.is_enabled, "gone" once the row is deleted
    draft,      \* versions named by custom_rule_providers of the saved draft
    published,  \* versions named by rule-providers of final_yaml
    readable,   \* whether yaml.safe_load accepts final_yaml
    disk,       \* directory users/<id>: versions and partial writes
    marker,     \* directory .pending/<id>: reservation of each version
    trash,      \* the user's tombstones below .trash
    lock,       \* holder of _ruleset_user_lock: thread lock and flock together
    req         \* the request each process is serving

vars == <<account, draft, published, readable, disk, marker, trash, lock, req>>

DraftOps == {"put", "validate", "publish", "stPersist", "stCheck", "stPublish"}
FileOps  == {"upload", "delete"}
UserOps  == DraftOps \cup FileOps
AdminOps == {"toggle", "deleteUser"}
Ops      == UserOps \cup AdminOps

Waiting  == {"waiting", "adminWaiting"}
Steps    == {"cleanup", "unlink", "write", "replace", "reserve", "validate",
             "save", "commit", "promote", "remove", "toggle",
             "dropRow", "detach", "dropMarkers", "purge"}

UserSteps == Steps \ {"toggle", "dropRow", "detach", "dropMarkers", "purge"}

Idle == [pc |-> "idle", op |-> "none", arg |-> None, body |-> {},
         todo |-> {}, failed |-> {}, tmp |-> None]

Request == [pc     : {"idle"} \cup Waiting \cup Steps,
            op     : Ops \cup {"none"},
            arg    : Files \cup {None},          \* the uploaded or deleted version
            body   : SUBSET Files,               \* versions the submitted draft names
            todo   : SUBSET (Files \cup Temps),  \* directory entries still to unlink
            failed : SUBSET (Files \cup Temps),  \* entries whose unlink failed
            tmp    : Temps \cup {None}]          \* temporary_path of the upload

\* Types, and the one link between fields every handler relies on: a request
\* holds a temporary name exactly while its partial write awaits os.replace.
TypeOK ==
    /\ account \in {"enabled", "disabled", "gone"}
    /\ draft \in SUBSET Files
    /\ published \in SUBSET Files
    /\ readable \in BOOLEAN
    /\ disk \in SUBSET (Files \cup Temps)
    /\ marker \in [Files -> {"none", "active", "expired"}]
    /\ trash \in SUBSET (Files \cup Temps)
    /\ lock \in Procs \cup {None}
    /\ req \in [Procs -> Request]
    /\ \A p \in Procs : req[p].tmp # None <=> req[p].pc = "replace"

\* A deployment starts with whatever an earlier one left: any versions on
\* disk, referenced or not, and possibly a YAML from an older release.
Init ==
    /\ account = "enabled"
    /\ disk \in {d \in SUBSET Files : IsFiniteSet(d) /\ Cardinality(d) <= MaxFiles}
    /\ draft \in SUBSET disk
    /\ published \in SUBSET disk
    /\ readable \in BOOLEAN
    /\ marker = [f \in Files |-> "none"]
    /\ trash = {}
    /\ lock = None
    /\ req = [p \in Procs |-> Idle]

-----------------------------------------------------------------------------
(* What the handlers compute.  A definition placed just before another one *)
(* with the same beginning of name is a faulty variant of it: the mutation *)
(* runs substitute it to show that a property can fail.                    *)

\* The versions final_yaml keeps alive; an unreadable one keeps everything.
YamlReferences == IF readable THEN published ELSE disk

\* _referenced_user_rulesets_for_config on the saved row.
References == draft \cup YamlReferences

\* _pending_ruleset_filenames: markers that have not expired.
Reservations == {f \in Files : marker[f] = "active"}

CleanupTargetsReserved == disk \ References
CleanupTargetsVersionsOnly ==
    (disk \cap Files) \ (References \cup Reservations)
\* The directory entries a cleanup unlinks, partial writes included.
CleanupTargets == disk \ (References \cup Reservations)

\* The markers a sweep leaves: active ones whose version exists and is not in
\* refs.  Expired ones are discarded by the scan that reads them.
SweptMarkers(refs) ==
    [f \in Files |-> IF f \in Reservations \cap disk /\ f \notin refs
                       THEN "active" ELSE "none"]

QuotaAllowsOffByOne == Cardinality(disk) <= MaxFiles
\* new_count <= MAX_RULESET_USER_FILES, leftovers of crashed uploads included.
QuotaAllows == Cardinality(disk) + 1 <= MaxFiles

UserIsActiveUnchecked == TRUE
\* _reload_ruleset_user and _streamlit_user_is_active.
UserIsActive == account = "enabled"

LockFreeUnchecked == TRUE
LockFree == lock = None

\* The step each operation starts with once it holds the lock.
FirstStep == [upload |-> "cleanup", delete |-> "remove",
              put |-> "save", stPersist |-> "save",
              validate |-> "validate", publish |-> "validate", stCheck |-> "validate",
              stPublish |-> "commit",
              toggle |-> "toggle", deleteUser |-> "dropRow"]

StepAfterPromoteFirst(o, s) ==
    IF s = "enter" THEN (IF o = "put" THEN "promote" ELSE FirstStep[o])
    ELSE IF s = "promote" /\ o = "put" THEN "save"
    ELSE IF s = "unlink" /\ o = "upload" THEN "write"
    ELSE "done"
\* The order of the steps of an operation; "done" ends the critical section.
StepAfter(o, s) ==
    IF s = "enter" THEN FirstStep[o]
    ELSE IF s = "validate" THEN (IF o = "publish" THEN "commit" ELSE "save")
    ELSE IF s \in {"save", "commit"} /\ o \in {"put", "validate", "publish"} THEN "promote"
    ELSE IF s \in {"commit", "promote"} /\ o \in {"publish", "stPublish"} THEN "cleanup"
    ELSE IF s = "unlink" /\ o = "upload" THEN "write"
    ELSE "done"

\* Leaving the lock's context manager, normally or by an exception.
Release(p) ==
    /\ lock' = None
    /\ req' = [req EXCEPT ![p] = Idle]

\* Move p past its step s, leaving the critical section after the last one.
Advance(p, s) ==
    LET next == StepAfter(req[p].op, s) IN
    IF next = "done"
      THEN Release(p)
      ELSE req' = [req EXCEPT ![p].pc = next] /\ UNCHANGED lock

At(p, s) == req[p].pc = s

-----------------------------------------------------------------------------
(* Requests arriving and entering the critical section.                    *)

\* A session is authenticated before the body is read, outside the lock.
ArriveUser(p) ==
    /\ At(p, "idle")
    /\ UserIsActive
    /\ req' = [req EXCEPT ![p].pc = "waiting"]
    /\ UNCHANGED <<account, draft, published, readable, disk, marker, trash, lock>>

ArriveAdmin(p) ==
    /\ At(p, "idle")
    /\ req' = [req EXCEPT ![p].pc = "adminWaiting"]
    /\ UNCHANGED <<account, draft, published, readable, disk, marker, trash, lock>>

\* The lock is granted and the row, re-read under it, still permits o.
Enter(p, o, f, b) ==
    /\ IF o \in AdminOps
         THEN At(p, "adminWaiting") /\ account # "gone"
         ELSE At(p, "waiting") /\ UserIsActive
    /\ LockFree
    /\ lock' = p
    /\ req' = [req EXCEPT ![p] = [Idle EXCEPT !.pc = StepAfter(o, "enter"),
                                              !.op = o, !.arg = f, !.body = b]]
    /\ UNCHANGED <<account, draft, published, readable, disk, marker, trash>>

\* 404 or 409: the account was deleted or disabled while p waited.
Reject(p) ==
    /\ \/ At(p, "waiting") /\ ~UserIsActive
       \/ At(p, "adminWaiting") /\ account = "gone"
    /\ LockFree
    /\ req' = [req EXCEPT ![p] = Idle]
    /\ UNCHANGED <<account, draft, published, readable, disk, marker, trash, lock>>

ArgsOf(o) == IF o \in FileOps THEN Files ELSE {None}
BodiesOf(o) == IF o \in DraftOps THEN SUBSET Files ELSE {{}}

-----------------------------------------------------------------------------
(* _cleanup_unreferenced_user_rulesets                                     *)

\* Collect the references, sweep the markers and list the directory.
BeginCleanup(p) ==
    /\ At(p, "cleanup")
    /\ marker' = SweptMarkers(References)
    /\ req' = [req EXCEPT ![p].pc = "unlink", ![p].todo = CleanupTargets]
    /\ UNCHANGED <<account, draft, published, readable, disk, trash, lock>>

\* One entry is unlinked, or the OSError is noted and the loop goes on.
Unlink(p, x) ==
    /\ At(p, "unlink")
    /\ x \in req[p].todo
    /\ \/ /\ disk' = disk \ {x}
          /\ req' = [req EXCEPT ![p].todo = @ \ {x}]
       \/ /\ req' = [req EXCEPT ![p].todo = @ \ {x}, ![p].failed = @ \cup {x}]
          /\ UNCHANGED disk
    /\ UNCHANGED <<account, draft, published, readable, marker, trash, lock>>

\* A strict cleanup after a publish turns failures into a warning, and the
\* one before an upload ignores them: both go on.
EndCleanup(p) ==
    /\ At(p, "unlink")
    /\ req[p].todo = {}
    /\ Advance(p, "unlink")
    /\ UNCHANGED <<account, draft, published, readable, disk, marker, trash>>

-----------------------------------------------------------------------------
(* api_ruleset_upload after its cleanup: write the version, then reserve.  *)

\* The version is already stored with this content: reuse it.
ReuseVersion(p) ==
    /\ At(p, "write")
    /\ req[p].arg \in disk
    /\ req' = [req EXCEPT ![p].pc = "reserve"]
    /\ UNCHANGED <<account, draft, published, readable, disk, marker, trash, lock>>

WriteTemporary(p, t) ==
    /\ At(p, "write")
    /\ req[p].arg \notin disk
    /\ QuotaAllows
    /\ t \notin disk
    /\ disk' = disk \cup {t}
    /\ req' = [req EXCEPT ![p].pc = "replace", ![p].tmp = t]
    /\ UNCHANGED <<account, draft, published, readable, marker, trash, lock>>

\* 413: the quota is exhausted by versions the cleanup had to keep.
RefuseQuota(p) ==
    /\ At(p, "write")
    /\ req[p].arg \notin disk
    /\ ~QuotaAllows
    /\ Release(p)
    /\ UNCHANGED <<account, draft, published, readable, disk, marker, trash>>

ReplaceKeepingTemporaryName(p) ==
    /\ At(p, "replace")
    /\ disk' = (disk \ {req[p].tmp}) \cup {req[p].arg}
    /\ req' = [req EXCEPT ![p].pc = "reserve"]
    /\ UNCHANGED <<account, draft, published, readable, marker, trash, lock>>
\* os.replace: the partial write becomes the version in one step.
Replace(p) ==
    /\ At(p, "replace")
    /\ disk' = (disk \ {req[p].tmp}) \cup {req[p].arg}
    /\ req' = [req EXCEPT ![p].pc = "reserve", ![p].tmp = None]
    /\ UNCHANGED <<account, draft, published, readable, marker, trash, lock>>

\* _reserve_pending_ruleset, then the response with the provider.
Reserve(p) ==
    /\ At(p, "reserve")
    /\ marker' = [marker EXCEPT ![req[p].arg] = "active"]
    /\ Release(p)
    /\ UNCHANGED <<account, draft, published, readable, disk, trash>>

-----------------------------------------------------------------------------
(* Saving, validating and publishing a draft.                              *)

\* mihomo answers (its run is bounded by timeouts).  A failed validation is
\* saved with the draft by validate and stCheck; publish refuses with 409.
Validate(p) ==
    /\ At(p, "validate")
    /\ \/ Advance(p, "validate")
       \/ req[p].op = "publish" /\ Release(p)
    /\ UNCHANGED <<account, draft, published, readable, disk, marker, trash>>

\* save_user_draft: the draft columns, never final_yaml.
SaveDraft(p) ==
    /\ At(p, "save")
    /\ draft' = req[p].body
    /\ Advance(p, "save")
    /\ UNCHANGED <<account, published, readable, disk, marker, trash>>

\* save_user_config_atomic and save_user_config: draft and final_yaml in one
\* UPDATE.  The minimal profile publishes no rule-providers at all.
Commit(p) ==
    /\ At(p, "commit")
    /\ draft' = req[p].body
    /\ published' \in {req[p].body, {}}
    /\ readable' = TRUE
    /\ Advance(p, "commit")
    /\ UNCHANGED <<account, disk, marker, trash>>

\* _promote_referenced_pending_rulesets with the draft just saved.
Promote(p) ==
    /\ At(p, "promote")
    /\ marker' = SweptMarkers(req[p].body)
    /\ Advance(p, "promote")
    /\ UNCHANGED <<account, draft, published, readable, disk, trash>>

-----------------------------------------------------------------------------
(* api_ruleset_delete: refuses a referenced version, ignores reservations. *)

RemoveVersion(p) ==
    /\ At(p, "remove")
    /\ req[p].arg \notin References
    /\ disk' = disk \ {req[p].arg}
    /\ Release(p)
    /\ UNCHANGED <<account, draft, published, readable, marker, trash>>

RefuseRemove(p) ==
    /\ At(p, "remove")
    /\ req[p].arg \in References
    /\ Release(p)
    /\ UNCHANGED <<account, draft, published, readable, disk, marker, trash>>

-----------------------------------------------------------------------------
(* The administrator's operations on the account.                          *)

Toggle(p) ==
    /\ At(p, "toggle")
    /\ account' = IF account = "enabled" THEN "disabled" ELSE "enabled"
    /\ Release(p)
    /\ UNCHANGED <<draft, published, readable, disk, marker, trash>>

MoveTo(p, s) == req' = [req EXCEPT ![p].pc = s] /\ UNCHANGED lock

\* delete_regular_user: the configuration row goes with it by cascade.
DropRow(p) ==
    /\ At(p, "dropRow")
    /\ account' = "gone"
    /\ draft' = {}
    /\ published' = {}
    /\ readable' = TRUE
    /\ MoveTo(p, "detach")
    /\ UNCHANGED <<disk, marker, trash>>

\* _move_user_ruleset_to_tombstone: one rename of the whole directory.
Detach(p) ==
    /\ At(p, "detach")
    /\ trash' = trash \cup disk
    /\ disk' = {}
    /\ MoveTo(p, "dropMarkers")
    /\ UNCHANGED <<account, draft, published, readable, marker>>

DropMarkers(p) ==
    /\ At(p, "dropMarkers")
    /\ marker' = [f \in Files |-> "none"]
    /\ MoveTo(p, "purge")
    /\ UNCHANGED <<account, draft, published, readable, disk, trash>>

Purge(p) ==
    /\ At(p, "purge")
    /\ trash' = {}
    /\ Release(p)
    /\ UNCHANGED <<account, draft, published, readable, disk, marker>>

-----------------------------------------------------------------------------
(* The environment: time, exceptions and the container.                    *)

\* RULESET_PENDING_TTL_SECONDS have passed since the upload of f.
Expire(f) ==
    /\ marker[f] = "active"
    /\ marker' = [marker EXCEPT ![f] = "expired"]
    /\ UNCHANGED <<account, draft, published, readable, disk, trash, lock, req>>

FailHoldingLock(p) ==
    /\ req[p].pc \in Steps
    /\ disk' \in {disk, disk \ {req[p].tmp}}
    /\ req' = [req EXCEPT ![p] = Idle]
    /\ UNCHANGED <<account, draft, published, readable, marker, trash, lock>>
\* An OSError or a database error ends the request before its next effect.
\* The finally clause unlinks the partial write, and may itself fail.
Fail(p) ==
    /\ req[p].pc \in Steps
    /\ disk' \in {disk, disk \ {req[p].tmp}}
    /\ Release(p)
    /\ UNCHANGED <<account, draft, published, readable, marker, trash>>

\* start.sh stops both processes when either exits; flock dies with them.
Crash ==
    /\ \E p \in Procs : ~At(p, "idle")
    /\ lock' = None
    /\ req' = [p \in Procs |-> Idle]
    /\ UNCHANGED <<account, draft, published, readable, disk, marker, trash>>

-----------------------------------------------------------------------------
\* The steps a lock holder takes on its own, one per durable effect.
Step(p) ==
    \/ BeginCleanup(p)
    \/ \E x \in Files \cup Temps : Unlink(p, x)
    \/ EndCleanup(p)
    \/ ReuseVersion(p)
    \/ \E t \in Temps : WriteTemporary(p, t)
    \/ RefuseQuota(p)
    \/ Replace(p)
    \/ Reserve(p)
    \/ Validate(p)
    \/ SaveDraft(p)
    \/ Commit(p)
    \/ Promote(p)
    \/ RemoveVersion(p)
    \/ RefuseRemove(p)
    \/ Toggle(p)
    \/ DropRow(p)
    \/ Detach(p)
    \/ DropMarkers(p)
    \/ Purge(p)

Next ==
    \/ \E p \in Procs :
         \/ ArriveUser(p)
         \/ ArriveAdmin(p)
         \/ \E o \in Ops : \E f \in ArgsOf(o), b \in BodiesOf(o) : Enter(p, o, f, b)
         \/ Reject(p)
         \/ Step(p)
         \/ Fail(p)
    \/ \E f \in Files : Expire(f)
    \/ Crash

\* A thread inside the critical section keeps running: it waits for nothing
\* but bounded I/O and the mihomo process, which has a timeout.
Fairness == \A p \in Procs : WF_vars(Step(p))

Spec == Init /\ [][Next]_vars /\ Fairness

-----------------------------------------------------------------------------
(* Properties                                                              *)

\* A version leaves the user's directory only while neither the saved draft
\* nor the published YAML names it (README.md:316): no interleaving, failure
\* or crash lets a cleanup act on references it read too early.
ReferencedVersionsStay ==
    [][\A f \in (disk \ disk') \cap Files : f \notin References]_vars

\* An upload whose reservation has not expired survives every cleanup of
\* every process (api.py:1337-1340); only deleting that version by name or
\* deleting the account removes it.
ReservedVersionsStay ==
    [][\A f \in (disk \ disk') \cap Reservations :
          \/ account = "gone"
          \/ \E p \in Procs : At(p, "remove") /\ req[p].arg = f]_vars

\* A live reservation is released only once it is no longer needed: the saved
\* draft or the published YAML names the version, or its file is gone.  A
\* crash therefore never leaves an upload with neither.
ReservationHandover ==
    [][\A f \in Reservations :
          marker'[f] = "none" =>
             \/ f \notin disk
             \/ f \in References
             \/ account = "gone"]_vars

\* While the account is disabled or deleted, nothing is added to it: no draft
\* or publication changes, no version is stored and none reserved, whatever
\* request was authenticated before (api.py:1329-1333).
WritesOnlyWhileEnabled ==
    [][account # "enabled" =>
          /\ draft' \subseteq draft
          /\ published' \in {published, {}}
          /\ disk' \subseteq disk
          /\ \A f \in Files : marker'[f] = "active" => marker[f] = "active"
          /\ account = "gone" => account' = "gone"]_vars

\* The quota counts every directory entry, also the partial writes that
\* crashed uploads leave behind.
QuotaRespected == Cardinality(disk) <= MaxFiles

\* A cleanup none of whose unlinks failed leaves only referenced versions and
\* reservations: abandoned uploads and partial writes do not accumulate.
CleanupLeavesNoOrphan ==
    \A p \in Procs :
        At(p, "unlink") /\ req[p].todo = {} /\ req[p].failed = {} =>
            disk \subseteq References \cup {f \in Files : marker[f] # "none"}

\* The invariant behind the safety properties above: the lock is what keeps
\* the references and reservations a cleanup read true until it has unlinked
\* the last entry, and the account row true until the last effect.
Guarded(p) ==
    /\ req[p].pc \in Steps <=> lock = p
    /\ lock = p => req[p].op \in Ops
    /\ req[p].op \in FileOps => req[p].arg \in Files
    /\ req[p].pc \in {"write", "replace", "reserve"} => req[p].op = "upload"
    /\ req[p].pc = "replace" => req[p].tmp \in disk
    /\ req[p].pc = "reserve" => req[p].arg \in disk
    /\ req[p].pc = "remove" => req[p].op = "delete"
    /\ req[p].pc = "promote" => req[p].body = draft
    /\ req[p].pc \in UserSteps => account = "enabled"
    /\ req[p].pc \in {"toggle", "dropRow"} => account # "gone"
    /\ req[p].pc \in {"detach", "dropMarkers", "purge"} => account = "gone"
    /\ req[p].pc = "detach" => References = {}
    /\ req[p].pc = "unlink" =>
         /\ req[p].todo \cap (References \cup Reservations) = {}
         /\ disk \subseteq req[p].todo \cup req[p].failed \cup References
                            \cup {f \in Files : marker[f] # "none"}

LockProtects == \A p \in Procs : Guarded(p)

\* What a user relies on, whatever the requests, failures and crashes: the
\* store implements RulesetContract.  A version counts as stored once its
\* name exists; partial writes and expired markers are invisible.
Promise == INSTANCE RulesetContract WITH
    Versions <- Files,
    stored   <- disk \cap Files,
    named    <- References \cap Files,
    reserved <- Reservations

Implements == Promise!Contract

\* Whoever holds the lock releases it, also when its request fails: no
\* exception path leaves the user locked out of both interfaces.
LockReleased == \A p \in Procs : lock = p ~> lock # p

=============================================================================
