----------------------------- MODULE DraftSync -----------------------------
(***************************************************************************)
(* One browser tab and the stored draft of its user                        *)
(* (design/assets/app.js against PUT /api/config, POST /api/validate and   *)
(* POST /api/publish of src/src/api.py).  The tab numbers its edits and    *)
(* saves them on a debounce timer through a promise chain, while           *)
(* validations and publications carry the draft on requests of their own.  *)
(*                                                                         *)
(* A draft is the number of the edit that produced it.  Everything the     *)
(* page does between two events of its event loop is one action.           *)
(***************************************************************************)
EXTENDS Integers, Sequences, FiniteSets

CONSTANTS
    Buttons,    \* bound: the callers of flushDraftSave that the user presses
    MaxEdits,   \* bound: edits the user makes
    MaxLost   \* bound: requests that fail or lose their connection

ASSUME BoundsAssumption == MaxEdits \in Nat /\ MaxLost \in Nat

Drafts == 0..MaxEdits

\* The three callers of flushDraftSave: the save button, validate, publish.
Flows    == {"save", "validate", "publish"}
Requests == {"validate", "publish"}

ASSUME ButtonsAssumption == Buttons \subseteq Flows

VARIABLES
    dirty,      \* state.dirtyGeneration, and the draft on the page
    saved,      \* state.savedGeneration
    timer,      \* state.saveTimer # null
    chain,      \* the saves of state.saveSequence that have not settled
    lastOk,     \* whether the last settled save of the chain succeeded
    saveError,  \* state.saveError # null
    valid,      \* state.validatedGeneration, -1 without a valid answer
    flow,       \* what each caller of flushDraftSave awaits
    put,        \* the PUT of the chain's head: none, request, ok, error
    abandoned,  \* requests whose connection broke before the server ran them
    draft,      \* the stored draft
    published,  \* the draft in final_yaml
    checked,    \* history: drafts that a validate request found valid
    writer,     \* history: the kind of request that stored the draft last
    lost      \* failures so far

client == <<dirty, saved, timer, chain, lastOk, saveError, valid, flow>>
server == <<draft, published, checked, writer>>
syncVars   == <<client, put, abandoned, server, lost>>

IdleFlow == [pc |-> "idle", gen |-> 0, wait |-> 0]

FlowState == [pc   : {"idle", "flush", "tail", "request", "ok", "bad", "error"},
              gen  : Drafts,            \* the generation captured by the caller
              wait : 0..MaxEdits + 4]   \* settled saves until its await resumes

TypeOKSync ==
    /\ dirty \in Drafts /\ saved \in Drafts /\ valid \in Drafts \cup {-1}
    /\ timer \in BOOLEAN /\ lastOk \in BOOLEAN /\ saveError \in BOOLEAN
    /\ chain \in Seq(Drafts) /\ Len(chain) <= MaxEdits + 4
    /\ flow \in [Flows -> FlowState]
    /\ put \in {"none", "request", "ok", "error"}
    /\ abandoned \subseteq [kind : {"put"} \cup Requests, body : Drafts]
    /\ draft \in Drafts /\ published \in Drafts
    /\ checked \subseteq Drafts /\ writer \in {"put", "abandoned"} \cup Requests
    /\ lost \in 0..MaxLost
    /\ put = "none" <=> chain = <<>>
    /\ \A f \in Flows : flow[f].pc \in {"flush", "tail"} <=> flow[f].wait > 0
    /\ \A f \in Flows : flow[f].wait <= Len(chain)

\* loadBootstrap has just applied the stored draft.
InitSync ==
    /\ dirty = 0 /\ saved = 0 /\ valid = -1
    /\ timer = FALSE /\ lastOk = TRUE /\ saveError = FALSE
    /\ chain = <<>> /\ put = "none" /\ abandoned = {}
    /\ flow = [f \in Flows |-> IdleFlow]
    /\ draft = 0 /\ published = 0 /\ checked = {} /\ writer = "put"
    /\ lost = 0

-----------------------------------------------------------------------------
(* The page's bookkeeping.  s is the record [chain, flow] under change.    *)

\* hasUnsavedChanges
HasUnsavedChanges == timer \/ chain # <<>> \/ dirty > saved

\* currentValidation
CurrentValidation == valid = dirty

\* flushDraftSave resumes its caller: save is done, validate and publish send
\* the draft that is on the page now, publish only when it is validated.
ProceedUnvalidated(s, f) ==
    [s EXCEPT !.flow[f] = IF f = "save" THEN IdleFlow
                          ELSE [pc |-> "request", gen |-> dirty, wait |-> 0]]
Proceed(s, f) ==
    [s EXCEPT !.flow[f] = IF f = "save" \/ (f = "publish" /\ ~CurrentValidation)
                            THEN IdleFlow
                            ELSE [pc |-> "request", gen |-> dirty, wait |-> 0]]

\* queueDraftSave by a flush, which awaits the save it queued.
QueueAndAwait(s, f) ==
    [s EXCEPT !.chain = Append(@, dirty),
              !.flow[f] = [pc |-> "flush", gen |-> dirty, wait |-> Len(s.chain) + 1]]

\* await state.saveSequence: its last save, or the outcome of a settled one.
AwaitChain(s, f, ok) ==
    IF s.chain # <<>>
      THEN [s EXCEPT !.flow[f] = [@ EXCEPT !.pc = "tail", !.wait = Len(s.chain)]]
      ELSE IF ok THEN Proceed(s, f) ELSE [s EXCEPT !.flow[f] = IdleFlow]

\* One turn of the loop of flushDraftSave after a save that succeeded.
Resume(s, f, savedNow) ==
    IF s.flow[f].pc = "tail" THEN Proceed(s, f)
    ELSE IF s.flow[f].gen # dirty /\ dirty > savedNow THEN QueueAndAwait(s, f)
    ELSE AwaitChain(s, f, TRUE)

SettleForgettingFailure(s, f, ok, savedNow) ==
    IF s.flow[f].wait = 0 \/ ~ok THEN s
    ELSE IF s.flow[f].wait > 1 THEN [s EXCEPT !.flow[f].wait = @ - 1]
    ELSE Resume(s, f, savedNow)
\* The head of the chain settles: a caller awaiting it resumes or throws.
Settle(s, f, ok, savedNow) ==
    IF s.flow[f].wait = 0 THEN s
    ELSE IF s.flow[f].wait > 1 THEN [s EXCEPT !.flow[f].wait = @ - 1]
    ELSE IF ok THEN Resume(s, f, savedNow)
    ELSE [s EXCEPT !.flow[f] = IdleFlow]

SettleAll(s, ok, savedNow) ==
    Settle(Settle(Settle(s, "save", ok, savedNow), "validate", ok, savedNow),
           "publish", ok, savedNow)

\* Install s; the head of a chain that was empty is sent at once.
Install(s) ==
    /\ chain' = s.chain
    /\ flow' = s.flow

PutAfter(s) == IF s.chain = <<>> THEN "none" ELSE "request"

-----------------------------------------------------------------------------
(* The user and the timer.                                                 *)

\* markDirty, which restarts the debounce timer.
Edit ==
    /\ dirty < MaxEdits
    /\ dirty' = dirty + 1
    /\ valid' = -1
    /\ saveError' = FALSE
    /\ timer' = TRUE
    /\ UNCHANGED <<saved, chain, lastOk, flow, put, abandoned, server, lost>>

TimerFiresIfQuiet ==
    /\ timer
    /\ timer' = FALSE
    /\ chain' = IF dirty > saved /\ chain = <<>> THEN <<dirty>> ELSE chain
    /\ put' = IF put = "none" /\ chain' # <<>> THEN "request" ELSE put
    /\ UNCHANGED <<dirty, saved, lastOk, saveError, valid, flow, abandoned, server, lost>>
\* scheduleDraftSave's callback.
TimerFires ==
    /\ timer
    /\ timer' = FALSE
    /\ chain' = IF dirty > saved THEN Append(chain, dirty) ELSE chain
    /\ put' = IF put = "none" /\ chain' # <<>> THEN "request" ELSE put
    /\ UNCHANGED <<dirty, saved, lastOk, saveError, valid, flow, abandoned, server, lost>>

\* saveDraftBtn, validateDraft and publishDraft, up to their first await.
Begin(f) ==
    /\ flow[f].pc = "idle"
    /\ LET s == [chain |-> chain, flow |-> flow] IN
       LET t == IF dirty > saved THEN QueueAndAwait(s, f) ELSE AwaitChain(s, f, lastOk) IN
         /\ Install(t)
         /\ put' = IF put = "none" THEN PutAfter(t) ELSE put
    /\ timer' = FALSE
    /\ UNCHANGED <<dirty, saved, lastOk, saveError, valid, abandoned, server, lost>>

-----------------------------------------------------------------------------
(* The server.  Each handler is one step: it holds the user's lock.        *)

Fault == lost < MaxLost /\ lost' = lost + 1

StoreDraft(d, w) == draft' = d /\ writer' = w

\* _api_put_config_sync; a 500 may come before or after the save.
ServePut ==
    /\ put = "request"
    /\ \/ StoreDraft(Head(chain), "put") /\ put' = "ok" /\ UNCHANGED lost
       \/ Fault /\ put' = "error" /\ \/ StoreDraft(Head(chain), "put")
                                     \/ UNCHANGED <<draft, writer>>
    /\ UNCHANGED <<client, abandoned, published, checked>>

\* _api_validate_sync: the draft is stored whatever mihomo says of it.
ServeValidate ==
    /\ flow["validate"].pc = "request"
    /\ \/ /\ StoreDraft(flow["validate"].gen, "validate")
          /\ \/ /\ flow' = [flow EXCEPT !["validate"].pc = "ok"]
                /\ checked' = checked \cup {flow["validate"].gen}
             \/ flow' = [flow EXCEPT !["validate"].pc = "bad"] /\ UNCHANGED checked
          /\ UNCHANGED lost
       \/ /\ Fault
          /\ flow' = [flow EXCEPT !["validate"].pc = "error"]
          /\ UNCHANGED <<draft, writer, checked>>
    /\ UNCHANGED <<dirty, saved, timer, chain, lastOk, saveError, valid, put, abandoned, published>>

\* _api_publish_sync: stored and published together, or refused with 409.
ServePublish ==
    /\ flow["publish"].pc = "request"
    /\ \/ /\ StoreDraft(flow["publish"].gen, "publish")
          /\ published' = flow["publish"].gen
          /\ flow' = [flow EXCEPT !["publish"].pc = "ok"]
          /\ UNCHANGED lost
       \/ /\ flow' = [flow EXCEPT !["publish"].pc = "bad"]
          /\ UNCHANGED <<draft, writer, published, lost>>
       \/ /\ Fault
          /\ flow' = [flow EXCEPT !["publish"].pc = "error"]
          /\ UNCHANGED <<draft, writer, published>>
    /\ UNCHANGED <<dirty, saved, timer, chain, lastOk, saveError, valid, put, abandoned, checked>>

\* A request whose client has given up is still run; a publish may refuse.
ServeAbandoned(m) ==
    /\ m \in abandoned
    /\ abandoned' = abandoned \ {m}
    /\ \/ /\ StoreDraft(m.body, "abandoned")
          /\ published' = IF m.kind = "publish" THEN m.body ELSE published
       \/ m.kind = "publish" /\ UNCHANGED <<draft, writer, published>>
    /\ UNCHANGED <<client, put, checked, lost>>

-----------------------------------------------------------------------------
(* Answers.                                                                *)

\* fetch rejects: the request or its answer is lost.
LosePut ==
    /\ put \in {"request", "ok"}
    /\ Fault
    /\ put' = "error"
    /\ \/ /\ put = "request"
          /\ abandoned' = abandoned \cup {[kind |-> "put", body |-> Head(chain)]}
       \/ UNCHANGED abandoned
    /\ UNCHANGED <<client, server>>

LoseFlow(f) ==
    /\ flow[f].pc \in {"request", "ok", "bad"}
    /\ Fault
    /\ flow' = [flow EXCEPT ![f].pc = "error"]
    /\ \/ /\ flow[f].pc = "request"
          /\ abandoned' = abandoned \cup {[kind |-> f, body |-> flow[f].gen]}
       \/ UNCHANGED abandoned
    /\ UNCHANGED <<dirty, saved, timer, chain, lastOk, saveError, valid, put, server>>

\* The saved generation after the answer to the head of the chain.
SavedByAnyAnswer == IF put = "ok" THEN dirty ELSE saved
SavedByAnswer == IF put = "ok" /\ Head(chain) = dirty THEN dirty ELSE saved

\* queueDraftSave's handlers: only an answer about the newest edit counts.
PutAnswered ==
    /\ put \in {"ok", "error"}
    /\ saved' = SavedByAnswer
    /\ saveError' = IF Head(chain) = dirty THEN put = "error" ELSE saveError
    /\ lastOk' = (put = "ok")
    /\ LET s == SettleAll([chain |-> Tail(chain), flow |-> flow], put = "ok", saved') IN
         Install(s) /\ put' = PutAfter(s)
    /\ UNCHANGED <<dirty, timer, valid, abandoned, server, lost>>

ValidateAnsweredLate ==
    /\ flow["validate"].pc \in {"ok", "bad", "error"}
    /\ valid' = CASE flow["validate"].pc = "ok"    -> dirty
                  [] flow["validate"].pc = "bad"   -> -1
                  [] flow["validate"].pc = "error" -> valid
    /\ flow' = [flow EXCEPT !["validate"] = IdleFlow]
    /\ UNCHANGED <<dirty, saved, timer, chain, lastOk, saveError, put, abandoned, server, lost>>
\* validateDraft after its request: an answer about an older draft is dropped.
ValidateAnswered ==
    /\ flow["validate"].pc \in {"ok", "bad", "error"}
    /\ valid' = IF flow["validate"].pc = "error" THEN valid
                ELSE IF flow["validate"].pc = "ok" /\ flow["validate"].gen = dirty THEN dirty
                ELSE -1
    /\ flow' = [flow EXCEPT !["validate"] = IdleFlow]
    /\ UNCHANGED <<dirty, saved, timer, chain, lastOk, saveError, put, abandoned, server, lost>>

\* publishDraft after its request.
PublishAnswered ==
    LET answer == flow["publish"]
        current == answer.pc = "ok" /\ answer.gen = dirty
    IN
    /\ answer.pc \in {"ok", "bad", "error"}
    /\ valid' = IF current THEN dirty ELSE valid
    /\ saved' = IF current THEN dirty ELSE saved
    /\ saveError' = (~current /\ saveError)
    /\ timer' = (timer \/ (answer.pc = "ok" /\ ~current))
    /\ flow' = [flow EXCEPT !["publish"] = IdleFlow]
    /\ UNCHANGED <<dirty, chain, lastOk, put, abandoned, server, lost>>

NextSync ==
    \/ Edit
    \/ TimerFires
    \/ \E f \in Buttons : Begin(f)
    \/ ServePut
    \/ ServeValidate
    \/ ServePublish
    \/ \E m \in abandoned : ServeAbandoned(m)
    \/ LosePut
    \/ \E f \in Requests : LoseFlow(f)
    \/ PutAnswered
    \/ ValidateAnswered
    \/ PublishAnswered

\* The timer fires, the server answers (its lock is released, mihomo has a
\* timeout) and the page handles what arrives.  The user owes nothing.
Fairness ==
    /\ WF_syncVars(TimerFires)
    /\ WF_syncVars(ServePut) /\ WF_syncVars(ServeValidate) /\ WF_syncVars(ServePublish)
    /\ WF_syncVars(PutAnswered) /\ WF_syncVars(ValidateAnswered) /\ WF_syncVars(PublishAnswered)

SpecSync == InitSync /\ [][NextSync]_syncVars /\ Fairness

-----------------------------------------------------------------------------
(* Properties                                                              *)

\* The publish button is enabled only for a draft that the server checked and
\* found valid as it stands: no late answer validates a newer edit.
ValidationIsCurrent == valid # -1 => valid = dirty /\ valid \in checked

\* Only drafts that were checked before are published, although validation
\* and publication are separate requests with edits in between.
PublishedWasChecked == published # 0 => published \in checked

\* Autosave by itself loses nothing: when the page shows no unsaved change and
\* a save stored the draft last, the stored draft is the newest edit.
SavesAloneLoseNothing ==
    ~HasUnsavedChanges /\ writer = "put" => draft = dirty

\* An edit is never forgotten: it is saved, or the failure is shown.
EditsAreSavedOrReported == []<>(dirty = saved \/ saveError)

\* No flag stays set: a validation or publication that begins also ends,
\* whatever fails on the way, and its button works again.
FlowsEnd == \A f \in Flows : []<>(flow[f].pc = "idle")

\* The comments of app.js:679 and app.js:598 say that without unsaved changes
\* everything is on the server and that no edit is lost silently.
NothingUnsavedMeansStored ==
    /\ ~HasUnsavedChanges
    /\ \A f \in Flows : flow[f].pc = "idle"
    /\ abandoned = {}
    => draft = dirty
=============================================================================
