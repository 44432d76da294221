---------------------------- MODULE TabSession ----------------------------
(***************************************************************************)
(* One browser tab whose login session is shared with other tabs           *)
(* (design/assets/app.js; cookie and CSRF checks of src/src/api.py).  The  *)
(* cookie belongs to the browser, the CSRF token and the draft belong to   *)
(* the tab, and every request that is refused refreshes the session and is *)
(* tried once more.                                                        *)
(*                                                                         *)
(* A draft is the account whose data it holds, or Nobody when it is empty. *)
(***************************************************************************)
EXTENDS Integers, Sequences, FiniteSets, SequencesExt

CONSTANTS
    Accounts,
    Nobody,
    MaxLogins,    \* bound: sessions that are created
    MaxEdits,     \* bound: edits since the page was loaded
    MaxParallel,  \* bound: requests under way when the user starts another
    MaxRequests   \* bound: requests that the user starts

ASSUME NobodyAssumption == Nobody \notin Accounts
ASSUME TabBoundsAssumption ==
    /\ MaxLogins \in Nat \ {0} /\ MaxEdits \in Nat
    /\ MaxParallel \in Nat /\ MaxRequests \in Nat

VARIABLES
    owner,    \* the account of every session created so far
    live,     \* sessions neither revoked nor expired
    drafts,   \* account |-> its stored draft
    cookie,   \* the browser's session, 0 without a cookie
    tab,      \* the variables of the page
    reqs,     \* requests of the tab that have not settled, oldest first
    started   \* requests the user started, for the bound

server  == <<owner, live, drafts>>
tabVars == <<server, cookie, tab, reqs, started>>

Sessions == 0..MaxLogins
Content  == Accounts \cup {Nobody}

Tab == [user    : Content,     \* state.user
        authed  : BOOLEAN,     \* state.authenticated
        csrf    : Sessions,    \* the session state.csrfToken is bound to
        expired : Content,     \* state.sessionExpiredUser
        epoch   : Nat,         \* state.authEpoch
        page    : Content,     \* state.config
        dirty   : 0..MaxEdits, \* state.dirtyGeneration
        saved   : 0..MaxEdits, \* state.savedGeneration
        timer   : BOOLEAN,     \* state.saveTimer # null
        overlay : BOOLEAN]     \* the login layer covers the page

\* put: a save of the chain; validate: carries the draft outside the chain;
\* load: loadBootstrap.  session is the cookie a request was sent with and,
\* once refreshed, the session that /api/session found.
TabRequest == [kind    : {"put", "validate", "load"},
            pc      : {"queued", "sent", "ok", "denied", "refreshing", "refreshed"},
            body    : Content,
            gen     : 0..MaxEdits,
            epoch   : Nat,
            attempt : 0..2,
            session : Sessions,
            token   : Sessions]

TypeOKTab ==
    /\ owner \in Seq(Accounts) /\ Len(owner) <= MaxLogins
    /\ live \subseteq 1..Len(owner) /\ cookie \in 0..Len(owner)
    /\ drafts \in [Accounts -> Content]
    /\ tab \in Tab /\ reqs \in Seq(TabRequest) /\ started \in 0..MaxRequests
    /\ tab.saved <= tab.dirty
    /\ \A i \in DOMAIN reqs :
         /\ reqs[i].epoch <= tab.epoch
         /\ reqs[i].pc \in {"refreshing", "refreshed"} => reqs[i].attempt > 0
         /\ reqs[i].attempt = 2 => reqs[i].kind = "load"

\* The page of an account that has just been loaded.
InitTab ==
    /\ \E x \in Accounts :
         /\ owner = <<x>>
         /\ tab = [user |-> x, authed |-> TRUE, csrf |-> 1, expired |-> Nobody,
                   epoch |-> 0, page |-> x, dirty |-> 0, saved |-> 0,
                   timer |-> FALSE, overlay |-> FALSE]
    /\ live = {1} /\ cookie = 1
    /\ drafts = [x \in Accounts |-> x]
    /\ reqs = <<>> /\ started = 0

-----------------------------------------------------------------------------
(* What the page does to its variables t and to its requests q.            *)

BumpAuthEpoch(t) == [t EXCEPT !.epoch = @ + 1]

\* resetUserState
ResetUserState(t) ==
    [BumpAuthEpoch(t) EXCEPT !.page = Nobody, !.dirty = 0, !.saved = 0,
                             !.timer = FALSE, !.expired = Nobody]

\* showAuthOverlay
ShowAuthOverlay(t) == [t EXCEPT !.overlay = TRUE, !.authed = FALSE]

\* refreshSession's accountChanged, when /api/session answers with session s.
AccountChanged(t, s) == s # 0 /\ t.user # Nobody /\ t.user # owner[s]

\* No session: the account whose session was lost is noted for the login.
SignedOut(t) ==
    [t EXCEPT !.csrf = 0, !.user = Nobody, !.authed = FALSE,
              !.expired = IF t.authed /\ t.user # Nobody THEN t.user ELSE @]

RefreshKeepingUser(t, s) ==
    IF s = 0 THEN SignedOut(t)
             ELSE [t EXCEPT !.csrf = s, !.authed = TRUE,
                            !.user = IF @ = Nobody THEN owner[s] ELSE @]
\* refreshSession
RefreshSession(t, s) ==
    IF s = 0 THEN SignedOut(t)
    ELSE LET u == IF AccountChanged(t, s) THEN ResetUserState(t) ELSE t IN
         [u EXCEPT !.csrf = s, !.user = owner[s], !.authed = TRUE]

New(kind, body, t) ==
    [kind |-> kind, pc |-> "queued", body |-> body, gen |-> t.dirty,
     epoch |-> t.epoch, attempt |-> 0, session |-> 0, token |-> 0]

\* fetch: the browser adds its cookie c, the page its CSRF token.
Sent(r, t, c) == [r EXCEPT !.pc = "sent", !.session = c, !.token = t.csrf]

WaitsForNothing(q, i) == FALSE
\* A save waits for the older saves of its saveSequence, everything else is
\* sent at once.  bumpAuthEpoch starts a new sequence but leaves the old one.
Waits(q, i) ==
    q[i].kind = "put" /\ \E k \in 1..(i - 1) : q[k].kind = "put" /\ q[k].epoch = q[i].epoch

Flush(q, t, c) ==
    [i \in DOMAIN q |-> IF q[i].pc = "queued" /\ ~Waits(q, i) THEN Sent(q[i], t, c) ELSE q[i]]

Install(t, q, c) == tab' = t /\ reqs' = Flush(q, t, c)

-----------------------------------------------------------------------------
(* The user and the timer.                                                 *)

MayStart == Len(reqs) < MaxParallel /\ started < MaxRequests /\ started' = started + 1

\* markDirty; the login layer makes the page inert.
Edit ==
    /\ ~tab.overlay
    /\ tab.dirty < MaxEdits
    /\ tab' = [tab EXCEPT !.dirty = @ + 1, !.timer = TRUE,
                          !.page = IF @ = Nobody THEN tab.user ELSE @]
    /\ UNCHANGED <<server, cookie, reqs, started>>

\* scheduleDraftSave's callback and queueDraftSave.
AutoSave ==
    /\ tab.timer
    /\ LET t == [tab EXCEPT !.timer = FALSE] IN
         \/ /\ t.authed /\ t.dirty > t.saved
            /\ MayStart
            /\ Install(t, Append(reqs, New("put", t.page, t)), cookie)
         \/ /\ ~(t.authed /\ t.dirty > t.saved)
            /\ tab' = t
            /\ UNCHANGED <<reqs, started>>
    /\ UNCHANGED <<server, cookie>>

\* validateDraft once its flushDraftSave has nothing left to save.
ValidateDraft ==
    /\ ~tab.overlay /\ ~tab.timer /\ tab.dirty = tab.saved
    /\ \A i \in DOMAIN reqs :
         reqs[i].epoch = tab.epoch => reqs[i].kind \notin {"put", "validate"}
    /\ MayStart
    /\ Install(tab, Append(reqs, New("validate", tab.page, tab)), cookie)
    /\ UNCHANGED <<server, cookie>>

NewSession(x) ==
    /\ Len(owner) < MaxLogins
    /\ owner' = Append(owner, x)
    /\ live' = live \cup {Len(owner')}
    /\ cookie' = Len(owner')
    /\ UNCHANGED drafts

\* login and completeAuthentication: the account that expired may keep its
\* unsaved edits, any other starts from an empty page.
Login(x) ==
    LET same == tab.expired = x
        s == IF tab.expired # Nobody /\ ~same THEN ResetUserState(BumpAuthEpoch(tab))
                                            ELSE BumpAuthEpoch(tab)
        t == [s EXCEPT !.user = x, !.authed = TRUE, !.csrf = Len(owner) + 1,
                       !.expired = Nobody, !.overlay = FALSE]
        unsaved == t.dirty > t.saved \/ t.timer
    IN
    /\ tab.overlay
    /\ NewSession(x)
    /\ MayStart
    /\ \/ /\ same /\ unsaved
          /\ LET u == [t EXCEPT !.timer = FALSE] IN
               Install(u, IF u.dirty > u.saved THEN Append(reqs, New("put", u.page, u)) ELSE reqs,
                       cookie')
       \/ Install(t, Append(reqs, New("load", Nobody, t)), cookie')

-----------------------------------------------------------------------------
(* The other tabs and time.                                                *)

OtherTabLogin(x) ==
    NewSession(x) /\ UNCHANGED <<tab, reqs, started>>

OtherTabLogout ==
    /\ cookie \in live
    /\ live' = live \ {cookie}
    /\ cookie' = 0
    /\ UNCHANGED <<owner, drafts, tab, reqs, started>>

SessionExpires ==
    /\ \E s \in live : live' = live \ {s}
    /\ UNCHANGED <<owner, drafts, cookie, tab, reqs, started>>

\* The CSRF token of the page is older than its hour.
TokenExpires ==
    /\ tab.csrf # 0
    /\ tab' = [tab EXCEPT !.csrf = 0]
    /\ UNCHANGED <<server, cookie, reqs, started>>

-----------------------------------------------------------------------------
(* The server.                                                             *)

\* _require_api_user, and _require_api_csrf for what is not a GET.
Accepts(r) == r.session \in live /\ (r.kind = "load" \/ r.token = r.session)

Serve(i) ==
    LET r == reqs[i] IN
    /\ r.pc = "sent"
    /\ \/ /\ ~Accepts(r)
          /\ reqs' = [reqs EXCEPT ![i].pc = "denied"]
          /\ UNCHANGED drafts
       \/ /\ Accepts(r)
          /\ r.kind = "load"
          /\ reqs' = [reqs EXCEPT ![i].pc = "ok", ![i].body = drafts[owner[r.session]]]
          /\ UNCHANGED drafts
       \/ /\ Accepts(r)
          /\ r.kind # "load"
          /\ reqs' = [reqs EXCEPT ![i].pc = "ok"]
          /\ drafts' = [drafts EXCEPT ![owner[r.session]] = r.body]
    /\ UNCHANGED <<owner, live, cookie, tab, started>>

\* api_session
ServeSession(i) ==
    /\ reqs[i].pc = "refreshing"
    /\ reqs' = [reqs EXCEPT ![i].pc = "refreshed",
                            ![i].session = IF @ \in live THEN @ ELSE 0]
    /\ UNCHANGED <<server, cookie, tab, started>>

-----------------------------------------------------------------------------
(* Answers.                                                                *)

Settled(i) == RemoveAt(reqs, i)

\* A save counts when nothing newer was edited; a load replaces the page.
Answered(i) ==
    LET r == reqs[i]
        fresh == r.epoch = tab.epoch
    IN
    /\ r.pc = "ok"
    /\ Install(
         IF fresh /\ r.kind = "put" /\ r.gen = tab.dirty
           THEN [tab EXCEPT !.saved = r.gen]
         ELSE IF fresh /\ r.kind = "load"
           THEN [tab EXCEPT !.page = r.body, !.dirty = 0, !.saved = 0,
                            !.authed = TRUE, !.overlay = FALSE]
         ELSE tab,
         Settled(i), cookie)
    /\ UNCHANGED <<server, cookie, started>>

\* apiRequest gives up; loadBootstrap then asks for the session once more.
Fails(i, t) ==
    IF reqs[i].kind = "load" /\ reqs[i].epoch = t.epoch
      THEN Install(t, [reqs EXCEPT ![i].pc = "refreshing", ![i].attempt = 2,
                                   ![i].session = cookie], cookie)
      ELSE Install(t, Settled(i), cookie)

\* 401 or 403: the first time the session is refreshed.
Denied(i) ==
    /\ reqs[i].pc = "denied"
    /\ \/ /\ reqs[i].attempt = 0
          /\ reqs' = [reqs EXCEPT ![i].pc = "refreshing", ![i].attempt = 1,
                                  ![i].session = cookie]
          /\ UNCHANGED tab
       \/ reqs[i].attempt = 1 /\ Fails(i, tab)
    /\ UNCHANGED <<server, cookie, started>>

\* refreshSession resolves inside apiRequest: the account changed, the request
\* is sent again, or the session has expired.
Refreshed(i) ==
    LET r == reqs[i]
        t == RefreshSession(tab, r.session)
    IN
    /\ r.pc = "refreshed" /\ r.attempt = 1
    /\ \/ /\ AccountChanged(tab, r.session)
          /\ Install(t, Append(Settled(i), New("load", Nobody, t)), cookie)
       \/ /\ r.session # 0 /\ ~AccountChanged(tab, r.session)
          /\ Install(t, [reqs EXCEPT ![i] = Sent(r, t, cookie)], cookie)
       \/ /\ r.session = 0
          /\ Fails(i, IF t.overlay THEN t ELSE ShowAuthOverlay(t))
    /\ UNCHANGED <<server, cookie, started>>

\* The same in loadBootstrap's handler, which shows the login layer.
LoadRefused(i) ==
    LET t == RefreshSession(tab, reqs[i].session) IN
    /\ reqs[i].pc = "refreshed" /\ reqs[i].attempt = 2
    /\ Install(IF reqs[i].epoch = t.epoch THEN ShowAuthOverlay(t) ELSE t,
               Settled(i), cookie)
    /\ UNCHANGED <<server, cookie, started>>

NextTab ==
    \/ Edit
    \/ AutoSave
    \/ ValidateDraft
    \/ \E x \in Accounts : Login(x)
    \/ \E x \in Accounts : OtherTabLogin(x)
    \/ OtherTabLogout
    \/ SessionExpires
    \/ TokenExpires
    \/ \E i \in DOMAIN reqs : Serve(i)
    \/ \E i \in DOMAIN reqs : ServeSession(i)
    \/ \E i \in DOMAIN reqs : Answered(i)
    \/ \E i \in DOMAIN reqs : Denied(i)
    \/ \E i \in DOMAIN reqs : Refreshed(i)
    \/ \E i \in DOMAIN reqs : LoadRefused(i)

SpecTab == InitTab /\ [][NextTab]_tabVars

-----------------------------------------------------------------------------
(* Properties                                                              *)

\* The saves of one login reach the server one after the other, whatever is
\* refused, refreshed and sent again in between: saveSequence.
SavesOneAtATime ==
    \A i, k \in DOMAIN reqs :
        /\ i < k /\ reqs[i].kind = "put" /\ reqs[k].kind = "put"
        /\ reqs[i].epoch = reqs[k].epoch
        => reqs[k].pc = "queued"

\* The page writes on behalf of the account it shows: its CSRF token belongs
\* to a session of that account, although answers about older sessions arrive
\* late and other tabs replace the cookie.
TokenOfUser == tab.csrf # 0 => tab.user = owner[tab.csrf]

\* app.js:316 and 982 promise that a page whose session has become another
\* account's is emptied first, and a test that nothing of the previous account
\* is left (v2-ui-regression.spec.mjs:1520).  So whoever a page passes to, from
\* another account or after its session was lost, finds nothing of another's.
SwitchLeavesNoData ==
    [][tab'.user \notin {Nobody, tab.user} => tab'.page \in {Nobody, tab'.user}]_tabVars

\* app.js:387 promises that no request of the old account is sent again after
\* a change of account, since its data would enter the new account.
NoCrossAccountWrite == \A x \in Accounts : drafts[x] \in {x, Nobody}
=============================================================================
