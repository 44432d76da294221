-------------------------- MODULE TabSessionProofs --------------------------
(***************************************************************************)
(* Proofs about the page of one browser tab (TabSession), for any accounts *)
(* and any number of sessions, edits and requests: its saves reach the     *)
(* server one at a time and its CSRF token belongs to the account it shows.*)
(***************************************************************************)
EXTENDS TabSession, TLAPS, SequenceTheorems

-----------------------------------------------------------------------------
(* The inductive invariant, told of a page t, requests q and the owners of *)
(* the sessions, so that the pages and the requests that a step passes     *)
(* through can be spoken about too.                                        *)

\* The token of a page is one of an existing session, of the account shown.
PageOK(t, own) ==
    /\ t \in Tab /\ t.saved <= t.dirty
    /\ t.csrf <= Len(own)
    /\ t.csrf # 0 => t.user = own[t.csrf]

\* A request was started no later than epoch e and knows the first n sessions.
RequestOK(r, n, e) ==
    /\ r.epoch <= e /\ r.session <= n
    /\ r.pc \in {"refreshing", "refreshed"} => r.attempt > 0
    /\ r.attempt = 2 => r.kind = "load"

\* Behind a save of the same login every other save still waits.
OneSave(q) ==
    \A i, k \in DOMAIN q :
        i < k /\ q[i].kind = "put" /\ q[k].kind = "put" /\ q[i].epoch = q[k].epoch
        => q[k].pc = "queued"

RequestsOK(q, n, e) ==
    /\ q \in Seq(TabRequest)
    /\ \A i \in DOMAIN q : RequestOK(q[i], n, e)
    /\ OneSave(q)

ServerOK ==
    /\ owner \in Seq(Accounts) /\ Len(owner) <= MaxLogins
    /\ live \subseteq 1..Len(owner) /\ cookie \in 0..Len(owner)
    /\ drafts \in [Accounts -> Content] /\ started \in 0..MaxRequests

TabInv ==
    /\ ServerOK
    /\ PageOK(tab, owner)
    /\ RequestsOK(reqs, Len(owner), tab.epoch)

-----------------------------------------------------------------------------
(* Requests                                                                *)

\* Requests stay well formed when sessions are added or the epoch advances.
LEMMA RequestsLater ==
    ASSUME NEW q, NEW n \in Nat, NEW m \in Nat, NEW e \in Nat, NEW d \in Nat,
           RequestsOK(q, n, e), n <= m, e <= d
    PROVE  RequestsOK(q, m, d)
<1> \A i \in DOMAIN q : RequestOK(q[i], m, d)
  <2> TAKE i \in DOMAIN q
  <2> q[i] \in TabRequest /\ RequestOK(q[i], n, e)
    BY ElementOfSeq DEF RequestsOK
  <2> q[i].session \in Sessions /\ q[i].epoch \in Nat
    BY DEF TabRequest
  <2> QED
    BY TabBoundsAssumption DEF RequestOK, Sessions
<1> QED
  BY DEF RequestsOK

\* What may be sent is sent: no save overtakes another of its login.
LEMMA FlushKeeps ==
    ASSUME NEW q, NEW n \in Nat, NEW e \in Nat, RequestsOK(q, n, e),
           NEW t \in Tab, NEW c \in Sessions, c <= n
    PROVE  RequestsOK(Flush(q, t, c), n, e)
<1> DEFINE f == Flush(q, t, c)
<1>1. q \in Seq(TabRequest) /\ Len(q) \in Nat /\ DOMAIN q = 1..Len(q)
  BY DEF RequestsOK
<1>2. DOMAIN f = DOMAIN q
  BY DEF Flush
<1>3. ASSUME NEW i \in DOMAIN q
      PROVE  /\ f[i] \in TabRequest /\ RequestOK(f[i], n, e)
             /\ f[i].kind = q[i].kind /\ f[i].epoch = q[i].epoch
             /\ f[i].pc # "queued" => q[i].pc # "queued" \/ ~Waits(q, i)
  <2>1. q[i] \in TabRequest /\ RequestOK(q[i], n, e)
    BY <1>1, ElementOfSeq DEF RequestsOK
  <2>2. CASE q[i].pc = "queued" /\ ~Waits(q, i)
    <3>1. f[i] = [q[i] EXCEPT !.pc = "sent", !.session = c, !.token = t.csrf]
      BY <2>2 DEF Flush, Sent
    <3>2. t.csrf \in Sessions
      BY DEF Tab
    <3> QED
      BY <2>1, <2>2, <3>1, <3>2 DEF TabRequest, RequestOK
  <2>3. CASE ~(q[i].pc = "queued" /\ ~Waits(q, i))
    <3>1. f[i] = q[i]
      BY <2>3 DEF Flush
    <3> QED
      BY <2>1, <2>3, <3>1
  <2> QED
    BY <2>2, <2>3
<1>4. f \in Seq(TabRequest)
  <2>1. f = [i \in 1..Len(q) |-> f[i]]
    BY <1>1 DEF Flush
  <2> HIDE DEF f
  <2> QED
    BY <1>1, <1>3, <2>1, IsASeq
<1>5. OneSave(f)
  <2> SUFFICES ASSUME NEW i \in DOMAIN q, NEW k \in DOMAIN q, i < k,
                      f[i].kind = "put", f[k].kind = "put", f[i].epoch = f[k].epoch
               PROVE  f[k].pc = "queued"
    BY <1>2 DEF OneSave
  <2>1. q[i].kind = "put" /\ q[k].kind = "put" /\ q[i].epoch = q[k].epoch
    BY <1>3
  <2>2. q[k].pc = "queued"
    BY <2>1 DEF RequestsOK, OneSave
  <2>3. Waits(q, k)
    BY <1>1, <2>1 DEF Waits
  <2> QED
    BY <2>2, <2>3 DEF Flush
<1> HIDE DEF f
<1>6. RequestsOK(f, n, e)
  BY <1>2, <1>3, <1>4, <1>5 DEF RequestsOK
<1> QED
  BY <1>6 DEF f

\* A new request joins the end of the line.
LEMMA AppendKeeps ==
    ASSUME NEW q, NEW n \in Nat, NEW e \in Nat, RequestsOK(q, n, e),
           NEW t \in Tab, t.epoch <= e,
           NEW kind \in {"put", "validate", "load"}, NEW body \in Content
    PROVE  RequestsOK(Append(q, New(kind, body, t)), n, e)
<1> DEFINE r == New(kind, body, t)
           a == Append(q, r)
<1>1. q \in Seq(TabRequest) /\ Len(q) \in Nat /\ DOMAIN q = 1..Len(q)
  BY DEF RequestsOK
<1>2. r \in TabRequest /\ RequestOK(r, n, e) /\ r.pc = "queued"
  BY TabBoundsAssumption DEF New, TabRequest, Tab, RequestOK, Sessions
<1> HIDE DEF r
<1>3. /\ a \in Seq(TabRequest) /\ DOMAIN a = 1..(Len(q) + 1)
      /\ \A i \in 1..Len(q) : a[i] = q[i]
      /\ a[Len(q) + 1] = r
  BY <1>1, <1>2, AppendProperties
<1> HIDE DEF a
<1>4. \A i \in DOMAIN a : RequestOK(a[i], n, e)
  BY <1>1, <1>2, <1>3 DEF RequestsOK
<1>5. OneSave(a)
  <2> SUFFICES ASSUME NEW i \in DOMAIN a, NEW k \in DOMAIN a, i < k,
                      a[i].kind = "put", a[k].kind = "put", a[i].epoch = a[k].epoch
               PROVE  a[k].pc = "queued"
    BY DEF OneSave
  <2>1. CASE k = Len(q) + 1
    BY <1>2, <1>3, <2>1
  <2>2. CASE k # Len(q) + 1
    <3>1. i \in DOMAIN q /\ k \in DOMAIN q /\ a[i] = q[i] /\ a[k] = q[k]
      BY <1>1, <1>3, <2>2
    <3> QED
      BY <3>1 DEF RequestsOK, OneSave
  <2> QED
    BY <2>1, <2>2
<1> QED
  BY <1>3, <1>4, <1>5 DEF RequestsOK, a, r

\* A request that settles leaves the line.
LEMMA RemoveKeeps ==
    ASSUME NEW q, NEW n \in Nat, NEW e \in Nat, RequestsOK(q, n, e), NEW i \in DOMAIN q
    PROVE  RequestsOK(RemoveAt(q, i), n, e)
<1> DEFINE a == RemoveAt(q, i)
           at(k) == IF k < i THEN k ELSE k + 1
<1>1. q \in Seq(TabRequest) /\ Len(q) \in Nat /\ DOMAIN q = 1..Len(q)
  BY DEF RequestsOK
<1>2. /\ a \in Seq(TabRequest) /\ DOMAIN a = 1..(Len(q) - 1)
      /\ \A k \in DOMAIN a : a[k] = q[at(k)]
  <2> DEFINE l == SubSeq(q, 1, i - 1)
             r == SubSeq(q, i + 1, Len(q))
  <2>1. l \in Seq(TabRequest) /\ Len(l) = i - 1 /\ \A k \in 1..(i - 1) : l[k] = q[k]
    BY <1>1, SubSeqProperties
  <2>2. r \in Seq(TabRequest) /\ Len(r) = Len(q) - i /\ \A k \in 1..(Len(q) - i) : r[k] = q[i + k]
    BY <1>1, SubSeqProperties
  <2>3. a = l \o r
    BY DEF RemoveAt
  <2> HIDE DEF a, l, r
  <2>4. /\ a \in Seq(TabRequest) /\ Len(a) = Len(l) + Len(r)
        /\ \A k \in 1..(Len(l) + Len(r)) :
             a[k] = IF k <= Len(l) THEN l[k] ELSE r[k - Len(l)]
    BY <2>1, <2>2, <2>3, ConcatProperties
  <2>5. ASSUME NEW k \in 1..(Len(q) - 1)
        PROVE  a[k] = q[at(k)]
    <3>1. i \in 1..Len(q) /\ k \in 1..(Len(l) + Len(r))
      BY <1>1, <2>1, <2>2
    <3>2. CASE k < i
      BY <2>1, <2>4, <3>1, <3>2
    <3>3. CASE k >= i
      <4>1. k - (i - 1) \in 1..(Len(q) - i) /\ i + (k - (i - 1)) = k + 1
        BY <1>1, <3>1, <3>3
      <4>2. a[k] = r[k - (i - 1)]
        BY <2>1, <2>4, <3>1, <3>3
      <4> QED
        BY <2>2, <3>3, <4>1, <4>2
    <3> QED
      BY <3>1, <3>2, <3>3
  <2>6. Len(a) = Len(q) - 1
    BY <1>1, <2>1, <2>2, <2>4
  <2> HIDE DEF at
  <2> QED
    BY <2>4, <2>5, <2>6
<1> HIDE DEF a
<1>3. \A k \in DOMAIN a : at(k) \in DOMAIN q
  BY <1>1, <1>2
<1>4. \A j, k \in DOMAIN a : j < k => at(j) < at(k)
  BY <1>1, <1>2
<1>5. \A k \in DOMAIN a : RequestOK(a[k], n, e)
  BY <1>2, <1>3 DEF RequestsOK
<1>6. OneSave(a)
  <2> HIDE DEF at
  <2> QED
    BY <1>2, <1>3, <1>4 DEF RequestsOK, OneSave
<1> QED
  BY <1>2, <1>5, <1>6 DEF RequestsOK, a

\* A request that was sent goes on: its kind and its login stay.
LEMMA ReplaceKeeps ==
    ASSUME NEW q, NEW n \in Nat, NEW e \in Nat, RequestsOK(q, n, e),
           NEW i \in DOMAIN q, q[i].pc # "queued",
           NEW r \in TabRequest, RequestOK(r, n, e),
           r.kind = q[i].kind, r.epoch = q[i].epoch
    PROVE  RequestsOK([q EXCEPT ![i] = r], n, e)
<1> DEFINE a == [q EXCEPT ![i] = r]
<1>1. q \in Seq(TabRequest) /\ Len(q) \in Nat /\ DOMAIN q = 1..Len(q)
  BY DEF RequestsOK
<1>2. /\ a \in Seq(TabRequest) /\ DOMAIN a = DOMAIN q /\ a[i] = r
      /\ \A k \in DOMAIN q \ {i} : a[k] = q[k]
  BY <1>1, ExceptSeq
<1> HIDE DEF a
<1>3. \A k \in DOMAIN a : RequestOK(a[k], n, e)
  BY <1>2 DEF RequestsOK
<1>4. OneSave(a)
  <2> SUFFICES ASSUME NEW j \in DOMAIN q, NEW k \in DOMAIN q, j < k,
                      a[j].kind = "put", a[k].kind = "put", a[j].epoch = a[k].epoch
               PROVE  a[k].pc = "queued"
    BY <1>2 DEF OneSave
  <2>1. q[k].pc = "queued"
    BY <1>2 DEF RequestsOK, OneSave
  <2> QED
    BY <1>2, <2>1
<1> QED
  BY <1>2, <1>3, <1>4 DEF RequestsOK, a

-----------------------------------------------------------------------------
(* The page                                                                *)

LEMMA EmptyValues == Nobody \in Content /\ 0 \in Sessions /\ 0 \in 0..MaxEdits
BY TabBoundsAssumption DEF Content, Sessions

LEMMA ResetKeeps ==
    ASSUME NEW t \in Tab
    PROVE  LET u == ResetUserState(t) IN
           /\ u \in Tab /\ u.saved = u.dirty /\ u.epoch = t.epoch + 1
           /\ u.page = Nobody /\ ~u.timer /\ u.csrf = t.csrf /\ u.user = t.user
<1>1. BumpAuthEpoch(t) \in Tab
  BY DEF BumpAuthEpoch, Tab
<1>2. ResetUserState(t) \in Tab
  BY EmptyValues, <1>1 DEF ResetUserState, Tab
<1> QED
  BY <1>2 DEF ResetUserState, BumpAuthEpoch, Tab

\* The session s was found for the page t.
LEMMA SessionFound ==
    ASSUME NEW own \in Seq(Accounts), Len(own) <= MaxLogins,
           NEW t \in Tab, t.saved <= t.dirty, NEW s \in 1..Len(own)
    PROVE  PageOK([t EXCEPT !.csrf = s, !.user = own[s], !.authed = TRUE], own)
<1> DEFINE u == [t EXCEPT !.csrf = s, !.user = own[s], !.authed = TRUE]
<1>1. own[s] \in Content /\ s \in Sessions
  BY ElementOfSeq, TabBoundsAssumption DEF Sessions, Content
<1>2. u \in Tab
  BY <1>1 DEF Tab
<1>3. u.saved = t.saved /\ u.dirty = t.dirty /\ u.csrf = s /\ u.user = own[s]
  BY DEF Tab
<1> QED
  BY <1>2, <1>3 DEF PageOK

\* Whatever session /api/session found, the page shows its account.
LEMMA RefreshKeeps ==
    ASSUME NEW t, PageOK(t, owner), ServerOK, NEW s \in 0..Len(owner)
    PROVE  LET u == RefreshSession(t, s) IN
           /\ PageOK(u, owner)
           /\ u.epoch = IF AccountChanged(t, s) THEN t.epoch + 1 ELSE t.epoch
<1> DEFINE u == RefreshSession(t, s)
<1>1. t \in Tab /\ t.epoch \in Nat
  BY DEF PageOK, Tab
<1>2. CASE s = 0
  <2>1. u = SignedOut(t) /\ ~AccountChanged(t, s)
    BY <1>2 DEF RefreshSession, AccountChanged
  <2>2. u \in Tab
    BY EmptyValues, <1>1, <2>1 DEF SignedOut, Tab
  <2>3. /\ u.saved = t.saved /\ u.dirty = t.dirty /\ u.epoch = t.epoch
        /\ u.csrf = 0 /\ u.user = Nobody
    BY <1>1, <2>1 DEF SignedOut, Tab
  <2> HIDE DEF u
  <2>4. PageOK(u, owner)
    BY <2>2, <2>3 DEF PageOK, ServerOK
  <2> QED
    BY <2>1, <2>3, <2>4 DEF u
<1>3. CASE s # 0
  <2>1. s \in 1..Len(owner) /\ owner \in Seq(Accounts) /\ Len(owner) <= MaxLogins
    BY <1>3 DEF ServerOK
  <2>2. CASE AccountChanged(t, s)
    <3> DEFINE v == ResetUserState(t)
    <3>1. u = [v EXCEPT !.csrf = s, !.user = owner[s], !.authed = TRUE]
      BY <1>3, <2>2 DEF RefreshSession
    <3>2. v \in Tab /\ v.saved = v.dirty /\ v.epoch = t.epoch + 1 /\ v.page = Nobody
      BY <1>1, ResetKeeps
    <3> HIDE DEF v
    <3>3. v.saved <= v.dirty
      BY <3>2 DEF Tab
    <3>4. PageOK(u, owner)
      BY <2>1, <3>1, <3>2, <3>3, SessionFound
    <3>5. u.epoch = v.epoch /\ u.page = v.page
      BY <3>1, <3>2 DEF Tab
    <3> QED
      BY <2>2, <3>2, <3>4, <3>5
  <2>3. CASE ~AccountChanged(t, s)
    <3>1. u = [t EXCEPT !.csrf = s, !.user = owner[s], !.authed = TRUE]
      BY <1>3, <2>3 DEF RefreshSession
    <3>2. t.saved <= t.dirty
      BY DEF PageOK
    <3> HIDE DEF u
    <3>5. PageOK(u, owner)
      BY <1>1, <2>1, <3>1, <3>2, SessionFound
    <3>3. u.epoch = t.epoch
      BY <1>1, <3>1 DEF Tab
    <3> QED
      BY <2>3, <3>3, <3>5 DEF u
  <2> QED
    BY <2>2, <2>3
<1> QED
  BY <1>2, <1>3

LEMMA OverlayKeeps ==
    ASSUME NEW own, NEW t, PageOK(t, own)
    PROVE  LET u == ShowAuthOverlay(t) IN
           PageOK(u, own) /\ u.epoch = t.epoch /\ u.user = t.user /\ u.page = t.page
BY DEF PageOK, ShowAuthOverlay, Tab

-----------------------------------------------------------------------------
(* Steps                                                                   *)

\* A page and requests that are well formed are so once what may be sent is.
LEMMA InstallKeeps ==
    ASSUME ServerOK', NEW t, PageOK(t, owner'),
           NEW q, RequestsOK(q, Len(owner'), t.epoch),
           NEW c \in 0..Len(owner'), Install(t, q, c)
    PROVE  TabInv'
<1>1. t \in Tab /\ t.epoch \in Nat
  BY DEF PageOK, Tab
<1>2. Len(owner') \in Nat /\ c \in Sessions /\ c <= Len(owner')
  BY TabBoundsAssumption DEF ServerOK, Sessions
<1>3. RequestsOK(Flush(q, t, c), Len(owner'), t.epoch)
  BY <1>1, <1>2, FlushKeeps
<1>4. tab' = t /\ reqs' = Flush(q, t, c)
  BY DEF Install
<1> QED
  BY <1>3, <1>4 DEF TabInv

\* What the invariant says of the numbers in it.
LEMMA Numbers ==
    ASSUME TabInv
    PROVE  /\ tab \in Tab /\ tab.epoch \in Nat /\ tab.page \in Content /\ tab.user \in Content
           /\ tab.csrf \in Sessions /\ tab.saved <= tab.dirty
           /\ tab.saved \in 0..MaxEdits /\ tab.dirty \in 0..MaxEdits
           /\ Len(owner) \in Nat /\ cookie \in 0..Len(owner) /\ cookie \in Sessions
           /\ reqs \in Seq(TabRequest) /\ Len(reqs) \in Nat /\ DOMAIN reqs = 1..Len(reqs)
BY TabBoundsAssumption DEF TabInv, PageOK, Tab, ServerOK, RequestsOK, Sessions

LEMMA RequestFacts ==
    ASSUME TabInv, NEW i \in DOMAIN reqs
    PROVE  /\ reqs[i] \in TabRequest /\ RequestOK(reqs[i], Len(owner), tab.epoch)
           /\ reqs[i].epoch \in Nat /\ reqs[i].session \in 0..Len(owner)
           /\ reqs[i].body \in Content /\ reqs[i].gen \in 0..MaxEdits
           /\ reqs[i].attempt \in 0..2
<1>1. reqs[i] \in TabRequest /\ RequestOK(reqs[i], Len(owner), tab.epoch)
  BY Numbers, ElementOfSeq DEF TabInv, RequestsOK
<1> QED
  BY <1>1, Numbers DEF TabRequest, RequestOK, Sessions

LEMMA StartKeeps ==
    ASSUME TabInv, server' = server, cookie' = cookie, MayStart \/ started' = started
    PROVE  ServerOK' /\ owner' = owner
<1>1. started' \in 0..MaxRequests
  BY TabBoundsAssumption DEF MayStart, TabInv, ServerOK
<1> QED
  BY <1>1 DEF TabInv, ServerOK, server

\* A request that is started for a page of the epoch joins the line.
LEMMA StartedKeeps ==
    ASSUME TabInv, NEW kind \in {"put", "validate", "load"}, NEW body \in Content,
           NEW t \in Tab, t.epoch = tab.epoch
    PROVE  RequestsOK(Append(reqs, New(kind, body, t)), Len(owner), t.epoch)
<1>1. t.epoch \in Nat /\ t.epoch <= tab.epoch /\ tab.epoch \in Nat /\ Len(owner) \in Nat
  BY Numbers
<1>2. RequestsOK(reqs, Len(owner), tab.epoch)
  BY DEF TabInv
<1>3. RequestsOK(Append(reqs, New(kind, body, t)), Len(owner), tab.epoch)
  BY <1>1, <1>2, AppendKeeps
<1> QED
  BY <1>3

LEMMA EditKeeps == ASSUME TabInv, Edit PROVE TabInv'
<1>1. tab' \in Tab
  <2>1. tab.dirty + 1 \in 0..MaxEdits
    BY Numbers, TabBoundsAssumption DEF Edit
  <2>2. (IF tab.page = Nobody THEN tab.user ELSE tab.page) \in Content
    BY Numbers
  <2> QED
    BY <2>1, <2>2, Numbers DEF Edit, Tab
<1>2. /\ tab'.saved = tab.saved /\ tab'.dirty = tab.dirty + 1 /\ tab'.csrf = tab.csrf
      /\ tab'.user = tab.user /\ tab'.epoch = tab.epoch
  BY Numbers DEF Edit, Tab
<1>3. tab'.saved <= tab'.dirty
  BY <1>2, Numbers
<1> QED
  BY <1>1, <1>2, <1>3 DEF Edit, TabInv, PageOK, ServerOK, server

LEMMA AutoSaveKeeps == ASSUME TabInv, AutoSave PROVE TabInv'
<1> DEFINE t == [tab EXCEPT !.timer = FALSE]
<1>1. PageOK(t, owner) /\ t.epoch = tab.epoch /\ t.page \in Content /\ t \in Tab
  BY Numbers DEF TabInv, PageOK, Tab
<1>2. owner' = owner /\ ServerOK'
  <2>1. server' = server /\ cookie' = cookie /\ (MayStart \/ started' = started)
    BY DEF AutoSave, server
  <2> QED
    BY <2>1, StartKeeps
<1>3. CASE Install(t, Append(reqs, New("put", t.page, t)), cookie)
  <2>1. RequestsOK(Append(reqs, New("put", t.page, t)), Len(owner), t.epoch)
    BY <1>1, StartedKeeps
  <2> HIDE DEF t
  <2> QED
    BY <1>1, <1>2, <1>3, <2>1, Numbers, InstallKeeps
<1>4. CASE tab' = t /\ UNCHANGED reqs
  BY <1>1, <1>2, <1>4 DEF TabInv
<1> QED
  BY <1>3, <1>4 DEF AutoSave

LEMMA ValidateKeeps == ASSUME TabInv, ValidateDraft PROVE TabInv'
<1>1. owner' = owner /\ ServerOK'
  BY StartKeeps DEF ValidateDraft, server
<1>2. RequestsOK(Append(reqs, New("validate", tab.page, tab)), Len(owner), tab.epoch)
  BY Numbers, StartedKeeps
<1> QED
  BY <1>1, <1>2, Numbers, InstallKeeps DEF ValidateDraft, TabInv

\* A session is added behind those that exist.
LEMMA NewSessionKeeps ==
    ASSUME TabInv, NEW x \in Accounts, NewSession(x), started' \in 0..MaxRequests
    PROVE  /\ ServerOK' /\ Len(owner') = Len(owner) + 1
           /\ owner'[Len(owner) + 1] = x
           /\ \A i \in 1..Len(owner) : owner'[i] = owner[i]
<1>1. /\ owner' \in Seq(Accounts) /\ Len(owner') = Len(owner) + 1
      /\ owner'[Len(owner) + 1] = x
      /\ \A i \in 1..Len(owner) : owner'[i] = owner[i]
  BY AppendProperties DEF NewSession, TabInv, ServerOK
<1>2. Len(owner') <= MaxLogins /\ cookie' \in 0..Len(owner') /\ drafts' = drafts
  BY <1>1, Numbers, TabBoundsAssumption DEF NewSession
<1>3. live' \subseteq 1..Len(owner')
  <2> SUFFICES ASSUME NEW s \in live' PROVE s \in 1..Len(owner')
    OBVIOUS
  <2>1. live \subseteq 1..Len(owner)
    BY DEF TabInv, ServerOK
  <2>2. live' = live \cup {Len(owner) + 1}
    BY <1>1 DEF NewSession
  <2>3. s \in 1..Len(owner) \/ s = Len(owner) + 1
    BY <2>1, <2>2
  <2> QED
    BY <1>1, <2>3, Numbers
<1>4. ServerOK'
  BY <1>1, <1>2, <1>3 DEF TabInv, ServerOK
<1> QED
  BY <1>1, <1>4

LEMMA OtherTabKeeps ==
    ASSUME TabInv, NEW x \in Accounts, OtherTabLogin(x)
    PROVE  TabInv'
<1>1. /\ ServerOK' /\ Len(owner') = Len(owner) + 1
      /\ \A i \in 1..Len(owner) : owner'[i] = owner[i]
  BY NewSessionKeeps DEF OtherTabLogin, TabInv, ServerOK
<1>2. RequestsOK(reqs, Len(owner'), tab.epoch)
  BY <1>1, Numbers, RequestsLater DEF TabInv
<1>3. PageOK(tab, owner')
  <2>1. tab.csrf # 0 => tab.csrf \in 1..Len(owner)
    BY Numbers DEF TabInv, PageOK, Sessions
  <2>2. tab.csrf <= Len(owner')
    BY <1>1, Numbers DEF TabInv, PageOK, Sessions
  <2> QED
    BY <1>1, <2>1, <2>2 DEF TabInv, PageOK
<1> QED
  BY <1>1, <1>2, <1>3 DEF OtherTabLogin, TabInv

LEMMA SessionsEnd ==
    ASSUME TabInv, OtherTabLogout \/ SessionExpires \/ TokenExpires
    PROVE  TabInv'
<1>1. CASE OtherTabLogout
  BY <1>1, Numbers DEF OtherTabLogout, TabInv, ServerOK
<1>2. CASE SessionExpires
  BY <1>2 DEF SessionExpires, TabInv, ServerOK
<1>3. CASE TokenExpires
  <2>1. tab' \in Tab
    BY <1>3, Numbers, EmptyValues DEF TokenExpires, Tab
  <2>2. /\ tab'.saved = tab.saved /\ tab'.dirty = tab.dirty /\ tab'.csrf = 0
        /\ tab'.user = tab.user /\ tab'.epoch = tab.epoch
    BY <1>3, Numbers DEF TokenExpires, Tab
  <2> QED
    BY <1>3, <2>1, <2>2, Numbers DEF TokenExpires, TabInv, PageOK, ServerOK, server
<1> QED
  BY <1>1, <1>2, <1>3

\* The two ways completeAuthentication goes on after what it did to the page.
LEMMA LoginKeeps ==
    ASSUME TabInv, NEW x \in Accounts, Login(x)
    PROVE  TabInv'
<1> DEFINE b == BumpAuthEpoch(tab)
           s == IF tab.expired # Nobody /\ tab.expired # x THEN ResetUserState(b) ELSE b
           t == [s EXCEPT !.user = x, !.authed = TRUE, !.csrf = Len(owner) + 1,
                          !.expired = Nobody, !.overlay = FALSE]
           u == [t EXCEPT !.timer = FALSE]
<1>1. /\ ServerOK' /\ Len(owner') = Len(owner) + 1
      /\ owner'[Len(owner) + 1] = x
  BY NewSessionKeeps, StartKeeps, TabBoundsAssumption DEF Login, MayStart, TabInv, ServerOK
<1>2. b \in Tab /\ b.epoch = tab.epoch + 1 /\ b.saved <= b.dirty
  BY Numbers DEF BumpAuthEpoch, Tab
<1>3. s \in Tab /\ s.saved <= s.dirty /\ s.epoch > tab.epoch
  <2>1. ResetUserState(b) \in Tab
    BY <1>2, ResetKeeps
  <2>2. ResetUserState(b).epoch = tab.epoch + 2 /\ ResetUserState(b).saved = ResetUserState(b).dirty
    BY <1>2, ResetKeeps, Numbers
  <2>3. ResetUserState(b).saved <= ResetUserState(b).dirty
    BY <2>1, <2>2 DEF Tab
  <2> QED
    BY <1>2, <2>1, <2>2, <2>3, Numbers
<1> HIDE DEF s
<1>4. x \in Content /\ Len(owner) + 1 \in Sessions
  BY <1>1, Numbers DEF ServerOK, Sessions, Content
<1>5. t \in Tab /\ u \in Tab
  BY <1>3, <1>4, EmptyValues DEF Tab
<1>6. /\ t.saved = s.saved /\ t.dirty = s.dirty /\ t.epoch = s.epoch
      /\ t.csrf = Len(owner) + 1 /\ t.user = x
  BY <1>3 DEF Tab
<1>7. /\ u.saved = s.saved /\ u.dirty = s.dirty /\ u.epoch = s.epoch
      /\ u.csrf = Len(owner) + 1 /\ u.user = x
  BY <1>3 DEF Tab
<1> HIDE DEF t
<1>8. PageOK(t, owner') /\ PageOK(u, owner')
  <2> HIDE DEF u
  <2> QED
    BY <1>1, <1>3, <1>5, <1>6, <1>7, Numbers DEF PageOK
<1>9. RequestsOK(reqs, Len(owner'), s.epoch) /\ s.epoch \in Nat
  <2>1. s.epoch \in Nat /\ tab.epoch <= s.epoch
    BY <1>3, Numbers DEF Tab
  <2>2. Len(owner') \in Nat /\ Len(owner) <= Len(owner')
    BY <1>1, Numbers
  <2>3. RequestsOK(reqs, Len(owner), tab.epoch)
    BY DEF TabInv
  <2> QED
    BY <2>1, <2>2, <2>3, RequestsLater, Numbers
<1>10. ASSUME NEW kind \in {"put", "load"}, NEW body \in Content, NEW v \in Tab, v.epoch = s.epoch
       PROVE  RequestsOK(Append(reqs, New(kind, body, v)), Len(owner'), s.epoch)
  <2>1. v.epoch <= s.epoch /\ Len(owner') \in Nat
    BY <1>1, <1>9, <1>10, Numbers
  <2> QED
    BY <1>9, <2>1, AppendKeeps
<1>11. cookie' \in 0..Len(owner')
  BY <1>1 DEF ServerOK
<1>12. CASE Install(u, IF u.dirty > u.saved THEN Append(reqs, New("put", u.page, u)) ELSE reqs,
                    cookie')
  <2>1. u.page \in Content
    BY <1>5 DEF Tab
  <2> HIDE DEF u
  <2>2. RequestsOK(IF u.dirty > u.saved THEN Append(reqs, New("put", u.page, u)) ELSE reqs,
                   Len(owner'), u.epoch)
    BY <1>5, <1>7, <1>9, <1>10, <2>1
  <2> QED
    BY <1>1, <1>8, <1>11, <1>12, <2>2, InstallKeeps
<1>13. CASE Install(t, Append(reqs, New("load", Nobody, t)), cookie')
  <2>1. RequestsOK(Append(reqs, New("load", Nobody, t)), Len(owner'), t.epoch)
    BY <1>5, <1>6, <1>10, EmptyValues
  <2> QED
    BY <1>1, <1>8, <1>11, <1>13, <2>1, InstallKeeps
<1> QED
  <2> USE DEF t, s
  <2> QED
    BY <1>12, <1>13 DEF Login

\* The request at i goes on as r, or leaves the line.
LEMMA GoesOn ==
    ASSUME TabInv, NEW i \in DOMAIN reqs, reqs[i].pc # "queued",
           NEW r \in TabRequest, RequestOK(r, Len(owner), tab.epoch),
           r.kind = reqs[i].kind, r.epoch = reqs[i].epoch
    PROVE  RequestsOK([reqs EXCEPT ![i] = r], Len(owner), tab.epoch)
BY Numbers, ReplaceKeeps DEF TabInv

LEMMA Settles ==
    ASSUME TabInv, NEW i \in DOMAIN reqs
    PROVE  RequestsOK(Settled(i), Len(owner), tab.epoch)
BY Numbers, RemoveKeeps DEF TabInv, Settled

LEMMA ServeKeeps ==
    ASSUME TabInv, NEW i \in DOMAIN reqs, Serve(i) \/ ServeSession(i)
    PROVE  TabInv'
<1>1. CASE Serve(i)
  <2>1. reqs[i].pc = "sent" /\ UNCHANGED <<owner, live, cookie, tab, started>>
    BY <1>1 DEF Serve
  <2>2. ASSUME Accepts(reqs[i])
        PROVE  owner[reqs[i].session] \in Accounts
    <3>1. reqs[i].session \in 1..Len(owner) /\ owner \in Seq(Accounts)
      BY <2>2 DEF Accepts, TabInv, ServerOK
    <3> QED
      BY <3>1, ElementOfSeq
  <2>3. \E r \in TabRequest :
          /\ reqs' = [reqs EXCEPT ![i] = r] /\ RequestOK(r, Len(owner), tab.epoch)
          /\ r.kind = reqs[i].kind /\ r.epoch = reqs[i].epoch
    <3>1. CASE ~Accepts(reqs[i])
      <4> DEFINE r == [reqs[i] EXCEPT !.pc = "denied"]
      <4>1. r \in TabRequest /\ RequestOK(r, Len(owner), tab.epoch)
            /\ r.kind = reqs[i].kind /\ r.epoch = reqs[i].epoch
        BY RequestFacts DEF TabRequest, RequestOK
      <4>2. reqs' = [reqs EXCEPT ![i] = r]
        BY <1>1, <3>1 DEF Serve
      <4> QED
        BY <4>1, <4>2
    <3>2. CASE Accepts(reqs[i]) /\ reqs[i].kind = "load"
      <4> DEFINE r == [reqs[i] EXCEPT !.pc = "ok", !.body = drafts[owner[reqs[i].session]]]
      <4>1. drafts[owner[reqs[i].session]] \in Content
        BY <2>2, <3>2 DEF TabInv, ServerOK
      <4>2. r \in TabRequest /\ RequestOK(r, Len(owner), tab.epoch)
            /\ r.kind = reqs[i].kind /\ r.epoch = reqs[i].epoch
        BY <4>1, RequestFacts DEF TabRequest, RequestOK
      <4>3. reqs' = [reqs EXCEPT ![i] = r]
        BY <1>1, <3>2 DEF Serve
      <4> QED
        BY <4>2, <4>3
    <3>3. CASE Accepts(reqs[i]) /\ reqs[i].kind # "load"
      <4> DEFINE r == [reqs[i] EXCEPT !.pc = "ok"]
      <4>1. r \in TabRequest /\ RequestOK(r, Len(owner), tab.epoch)
            /\ r.kind = reqs[i].kind /\ r.epoch = reqs[i].epoch
        BY RequestFacts DEF TabRequest, RequestOK
      <4>2. reqs' = [reqs EXCEPT ![i] = r]
        BY <1>1, <3>3 DEF Serve
      <4> QED
        BY <4>1, <4>2
    <3> QED
      BY <3>1, <3>2, <3>3
  <2>4. RequestsOK(reqs', Len(owner), tab.epoch)
    BY <2>1, <2>3, GoesOn
  <2>5. drafts' \in [Accounts -> Content]
    BY <1>1, <2>2, RequestFacts DEF Serve, TabInv, ServerOK
  <2> QED
    BY <2>1, <2>4, <2>5 DEF TabInv, ServerOK
<1>2. CASE ServeSession(i)
  <2> DEFINE s == IF reqs[i].session \in live THEN reqs[i].session ELSE 0
             r == [reqs[i] EXCEPT !.pc = "refreshed", !.session = s]
  <2>1. s \in 0..Len(owner) /\ s \in Sessions
    BY RequestFacts, Numbers, EmptyValues DEF TabRequest
  <2> HIDE DEF s
  <2>5. r \in TabRequest
    BY <2>1, RequestFacts DEF TabRequest
  <2>6. /\ r.kind = reqs[i].kind /\ r.epoch = reqs[i].epoch /\ r.session = s
        /\ r.pc = "refreshed" /\ r.attempt = reqs[i].attempt
    BY RequestFacts DEF TabRequest
  <2> HIDE DEF r
  <2>2. RequestOK(r, Len(owner), tab.epoch)
    BY <1>2, <2>1, <2>6, RequestFacts, Numbers DEF ServeSession, RequestOK
  <2>3. reqs' = [reqs EXCEPT ![i] = r] /\ UNCHANGED <<server, cookie, tab, started>>
    BY <1>2 DEF ServeSession, s, r
  <2>4. RequestsOK(reqs', Len(owner), tab.epoch)
    <3>1. reqs[i].pc # "queued"
      BY <1>2 DEF ServeSession
    <3> QED
      BY <2>2, <2>3, <2>5, <2>6, <3>1, GoesOn
  <2> QED
    BY <2>3, <2>4 DEF TabInv, ServerOK, server
<1> QED
  BY <1>1, <1>2

LEMMA AnsweredKeeps ==
    ASSUME TabInv, NEW i \in DOMAIN reqs, Answered(i)
    PROVE  TabInv'
<1> DEFINE r == reqs[i]
           saved == [tab EXCEPT !.saved = r.gen]
           loaded == [tab EXCEPT !.page = r.body, !.dirty = 0, !.saved = 0,
                                 !.authed = TRUE, !.overlay = FALSE]
           t == IF r.epoch = tab.epoch /\ r.kind = "put" /\ r.gen = tab.dirty THEN saved
                ELSE IF r.epoch = tab.epoch /\ r.kind = "load" THEN loaded ELSE tab
<1>1. r.body \in Content /\ r.gen \in 0..MaxEdits
  BY RequestFacts
<1> HIDE DEF r
<1>2. r.gen = tab.dirty => PageOK(saved, owner) /\ saved.epoch = tab.epoch
  BY <1>1, Numbers DEF TabInv, PageOK, Tab
<1>3. PageOK(loaded, owner) /\ loaded.epoch = tab.epoch
  <2>1. loaded \in Tab
    BY <1>1, Numbers, EmptyValues DEF Tab
  <2>2. /\ loaded.saved = 0 /\ loaded.dirty = 0 /\ loaded.csrf = tab.csrf
        /\ loaded.user = tab.user /\ loaded.epoch = tab.epoch
    BY Numbers DEF Tab
  <2> HIDE DEF loaded
  <2> QED
    BY <2>1, <2>2 DEF TabInv, PageOK
<1> HIDE DEF saved, loaded
<1>4. PageOK(t, owner) /\ t.epoch = tab.epoch
  BY <1>2, <1>3 DEF TabInv
<1>5. Install(t, Settled(i), cookie)
  BY DEF Answered, t, r, saved, loaded
<1> HIDE DEF t
<1>6. ServerOK' /\ owner' = owner
  BY StartKeeps DEF Answered
<1> QED
  BY <1>4, <1>5, <1>6, Numbers, Settles, InstallKeeps

\* A request that fails is settled, a load asks for the session once more.
LEMMA FailsKeeps ==
    ASSUME TabInv, server' = server, cookie' = cookie, started' = started,
           NEW t, PageOK(t, owner), t.epoch = tab.epoch,
           NEW i \in DOMAIN reqs, reqs[i].pc # "queued", Fails(i, t)
    PROVE  TabInv'
<1>1. ServerOK' /\ owner' = owner
  BY StartKeeps
<1>2. CASE Install(t, Settled(i), cookie)
  BY <1>1, <1>2, Numbers, Settles, InstallKeeps
<1>3. CASE /\ reqs[i].kind = "load"
           /\ Install(t, [reqs EXCEPT ![i].pc = "refreshing", ![i].attempt = 2,
                                      ![i].session = cookie], cookie)
  <2> DEFINE r == [reqs[i] EXCEPT !.pc = "refreshing", !.attempt = 2, !.session = cookie]
  <2>4. 2 \in 0..2 /\ cookie \in Sessions
    BY Numbers
  <2>5. r \in TabRequest
    BY <2>4, RequestFacts DEF TabRequest
  <2>6. /\ r.kind = reqs[i].kind /\ r.epoch = reqs[i].epoch /\ r.session = cookie
        /\ r.pc = "refreshing" /\ r.attempt = 2
    BY RequestFacts DEF TabRequest
  <2>2. [reqs EXCEPT ![i].pc = "refreshing", ![i].attempt = 2, ![i].session = cookie]
          = [reqs EXCEPT ![i] = r]
    BY Numbers
  <2> HIDE DEF r
  <2>1. RequestOK(r, Len(owner), tab.epoch)
    BY <1>3, <2>6, RequestFacts, Numbers DEF RequestOK
  <2>3. RequestsOK([reqs EXCEPT ![i] = r], Len(owner), tab.epoch)
    BY <2>1, <2>5, <2>6, GoesOn
  <2> QED
    BY <1>1, <1>3, <2>2, <2>3, Numbers, InstallKeeps
<1> QED
  BY <1>2, <1>3 DEF Fails

LEMMA DeniedKeeps ==
    ASSUME TabInv, NEW i \in DOMAIN reqs, Denied(i)
    PROVE  TabInv'
<1>1. /\ reqs[i].pc = "denied" /\ server' = server /\ cookie' = cookie /\ started' = started
  BY DEF Denied
<1>2. CASE /\ reqs[i].attempt = 0 /\ tab' = tab
           /\ reqs' = [reqs EXCEPT ![i].pc = "refreshing", ![i].attempt = 1,
                                   ![i].session = cookie]
  <2> DEFINE r == [reqs[i] EXCEPT !.pc = "refreshing", !.attempt = 1, !.session = cookie]
  <2>1. 1 \in 0..2 /\ cookie \in Sessions
    BY Numbers
  <2>2. r \in TabRequest
    BY <2>1, RequestFacts DEF TabRequest
  <2>3. /\ r.kind = reqs[i].kind /\ r.epoch = reqs[i].epoch /\ r.session = cookie
        /\ r.pc = "refreshing" /\ r.attempt = 1
    BY RequestFacts DEF TabRequest
  <2>4. reqs' = [reqs EXCEPT ![i] = r]
    BY <1>2, Numbers
  <2> HIDE DEF r
  <2>5. RequestOK(r, Len(owner), tab.epoch)
    BY <2>3, RequestFacts, Numbers DEF RequestOK
  <2>6. RequestsOK(reqs', Len(owner), tab.epoch)
    BY <1>1, <2>2, <2>3, <2>4, <2>5, GoesOn
  <2> QED
    BY <1>1, <1>2, <2>6, StartKeeps DEF TabInv
<1>3. CASE Fails(i, tab)
  BY <1>1, <1>3, Numbers, FailsKeeps DEF TabInv
<1> QED
  BY <1>1, <1>2, <1>3 DEF Denied

LEMMA RefreshedKeeps ==
    ASSUME TabInv, NEW i \in DOMAIN reqs, Refreshed(i)
    PROVE  TabInv'
<1> DEFINE s == reqs[i].session
           t == RefreshSession(tab, s)
<1>1. /\ reqs[i].pc = "refreshed" /\ reqs[i].attempt = 1
      /\ server' = server /\ cookie' = cookie /\ started' = started
  BY DEF Refreshed
<1>2. ServerOK' /\ owner' = owner
  BY <1>1, StartKeeps
<1>3. s \in 0..Len(owner)
  BY RequestFacts
<1>4. /\ PageOK(t, owner) /\ t \in Tab
      /\ t.epoch = IF AccountChanged(tab, s) THEN tab.epoch + 1 ELSE tab.epoch
  BY <1>3, RefreshKeeps DEF TabInv, PageOK
<1>5. CASE /\ AccountChanged(tab, s)
           /\ Install(t, Append(Settled(i), New("load", Nobody, t)), cookie)
  <2> HIDE DEF t, s
  <2>1. t.epoch \in Nat /\ tab.epoch <= t.epoch /\ t.epoch <= t.epoch /\ Len(owner) <= Len(owner)
    BY <1>4, <1>5, Numbers
  <2>2. RequestsOK(Settled(i), Len(owner), t.epoch)
    BY <2>1, Numbers, Settles, RequestsLater
  <2>3. RequestsOK(Append(Settled(i), New("load", Nobody, t)), Len(owner), t.epoch)
    BY <1>4, <2>1, <2>2, Numbers, EmptyValues, AppendKeeps
  <2> QED
    BY <1>2, <1>4, <1>5, <2>3, Numbers, InstallKeeps
<1>6. CASE /\ ~AccountChanged(tab, s)
           /\ Install(t, [reqs EXCEPT ![i] = Sent(reqs[i], t, cookie)], cookie)
  <2> HIDE DEF t, s
  <2> DEFINE r == Sent(reqs[i], t, cookie)
  <2>1. t.csrf \in Sessions /\ cookie \in Sessions
    BY <1>4, Numbers DEF Tab
  <2>2. r \in TabRequest
    BY <2>1, RequestFacts DEF Sent, TabRequest
  <2>3. /\ r.kind = reqs[i].kind /\ r.epoch = reqs[i].epoch /\ r.session = cookie
        /\ r.pc = "sent" /\ r.attempt = reqs[i].attempt
    BY RequestFacts DEF Sent, TabRequest
  <2> HIDE DEF r
  <2>4. RequestOK(r, Len(owner), tab.epoch)
    BY <1>1, <2>3, RequestFacts, Numbers DEF RequestOK
  <2>5. RequestsOK([reqs EXCEPT ![i] = r], Len(owner), t.epoch)
    BY <1>1, <1>4, <1>6, <2>2, <2>3, <2>4, GoesOn
  <2> QED
    BY <1>2, <1>4, <1>6, <2>5, Numbers, InstallKeeps DEF r
<1>7. CASE s = 0 /\ Fails(i, IF t.overlay THEN t ELSE ShowAuthOverlay(t))
  <2> DEFINE u == IF t.overlay THEN t ELSE ShowAuthOverlay(t)
  <2>1. ~AccountChanged(tab, s)
    BY <1>7 DEF AccountChanged
  <2>2. PageOK(u, owner) /\ u.epoch = tab.epoch
    <3> HIDE DEF t
    <3> QED
      BY <1>4, <2>1, OverlayKeeps
  <2> HIDE DEF u
  <2>3. Fails(i, u)
    BY <1>7 DEF u
  <2> QED
    BY <1>1, <2>2, <2>3, FailsKeeps
<1> QED
  BY <1>5, <1>6, <1>7 DEF Refreshed

LEMMA LoadRefusedKeeps ==
    ASSUME TabInv, NEW i \in DOMAIN reqs, LoadRefused(i)
    PROVE  TabInv'
<1> DEFINE s == reqs[i].session
           t == RefreshSession(tab, s)
           u == IF reqs[i].epoch = t.epoch THEN ShowAuthOverlay(t) ELSE t
<1>1. /\ server' = server /\ cookie' = cookie /\ started' = started
      /\ Install(u, Settled(i), cookie)
  BY DEF LoadRefused
<1>2. ServerOK' /\ owner' = owner
  BY <1>1, StartKeeps
<1>3. s \in 0..Len(owner)
  BY RequestFacts
<1>4. /\ PageOK(t, owner) /\ t \in Tab
      /\ t.epoch = IF AccountChanged(tab, s) THEN tab.epoch + 1 ELSE tab.epoch
  BY <1>3, RefreshKeeps DEF TabInv, PageOK
<1> HIDE DEF t, s
<1>5. PageOK(u, owner) /\ u.epoch = t.epoch
  BY <1>4, OverlayKeeps
<1> HIDE DEF u
<1>6. t.epoch \in Nat /\ tab.epoch <= t.epoch /\ Len(owner) <= Len(owner)
  BY <1>4, Numbers
<1>7. RequestsOK(Settled(i), Len(owner), u.epoch)
  BY <1>5, <1>6, Numbers, Settles, RequestsLater
<1> QED
  BY <1>1, <1>2, <1>5, <1>7, Numbers, InstallKeeps

LEMMA TabInit == InitTab => TabInv
<1> SUFFICES ASSUME InitTab PROVE TabInv
  OBVIOUS
<1>1. PICK x \in Accounts :
        /\ owner = <<x>>
        /\ tab = [user |-> x, authed |-> TRUE, csrf |-> 1, expired |-> Nobody,
                  epoch |-> 0, page |-> x, dirty |-> 0, saved |-> 0,
                  timer |-> FALSE, overlay |-> FALSE]
  BY DEF InitTab
<1>2. 1 \in Sessions /\ 0 \in Nat /\ x \in Content /\ Len(owner) = 1
  BY <1>1, TabBoundsAssumption DEF Sessions, Content
<1>3. tab \in Tab
  BY <1>1, <1>2, EmptyValues DEF Tab
<1>4. PageOK(tab, owner)
  BY <1>1, <1>2, <1>3 DEF PageOK
<1>5. ServerOK
  BY <1>1, <1>2, TabBoundsAssumption DEF InitTab, ServerOK, Content
<1>6. RequestsOK(reqs, Len(owner), tab.epoch)
  BY EmptySeq DEF InitTab, RequestsOK, OneSave
<1> QED
  BY <1>4, <1>5, <1>6 DEF TabInv

LEMMA TabStep == TabInv /\ [NextTab]_tabVars => TabInv'
<1> SUFFICES ASSUME TabInv, [NextTab]_tabVars PROVE TabInv'
  OBVIOUS
<1>1. CASE Edit
  BY <1>1, EditKeeps
<1>2. CASE AutoSave
  BY <1>2, AutoSaveKeeps
<1>3. CASE ValidateDraft
  BY <1>3, ValidateKeeps
<1>4. CASE \E x \in Accounts : Login(x)
  BY <1>4, LoginKeeps
<1>5. CASE \E x \in Accounts : OtherTabLogin(x)
  BY <1>5, OtherTabKeeps
<1>6. CASE OtherTabLogout \/ SessionExpires \/ TokenExpires
  BY <1>6, SessionsEnd
<1>7. CASE \E i \in DOMAIN reqs : Serve(i) \/ ServeSession(i)
  BY <1>7, ServeKeeps
<1>8. CASE \E i \in DOMAIN reqs : Answered(i)
  BY <1>8, AnsweredKeeps
<1>9. CASE \E i \in DOMAIN reqs : Denied(i)
  BY <1>9, DeniedKeeps
<1>10. CASE \E i \in DOMAIN reqs : Refreshed(i)
  BY <1>10, RefreshedKeeps
<1>11. CASE \E i \in DOMAIN reqs : LoadRefused(i)
  BY <1>11, LoadRefusedKeeps
<1>12. CASE UNCHANGED tabVars
  BY <1>12 DEF tabVars, server, TabInv, ServerOK
<1> QED
  BY <1>1, <1>2, <1>3, <1>4, <1>5, <1>6, <1>7, <1>8, <1>9, <1>10, <1>11, <1>12 DEF NextTab

\* The state is typed, the token is one of the account shown and the saves of
\* a login are in line, in every state of the page.
THEOREM TabInvariant == SpecTab => []TabInv
BY TabInit, TabStep, PTL DEF SpecTab

-----------------------------------------------------------------------------
(* The promises                                                            *)

\* The CSRF token of the page is one of a session of the account it shows.
THEOREM TokenOwned == SpecTab => []TokenOfUser
<1>1. TabInv => TokenOfUser
  BY DEF TabInv, PageOK, TokenOfUser
<1> QED
  BY <1>1, TabInvariant, PTL

\* The saves of one login reach the server one after the other.
THEOREM SavesInLine == SpecTab => []SavesOneAtATime
<1>1. TabInv => SavesOneAtATime
  BY DEF TabInv, RequestsOK, OneSave, SavesOneAtATime
<1> QED
  BY <1>1, TabInvariant, PTL

\* Every variable keeps its type; no request is of a later epoch than the page
\* and only loads are tried a third time (app.js:333).
THEOREM TabTypes == SpecTab => []TypeOKTab
<1>1. TabInv => TypeOKTab
  BY DEF TabInv, ServerOK, PageOK, RequestsOK, RequestOK, TypeOKTab
<1> QED
  BY <1>1, TabInvariant, PTL
=============================================================================
