------------------------- MODULE SubscriptionProofs -------------------------
(***************************************************************************)
(* Proofs about Subscription, for every number of users, configurations    *)
(* and threads and every size of the cache.                                *)
(***************************************************************************)
EXTENDS Subscription, TLAPS

\* A cached key passed the check, so a hit may skip it.
CacheIsChecked ==
    \A i \in DOMAIN cache : cache[i].key.yaml.content # Nil
                            /\ Valid(cache[i].key.yaml.content, cache[i].key.type)

\* What a thread has read was right at some moment since its request came.
CurrentOf(p) ==
    /\ request[p].pc = "read" => Right(row, request[p].token, request[p].head) \in seen[p]
    /\ request[p].pc \in {"lookup", "build"} =>
         request[p].config.yaml.content # Nil /\ AnswerFor(request[p].config, request[p].head) \in seen[p]
    /\ request[p].pc = "answered" => request[p].answer \in seen[p]

Current == \A p \in ApiThreads : CurrentOf(p)

IInv == TypeOKLink /\ CacheIsSound /\ CacheIsChecked /\ Current

-----------------------------------------------------------------------------
(* Types of what the operators return.                                     *)

LEMMA Constants == /\ Tokens \subseteq Nat /\ Nil \notin Tokens /\ Nil \notin Contents /\ Nil \notin Users
                   /\ MaxTokens \in Nat /\ MaxChanges \in Nat /\ CacheSize \in Nat \ {0}
BY NoneAssumption, SizeAssumption DEF Tokens

LEMMA IdleType == IdleThread \in LinkRequest /\ IdleThread.pc = "idle" /\ NotFound \in Answer /\ Unusable \in Answer
BY DEF IdleThread, LinkRequest, NoConfig, Config, NoYaml, Yaml, NotFound, Unusable, Answer, RuleTypes

LEMMA BodyType ==
    ASSUME NEW config \in Config
    PROVE  BodyOf(config) \in Yaml
BY DEF BodyOf, Config, Yaml

LEMMA ReplyType ==
    ASSUME NEW body \in Yaml, NEW head \in BOOLEAN
    PROVE  Reply(body, head) \in Answer
BY DEF Reply, Yaml, Answer

LEMMA AnswerType ==
    ASSUME NEW config \in Config, NEW head \in BOOLEAN
    PROVE  AnswerFor(config, head) \in Answer
BY BodyType, ReplyType, IdleType DEF AnswerFor

LEMMA LookupType ==
    ASSUME NEW rows \in [Users -> Row], NEW t, Served(rows, t) # {}
    PROVE  Lookup(rows, t) \in Config
<1> DEFINE u == CHOOSE v \in Served(rows, t) : TRUE
<1>1. u \in Users
  BY DEF Served
<1> HIDE DEF u
<1>2. ConfigOf(rows, u) \in Config
  BY <1>1 DEF ConfigOf, Row, Config
<1>3. Lookup(rows, t) = ConfigOf(rows, u)
  BY DEF Lookup, u
<1> QED BY <1>2, <1>3

LEMMA RightType ==
    ASSUME NEW rows \in [Users -> Row], NEW t, NEW head \in BOOLEAN
    PROVE  Right(rows, t, head) \in Answer
BY LookupType, AnswerType, IdleType DEF Right

-----------------------------------------------------------------------------
(* The cache.                                                              *)

\* Where an element of MoveToEnd comes from.
From(n, i, j) == IF j < i THEN j ELSE IF j < n THEN j + 1 ELSE i

LEMMA FromInjective ==
    \A n \in Nat : \A i, j, k \in 1..n : From(n, i, j) = From(n, i, k) => j = k
BY DEF From

LEMMA MoveFacts ==
    ASSUME NEW S, NEW s \in Seq(S), NEW i \in DOMAIN s
    PROVE  /\ MoveToEnd(s, i) \in Seq(S)
           /\ Len(MoveToEnd(s, i)) = Len(s)
           /\ DOMAIN MoveToEnd(s, i) = 1..Len(s)
           /\ \A j \in 1..Len(s) : MoveToEnd(s, i)[j] = s[From(Len(s), i, j)] /\ From(Len(s), i, j) \in DOMAIN s
           /\ \A j, k \in 1..Len(s) : From(Len(s), i, j) = From(Len(s), i, k) => j = k
<1> DEFINE m == MoveToEnd(s, i)
<1>1. Len(s) \in Nat /\ DOMAIN s = 1..Len(s) /\ i \in 1..Len(s)
  OBVIOUS
<1>2. \A j \in 1..Len(s) : From(Len(s), i, j) \in 1..Len(s)
  BY <1>1 DEF From
<1>3. m = [j \in 1..Len(s) |-> s[From(Len(s), i, j)]]
  BY <1>1 DEF MoveToEnd, From
<1>4. \A j \in 1..Len(s) : s[From(Len(s), i, j)] \in S
  BY <1>1, <1>2
<1>5. m \in Seq(S) /\ Len(m) = Len(s) /\ DOMAIN m = 1..Len(s)
  <2> DEFINE f(j) == s[From(Len(s), i, j)]
  <2>1. \A j \in 1..Len(s) : f(j) \in S
    BY <1>4
  <2> HIDE DEF f
  <2>2. [j \in 1..Len(s) |-> f(j)] \in Seq(S) /\ Len([j \in 1..Len(s) |-> f(j)]) = Len(s)
    BY <1>1, <2>1
  <2>3. m = [j \in 1..Len(s) |-> f(j)]
    BY <1>3 DEF f
  <2> HIDE DEF m
  <2> QED BY <2>2, <2>3
<1>7. \A j \in 1..Len(s) : m[j] = s[From(Len(s), i, j)] /\ From(Len(s), i, j) \in DOMAIN s
  BY <1>1, <1>2, <1>3
<1>6. \A j, k \in 1..Len(s) : From(Len(s), i, j) = From(Len(s), i, k) => j = k
  BY <1>1, FromInjective
<1> HIDE DEF m
<1>8. m = MoveToEnd(s, i)
  BY DEF m
<1> QED BY <1>5, <1>6, <1>7, <1>8

\* What the invariant says of a sequence of entries.
Sound(s) ==
    /\ s \in Seq(Entry)
    /\ \A i, j \in DOMAIN s : s[i].key = s[j].key => i = j
    /\ \A i \in DOMAIN s : /\ s[i].body = BodyOf(s[i].key)
                           /\ s[i].key.yaml.content # Nil
                           /\ Valid(s[i].key.yaml.content, s[i].key.type)

LEMMA MoveSound ==
    ASSUME NEW s, Sound(s), NEW i \in DOMAIN s
    PROVE  Sound(MoveToEnd(s, i)) /\ Len(MoveToEnd(s, i)) = Len(s)
<1> DEFINE m == MoveToEnd(s, i)
<1>1. /\ m \in Seq(Entry) /\ Len(m) = Len(s) /\ DOMAIN m = 1..Len(s)
      /\ \A j \in 1..Len(s) : m[j] = s[From(Len(s), i, j)] /\ From(Len(s), i, j) \in DOMAIN s
      /\ \A j, k \in 1..Len(s) : From(Len(s), i, j) = From(Len(s), i, k) => j = k
  BY MoveFacts DEF Sound
<1> HIDE DEF m
<1>2. \A j, k \in DOMAIN m : m[j].key = m[k].key => j = k
  BY <1>1 DEF Sound
<1>3. \A j \in DOMAIN m : /\ m[j].body = BodyOf(m[j].key)
                          /\ m[j].key.yaml.content # Nil
                          /\ Valid(m[j].key.yaml.content, m[j].key.type)
  BY <1>1 DEF Sound
<1>4. Sound(m)
  BY <1>1, <1>2, <1>3 DEF Sound
<1> QED BY <1>1, <1>4 DEF m

\* The entry that Build puts.
Good(e) == /\ e \in Entry /\ e.body = BodyOf(e.key) /\ e.key.yaml.content # Nil
           /\ Valid(e.key.yaml.content, e.key.type)

LEMMA ReplaceSound ==
    ASSUME NEW s, Sound(s), NEW i \in DOMAIN s, NEW e, Good(e), s[i].key = e.key
    PROVE  Sound([s EXCEPT ![i] = e]) /\ Len([s EXCEPT ![i] = e]) = Len(s) /\ i \in DOMAIN [s EXCEPT ![i] = e]
<1> DEFINE r == [s EXCEPT ![i] = e]
<1>1. r \in Seq(Entry) /\ Len(r) = Len(s) /\ DOMAIN r = DOMAIN s
  BY DEF Sound, Good
<1>2. \A j \in DOMAIN s : r[j] = IF j = i THEN e ELSE s[j]
  BY DEF Sound
<1> HIDE DEF r
<1>3. Sound(r)
  BY <1>1, <1>2 DEF Sound, Good
<1> QED BY <1>1, <1>3 DEF r

LEMMA AppendSound ==
    ASSUME NEW s, Sound(s), NEW e, Good(e), \A i \in DOMAIN s : s[i].key # e.key
    PROVE  Sound(Append(s, e)) /\ Len(Append(s, e)) = Len(s) + 1
<1> DEFINE a == Append(s, e)
<1>1. a \in Seq(Entry) /\ Len(a) = Len(s) + 1 /\ DOMAIN a = 1..(Len(s) + 1) /\ DOMAIN s = 1..Len(s)
      /\ Len(s) \in Nat
  BY DEF Sound, Good
<1>2. \A j \in 1..(Len(s) + 1) : a[j] = IF j = Len(s) + 1 THEN e ELSE s[j]
  BY DEF Sound
<1>3. \A j \in 1..(Len(s) + 1) : j # Len(s) + 1 => j \in DOMAIN s
  BY <1>1
<1> HIDE DEF a
<1>4. Sound(a)
  BY <1>1, <1>2, <1>3 DEF Sound, Good
<1> QED BY <1>1, <1>4 DEF a

LEMMA TrimSound ==
    ASSUME NEW s, Sound(s), Len(s) <= CacheSize + 1
    PROVE  Sound(Trim(s)) /\ Len(Trim(s)) <= CacheSize
<1>0. Len(s) \in Nat /\ CacheSize \in Nat \ {0}
  BY Constants DEF Sound
<1>1. CASE Len(s) > CacheSize
  <2> DEFINE t == Tail(s)
  <2>1. t \in Seq(Entry) /\ Len(t) = Len(s) - 1 /\ DOMAIN t = 1..(Len(s) - 1) /\ DOMAIN s = 1..Len(s)
    BY <1>0, <1>1 DEF Sound
  <2>2. \A j \in DOMAIN t : t[j] = s[j + 1] /\ j + 1 \in DOMAIN s
    BY <1>0, <1>1, <2>1 DEF Sound
  <2> HIDE DEF t
  <2>3. Sound(t)
    <3>1. \A j, k \in DOMAIN t : t[j].key = t[k].key => j = k
      BY <1>0, <2>1, <2>2 DEF Sound
    <3> QED BY <2>1, <2>2, <3>1 DEF Sound
  <2> QED BY <1>0, <1>1, <2>1, <2>3 DEF Trim, t
<1>2. CASE ~(Len(s) > CacheSize)
  BY <1>0, <1>2 DEF Trim
<1> QED BY <1>1, <1>2

LEMMA CacheInSound == IInv => Sound(cache) /\ Len(cache) <= CacheSize
BY DEF IInv, TypeOKLink, CacheIsSound, CacheIsChecked, Sound

LEMMA PutSound ==
    ASSUME IInv, NEW e, Good(e), CachePut(e)
    PROVE  Sound(cache') /\ Len(cache') <= CacheSize
<1>0. Sound(cache) /\ Len(cache) <= CacheSize /\ Len(cache) \in Nat /\ CacheSize \in Nat
  BY CacheInSound, Constants DEF IInv, TypeOKLink
<1>1. CASE Positions(e.key) = {}
  <2>0. \A i \in DOMAIN cache : cache[i].key # e.key
    BY <1>1 DEF Positions
  <2>1. Sound(Append(cache, e)) /\ Len(Append(cache, e)) = Len(cache) + 1
    BY <1>0, <2>0, AppendSound
  <2>2. Len(Append(cache, e)) <= CacheSize + 1
    BY <1>0, <2>1
  <2>3. cache' = Trim(Append(cache, e))
    BY <1>1 DEF CachePut
  <2> QED BY <2>1, <2>2, <2>3, TrimSound
<1>2. CASE Positions(e.key) # {}
  <2>1. PICK i \in Positions(e.key) : cache' = MoveToEnd([cache EXCEPT ![i] = e], i)
    BY <1>2 DEF CachePut
  <2>2. i \in DOMAIN cache /\ cache[i].key = e.key
    BY <2>1 DEF Positions
  <2> DEFINE r == [cache EXCEPT ![i] = e]
  <2>3. Sound(r) /\ Len(r) = Len(cache) /\ i \in DOMAIN r
    BY <1>0, <2>2, ReplaceSound
  <2> HIDE DEF r
  <2>4. Sound(MoveToEnd(r, i)) /\ Len(MoveToEnd(r, i)) = Len(r)
    BY <2>3, MoveSound
  <2> QED BY <1>0, <2>1, <2>3, <2>4 DEF r
<1> QED BY <1>1, <1>2

-----------------------------------------------------------------------------
(* The invariant holds at first and is kept by every step.                 *)

LEMMA InitHolds == InitLink => IInv
<1> SUFFICES ASSUME InitLink PROVE IInv
  OBVIOUS
<1>1. [status |-> "unborn", token |-> Nil, type |-> "base", yaml |-> NoYaml] \in Row
  BY DEF Row, NoYaml, Yaml, RuleTypes
<1>2. TypeOKLink
  BY <1>1, IdleType, Constants DEF InitLink, TypeOKLink
<1>3. CacheIsSound /\ CacheIsChecked
  BY Constants DEF InitLink, CacheIsSound, CacheIsChecked
<1>4. Current
  BY IdleType DEF InitLink, Current, CurrentOf
<1> QED BY <1>2, <1>3, <1>4 DEF IInv

\* A sound cache of at most CacheSize entries gives the cache's conjuncts.
LEMMA SoundGives ==
    (Sound(cache') /\ Len(cache') <= CacheSize) => (cache' \in Seq(Entry) /\ CacheIsSound' /\ CacheIsChecked')
BY DEF Sound, CacheIsSound, CacheIsChecked

\* A change of a row adds the new right answer to what every thread may give.
LEMMA SetRowKeeps ==
    ASSUME IInv, NEW u \in Users, NEW new \in Row, SetRow(u, new),
           issued' \in issued..MaxTokens,
           new.status # "unborn" => new.token \in 1..issued'
    PROVE  IInv'
<1>1. row' \in [Users -> Row] /\ row' = [row EXCEPT ![u] = new] /\ UNCHANGED <<cache, request>>
  BY DEF SetRow, IInv, TypeOKLink
<1>2. \A p \in ApiThreads : seen'[p] = IF Active(p) THEN seen[p] \cup {Right(row', request[p].token, request[p].head)}
                                               ELSE seen[p]
  BY DEF SetRow
<1>3. \A p \in ApiThreads : request[p].head \in BOOLEAN
  BY DEF IInv, TypeOKLink, LinkRequest
<1>4. seen' \in [ApiThreads -> SUBSET Answer]
  <2> DEFINE new_seen(p) == IF Active(p) THEN seen[p] \cup {Right(row', request[p].token, request[p].head)} ELSE seen[p]
  <2>1. \A p \in ApiThreads : new_seen(p) \in SUBSET Answer
    BY <1>1, <1>3, RightType DEF IInv, TypeOKLink
  <2>2. seen' = [p \in ApiThreads |-> new_seen(p)]
    BY DEF SetRow
  <2> HIDE DEF new_seen
  <2> QED BY <2>1, <2>2
<1>5. issued' \in 0..MaxTokens /\ \A v \in Users : row'[v].status # "unborn" => row'[v].token \in 1..issued'
  BY <1>1, Constants DEF IInv, TypeOKLink
<1>6. changes' \in 0..MaxChanges
  BY Constants DEF SetRow, IInv, TypeOKLink
<1>7. TypeOKLink'
  BY <1>1, <1>4, <1>5, <1>6 DEF IInv, TypeOKLink
<1>8. CacheIsSound' /\ CacheIsChecked'
  BY <1>1 DEF IInv, CacheIsSound, CacheIsChecked
<1>9. ASSUME NEW p \in ApiThreads
      PROVE  CurrentOf(p)'
  <2>1. CurrentOf(p) /\ request'[p] = request[p] /\ seen[p] \subseteq seen'[p]
    BY <1>1, <1>2 DEF IInv, Current
  <2>2. request[p].pc = "read" => Right(row', request[p].token, request[p].head) \in seen'[p]
    BY <1>2 DEF Active
  <2> QED BY <2>1, <2>2 DEF CurrentOf
<1> QED BY <1>7, <1>8, <1>9 DEF IInv, Current

\* The fields of a row.
LEMMA RowUpdates ==
    ASSUME NEW r \in Row
    PROVE  /\ \A s \in {"unborn", "enabled", "disabled", "deleted"} : [r EXCEPT !.status = s] \in Row
           /\ \A t \in Tokens : [r EXCEPT !.token = t] \in Row
           /\ \A k \in RuleTypes : [r EXCEPT !.type = k] \in Row
           /\ \A k \in RuleTypes, y \in Yaml : [r EXCEPT !.type = k, !.yaml = y] \in Row
BY DEF Row

LEMMA RowOf == IInv => /\ \A u \in Users : row[u] \in Row /\ (row[u].status # "unborn" => row[u].token \in 1..issued)
                       /\ issued \in Nat /\ issued <= MaxTokens /\ issued \in issued..MaxTokens
BY Constants DEF IInv, TypeOKLink

LEMMA RowSteps ==
    ASSUME IInv, NEW u \in Users,
           CreateUser(u) \/ ResetToken(u) \/ SetEnabled(u) \/ Delete(u)
    PROVE  IInv'
<1>0. row[u] \in Row /\ (row[u].status # "unborn" => row[u].token \in 1..issued) /\ issued \in Nat
      /\ issued \in issued..MaxTokens /\ MaxTokens \in Nat
  BY RowOf, Constants
<1>1. CASE CreateUser(u)
  <2>1. issued' \in issued..MaxTokens /\ issued' \in Tokens /\ issued' \in 1..issued'
    BY <1>0, <1>1 DEF CreateUser, NewToken, Tokens
  <2> DEFINE new == [row[u] EXCEPT !.status = "enabled", !.token = issued']
  <2>2. new \in Row /\ new.token = issued'
    BY <1>0, <2>1 DEF Row
  <2>3. SetRow(u, new)
    BY <1>1 DEF CreateUser
  <2> HIDE DEF new
  <2> QED BY <2>1, <2>2, <2>3, SetRowKeeps
<1>2. CASE ResetToken(u)
  <2>1. issued' \in issued..MaxTokens /\ issued' \in Tokens /\ issued' \in 1..issued'
    BY <1>0, <1>2 DEF ResetToken, NewToken, Tokens
  <2> DEFINE new == [row[u] EXCEPT !.token = issued']
  <2>2. new \in Row /\ new.token = issued'
    BY <1>0, <2>1 DEF Row
  <2>3. SetRow(u, new)
    BY <1>2 DEF ResetToken
  <2> HIDE DEF new
  <2> QED BY <2>1, <2>2, <2>3, SetRowKeeps
<1>3. CASE SetEnabled(u)
  <2> DEFINE new == [row[u] EXCEPT !.status = IF @ = "enabled" THEN "disabled" ELSE "enabled"]
  <2>2. new \in Row /\ new.token \in 1..issued
    BY <1>0, <1>3 DEF Row, SetEnabled
  <2>3. SetRow(u, new) /\ issued' = issued
    BY <1>3 DEF SetEnabled
  <2> HIDE DEF new
  <2> QED BY <1>0, <2>2, <2>3, SetRowKeeps
<1>4. CASE Delete(u)
  <2> DEFINE new == [row[u] EXCEPT !.status = "deleted"]
  <2>2. new \in Row /\ new.token \in 1..issued
    BY <1>0, <1>4 DEF Row, Delete
  <2>3. SetRow(u, new) /\ issued' = issued
    BY <1>4 DEF Delete
  <2> HIDE DEF new
  <2> QED BY <1>0, <2>2, <2>3, SetRowKeeps
<1> QED BY <1>1, <1>2, <1>3, <1>4

LEMMA DraftSteps ==
    ASSUME IInv, NEW u \in Users, NEW type \in RuleTypes, SaveUserDraft(u, type)
    PROVE  IInv'
<1>0. row[u] \in Row /\ row[u].token \in 1..issued /\ issued' \in issued..MaxTokens /\ issued' = issued
  BY RowOf DEF SaveUserDraft, Live
<1> DEFINE new == [row[u] EXCEPT !.type = type]
<1>1. new \in Row /\ new.token = row[u].token
  BY <1>0 DEF Row
<1>2. SetRow(u, new)
  BY DEF SaveUserDraft
<1> HIDE DEF new
<1> QED BY <1>0, <1>1, <1>2, SetRowKeeps

LEMMA PublishSteps ==
    ASSUME IInv, NEW u \in Users, NEW content \in Contents, NEW type \in RuleTypes, Publish(u, content, type)
    PROVE  IInv'
<1>0. row[u] \in Row /\ row[u].token \in 1..issued /\ issued' \in issued..MaxTokens /\ issued' = issued
      /\ issued \in Nat /\ issued <= MaxTokens
  BY RowOf DEF Publish, Live
<1>1. PICK t \in 1..row[u].token :
        SetRow(u, [row[u] EXCEPT !.type = type,
                                 !.yaml = [content |-> content, urls |-> IF content \in Private THEN t ELSE Nil]])
  BY DEF Publish
<1> DEFINE y == [content |-> content, urls |-> IF content \in Private THEN t ELSE Nil]
           new == [row[u] EXCEPT !.type = type, !.yaml = y]
<1>2. y \in Yaml
  BY <1>0, <1>1, Constants DEF Yaml, Tokens
<1>3. SetRow(u, new)
  BY <1>1
<1> HIDE DEF y
<1>4. new \in Row /\ new.token = row[u].token
  BY <1>0, <1>2 DEF Row
<1> HIDE DEF new
<1> QED BY <1>0, <1>3, <1>4, SetRowKeeps

-----------------------------------------------------------------------------
(* The steps of a request change its thread, and perhaps the cache.        *)

LEMMA ThreadStep ==
    ASSUME IInv, NEW p \in ApiThreads, NEW r \in LinkRequest, request' = [request EXCEPT ![p] = r],
           UNCHANGED <<row, issued, changes>>,
           Sound(cache'), Len(cache') <= CacheSize,
           seen' \in [ApiThreads -> SUBSET Answer], \A q \in ApiThreads \ {p} : seen'[q] = seen[q],
           CurrentOf(p)'
    PROVE  IInv'
<1>1. TypeOKLink'
  <2>1. request' \in [ApiThreads -> LinkRequest]
    BY DEF IInv, TypeOKLink
  <2>2. cache' \in Seq(Entry)
    BY SoundGives
  <2> QED BY <2>1, <2>2 DEF IInv, TypeOKLink
<1>2. CacheIsSound' /\ CacheIsChecked'
  BY SoundGives
<1>3. ASSUME NEW q \in ApiThreads
      PROVE  CurrentOf(q)'
  <2>1. CASE q = p
    BY <2>1
  <2>2. CASE q # p
    <3>1. CurrentOf(q) /\ request'[q] = request[q] /\ seen'[q] = seen[q] /\ row' = row
      BY <2>2 DEF IInv, TypeOKLink, Current
    <3> QED BY <3>1 DEF CurrentOf
  <2> QED BY <2>1, <2>2
<1> QED BY <1>1, <1>2, <1>3 DEF IInv, Current

LEMMA RespondKeeps ==
    ASSUME IInv, NEW p \in ApiThreads, NEW answer \in seen[p], Respond(p, answer),
           UNCHANGED <<row, issued, seen, changes>>,
           Sound(cache'), Len(cache') <= CacheSize
    PROVE  IInv'
<1>1. seen \in [ApiThreads -> SUBSET Answer] /\ request \in [ApiThreads -> LinkRequest]
  BY DEF IInv, TypeOKLink
<1> DEFINE r == [IdleThread EXCEPT !.pc = "answered", !.answer = answer]
<1>2. answer \in Answer
  BY <1>1
<1>3. r \in LinkRequest /\ r.pc = "answered" /\ r.answer = answer
  BY <1>2, IdleType DEF LinkRequest
<1>4. request' = [request EXCEPT ![p] = r]
  BY DEF Respond
<1> HIDE DEF r
<1>5. CurrentOf(p)'
  BY <1>1, <1>3, <1>4 DEF CurrentOf
<1> QED BY <1>1, <1>3, <1>4, <1>5, ThreadStep

LEMMA SameCache == IInv /\ UNCHANGED cache => Sound(cache') /\ Len(cache') <= CacheSize
BY CacheInSound

LEMMA ArriveStep ==
    ASSUME IInv, NEW p \in ApiThreads, NEW t \in 1..issued, NEW head \in BOOLEAN, Arrive(p, t, head)
    PROVE  IInv'
<1>1. t \in Tokens
  BY RowOf, Constants DEF Tokens
<1> DEFINE r == [IdleThread EXCEPT !.pc = "read", !.token = t, !.head = head]
<1>2. r \in LinkRequest /\ r.pc = "read" /\ r.token = t /\ r.head = head
  BY <1>1, IdleType DEF LinkRequest
<1>3. Right(row, t, head) \in Answer
  BY RightType DEF IInv, TypeOKLink
<1>4. request' = [request EXCEPT ![p] = r] /\ seen' = [seen EXCEPT ![p] = {Right(row, t, head)}]
      /\ UNCHANGED <<row, issued, cache, changes>>
  BY DEF Arrive
<1>5. seen' \in [ApiThreads -> SUBSET Answer] /\ \A q \in ApiThreads \ {p} : seen'[q] = seen[q]
  BY <1>3, <1>4 DEF IInv, TypeOKLink
<1> HIDE DEF r
<1>6. request'[p] = r /\ seen'[p] = {Right(row, t, head)} /\ row' = row
  BY <1>4 DEF IInv, TypeOKLink
<1>7. CurrentOf(p)'
  BY <1>2, <1>6 DEF CurrentOf
<1> QED BY <1>2, <1>4, <1>5, <1>7, SameCache, ThreadStep

LEMMA ReadStep ==
    ASSUME IInv, NEW p \in ApiThreads, Read(p)
    PROVE  IInv'
<1> DEFINE t == request[p].token
           c == Lookup(row, t)
<1>1. request[p] \in LinkRequest /\ request[p].head \in BOOLEAN /\ row \in [Users -> Row] /\ seen \in [ApiThreads -> SUBSET Answer]
      /\ Right(row, t, request[p].head) \in seen[p] /\ UNCHANGED <<row, issued, cache, seen, changes>>
      /\ request \in [ApiThreads -> LinkRequest]
  BY DEF IInv, TypeOKLink, Current, CurrentOf, Read, LinkRequest
<1>2. Sound(cache') /\ Len(cache') <= CacheSize
  BY <1>1, SameCache
<1>3. CASE Served(row, t) = {}
  <2>1. NotFound \in seen[p] /\ Respond(p, NotFound)
    BY <1>1, <1>3 DEF Right, Read
  <2> QED BY <1>1, <1>2, <2>1, RespondKeeps
<1>4. CASE Served(row, t) # {} /\ c.yaml.content = Nil
  <2>1. Unusable \in seen[p] /\ Respond(p, Unusable)
    BY <1>1, <1>4 DEF Right, Read, AnswerFor
  <2> QED BY <1>1, <1>2, <2>1, RespondKeeps
<1>5. CASE Served(row, t) # {} /\ c.yaml.content # Nil
  <2> DEFINE r == [request[p] EXCEPT !.pc = "lookup", !.config = c]
  <2>1. request' = [request EXCEPT ![p] = r]
    BY <1>1, <1>5 DEF Read
  <2>2. c \in Config
    BY <1>1, <1>5, LookupType
  <2>3. AnswerFor(c, request[p].head) \in seen[p]
    BY <1>1, <1>5 DEF Right
  <2> HIDE DEF c
  <2>4. r \in LinkRequest /\ r.pc = "lookup" /\ r.config = c /\ r.head = request[p].head
    BY <1>1, <2>2 DEF LinkRequest
  <2> HIDE DEF r
  <2>5. CurrentOf(p)'
    BY <1>1, <1>5, <2>1, <2>3, <2>4 DEF CurrentOf
  <2> QED BY <1>1, <1>2, <2>1, <2>4, <2>5, ThreadStep
<1> QED BY <1>3, <1>4, <1>5

LEMMA CacheGetStep ==
    ASSUME IInv, NEW p \in ApiThreads, CacheGet(p)
    PROVE  IInv'
<1> DEFINE c == request[p].config
           hits == Positions(KeyOf(c))
<1>1. request[p] \in LinkRequest /\ request[p].head \in BOOLEAN /\ seen \in [ApiThreads -> SUBSET Answer] /\ request \in [ApiThreads -> LinkRequest]
      /\ c.yaml.content # Nil /\ AnswerFor(c, request[p].head) \in seen[p] /\ UNCHANGED <<row, issued, seen, changes>>
  BY DEF IInv, TypeOKLink, Current, CurrentOf, CacheGet, LinkRequest
<1>2. CASE hits = {}
  <2> DEFINE r == [request[p] EXCEPT !.pc = "build"]
  <2>1. request' = [request EXCEPT ![p] = r] /\ UNCHANGED cache
    BY <1>1, <1>2 DEF CacheGet
  <2>2. r \in LinkRequest /\ r.pc = "build" /\ r.config = c /\ r.head = request[p].head
    BY <1>1 DEF LinkRequest
  <2> HIDE DEF r
  <2>3. CurrentOf(p)'
    BY <1>1, <2>1, <2>2 DEF CurrentOf
  <2> QED BY <1>1, <2>1, <2>2, <2>3, SameCache, ThreadStep
<1>3. CASE hits # {}
  <2>1. PICK i \in hits : cache' = MoveToEnd(cache, i) /\ Respond(p, Reply(cache[i].body, request[p].head))
    BY <1>3 DEF CacheGet
  <2>2. i \in DOMAIN cache /\ cache[i].key = c
    BY <2>1 DEF Positions, KeyOf
  <2>3. cache[i].body = BodyOf(c) /\ Valid(c.yaml.content, c.type)
    BY <2>2 DEF IInv, CacheIsSound, CacheIsChecked
  <2>4. AnswerFor(c, request[p].head) = Reply(cache[i].body, request[p].head)
    BY <1>1, <2>3 DEF AnswerFor
  <2>5. Sound(cache') /\ Len(cache') <= CacheSize
    BY <2>1, <2>2, CacheInSound, MoveSound
  <2> QED BY <1>1, <2>1, <2>4, <2>5, RespondKeeps
<1> QED BY <1>2, <1>3

LEMMA BuildStep ==
    ASSUME IInv, NEW p \in ApiThreads, Build(p)
    PROVE  IInv'
<1> DEFINE c == request[p].config
           e == [key |-> KeyOf(c), body |-> BodyOf(c)]
<1>1. request[p] \in LinkRequest /\ c \in Config /\ c.yaml.content # Nil /\ AnswerFor(c, request[p].head) \in seen[p]
      /\ UNCHANGED <<row, issued, seen, changes>> /\ Respond(p, AnswerFor(c, request[p].head))
  BY DEF IInv, TypeOKLink, Current, CurrentOf, Build, LinkRequest
<1>2. Sound(cache') /\ Len(cache') <= CacheSize
  <2>1. CASE Valid(c.yaml.content, c.type) /\ ~request[p].head
    <3>1. CachePut(e)
      BY <2>1 DEF Build
    <3>2. e \in Entry /\ e.key = c /\ e.body = BodyOf(c)
      BY <1>1, BodyType DEF Entry, KeyOf
    <3> HIDE DEF e
    <3>3. Good(e)
      BY <1>1, <2>1, <3>2 DEF Good
    <3> QED BY <3>1, <3>3, PutSound
  <2>2. CASE ~(Valid(c.yaml.content, c.type) /\ ~request[p].head)
    BY <2>2, SameCache DEF Build
  <2> QED BY <2>1, <2>2
<1> QED BY <1>1, <1>2, RespondKeeps

LEMMA DoneStep ==
    ASSUME IInv, NEW p \in ApiThreads, Done(p)
    PROVE  IInv'
<1>1. request' = [request EXCEPT ![p] = IdleThread] /\ seen' = [seen EXCEPT ![p] = {}] /\ UNCHANGED <<row, issued, cache, changes>>
  BY DEF Done
<1>2. seen' \in [ApiThreads -> SUBSET Answer] /\ \A q \in ApiThreads \ {p} : seen'[q] = seen[q]
  BY <1>1 DEF IInv, TypeOKLink
<1>3. CurrentOf(p)'
  <2>1. request'[p] = IdleThread
    BY <1>1 DEF IInv, TypeOKLink
  <2> QED BY <2>1, IdleType DEF CurrentOf
<1> QED BY <1>1, <1>2, <1>3, IdleType, SameCache, ThreadStep

LEMMA RestartStep ==
    ASSUME IInv, Restart
    PROVE  IInv'
<1>1. TypeOKLink'
  BY IdleType DEF IInv, TypeOKLink, Restart
<1>2. CacheIsSound' /\ CacheIsChecked'
  BY Constants DEF Restart, CacheIsSound, CacheIsChecked
<1>3. Current'
  BY IdleType DEF Restart, Current, CurrentOf
<1> QED BY <1>1, <1>2, <1>3 DEF IInv

LEMMA StutterStep == IInv /\ UNCHANGED linkVars => IInv'
BY DEF linkVars, IInv, TypeOKLink, CacheIsSound, CacheIsChecked, Current, CurrentOf, Positions

-----------------------------------------------------------------------------
(* The theorems.                                                           *)

\* Every reachable state satisfies the inductive invariant: what a thread has
\* read, and what the cache holds, is right whatever rows change meanwhile.
THEOREM Invariance == SpecLink => []IInv
<1>1. InitLink => IInv
  BY InitHolds
<1>2. IInv /\ [NextLink]_linkVars => IInv'
  <2> SUFFICES ASSUME IInv, [NextLink]_linkVars PROVE IInv'
    OBVIOUS
  <2>1. ASSUME NEW u \in Users, CreateUser(u) \/ ResetToken(u) \/ SetEnabled(u) \/ Delete(u) PROVE IInv'
    BY <2>1, RowSteps
  <2>2. ASSUME NEW u \in Users, NEW type \in RuleTypes, SaveUserDraft(u, type) PROVE IInv'
    BY <2>2, DraftSteps
  <2>3. ASSUME NEW u \in Users, NEW content \in Contents, NEW type \in RuleTypes, Publish(u, content, type)
        PROVE IInv'
    BY <2>3, PublishSteps
  <2>4. ASSUME NEW p \in ApiThreads, NEW t \in 1..issued, NEW head \in BOOLEAN, Arrive(p, t, head) PROVE IInv'
    BY <2>4, ArriveStep
  <2>5. ASSUME NEW p \in ApiThreads, Read(p) \/ CacheGet(p) \/ Build(p) \/ Done(p) PROVE IInv'
    BY <2>5, ReadStep, CacheGetStep, BuildStep, DoneStep
  <2>6. CASE Restart
    BY <2>6, RestartStep
  <2>7. CASE UNCHANGED linkVars
    BY <2>7, StutterStep
  <2> QED BY <2>1, <2>2, <2>3, <2>4, <2>5, <2>6, <2>7 DEF NextLink
<1> QED BY <1>1, <1>2, PTL DEF SpecLink

\* Rows, cache entries and requests of subscription delivery have their types.
THEOREM TypeCorrect == SpecLink => []TypeOKLink
<1>1. IInv => TypeOKLink
  BY DEF IInv
<1> QED BY <1>1, Invariance, PTL

\* get_subscription answers what was right for the token at some moment while
\* it ran, also from the cache, for every order of resets and publications.
THEOREM NoStaleAnswer == SpecLink => []AnswersAreCurrent
<1>1. IInv => AnswersAreCurrent
  BY DEF IInv, Current, CurrentOf, AnswersAreCurrent
<1> QED BY <1>1, Invariance, PTL

\* The cache keeps its limit and one right body per key, for every number of
\* threads that fill it.
THEOREM CacheStaysSound == SpecLink => []CacheIsSound
<1>1. IInv => CacheIsSound
  BY DEF IInv
<1> QED BY <1>1, Invariance, PTL
=============================================================================
