------------------------ MODULE DraftContentsProofs -------------------------
(***************************************************************************)
(* Proofs about the contents of drafts (DraftContents, ConfigBuilder and   *)
(* Normalizer), whatever the number of nodes and of steps: what is stored  *)
(* is normal, what is published is a configuration that loads, and an edit *)
(* hits the node that its form was opened for.                             *)
(***************************************************************************)
EXTENDS DraftContents, TLAPS, SequenceTheorems, FiniteSetTheorems, WellFoundedInduction

-----------------------------------------------------------------------------
(* Places in a sequence                                                    *)

\* A set of numbers that is not empty has a least one.
LEMMA LeastNatural ==
    ASSUME NEW T, T \subseteq Nat, T # {}
    PROVE  \E m \in T : \A k \in T : m <= k
<1> DEFINE R == OpToRel(<, Nat)
<1>1. IsWellFoundedOn(R, Nat)
  BY NatLessThanWellFounded, Zenon
<1>2. \A x, y \in Nat : x < y => <<x, y>> \in R
  BY DEF OpToRel
<1> HIDE DEF R
<1>3. PICK m \in T : \A y \in T : ~(<<y, m>> \in R)
  BY <1>1, WFMin
<1>4. ASSUME NEW k \in T
      PROVE  m <= k
  <2>1. m \in Nat /\ k \in Nat /\ ~(k < m)
    BY <1>2, <1>3
  <2> QED
    BY <2>1
<1> QED
  BY <1>3, <1>4

\* A set of places has a k-th least one for every k up to its size.
LEMMA NthIsThere ==
    ASSUME NEW n \in Nat, NEW S, S \subseteq 1..n, NEW k \in 1..Cardinality(S)
    PROVE  Nth(S, k) \in S
<1> DEFINE upTo(m) == {j \in S : j <= m}
           T == {m \in Nat : k <= Cardinality(upTo(m))}
<1> HIDE DEF T
<1>0. \A j \in S : j \in Nat /\ 1 <= j /\ j <= n
  OBVIOUS
<1>1. IsFiniteSet(S)
  <2> S \in SUBSET (1..n) /\ IsFiniteSet(1..n)
    BY FS_Interval
  <2> QED
    BY FS_Subset
<1>2. \A m \in Nat : IsFiniteSet(upTo(m)) /\ Cardinality(upTo(m)) \in Nat
  <2> TAKE m \in Nat
  <2> upTo(m) \in SUBSET S
    OBVIOUS
  <2> HIDE DEF upTo
  <2> QED
    BY <1>1, FS_Subset, FS_CardinalityType
<1>3. n \in T
  <2> upTo(n) = S
    BY <1>0
  <2> HIDE DEF upTo
  <2> QED
    BY DEF T
<1>4. PICK m \in T : \A l \in T : m <= l
  <2> T \subseteq Nat
    BY DEF T
  <2> QED
    BY <1>3, LeastNatural
<1>5. Cardinality(S) \in Nat /\ k \in Nat /\ k > 0 /\ m \in Nat
  BY <1>1, <1>4, FS_CardinalityType DEF T
<1>6. upTo(0) = {}
  <2> \A j \in S : ~(j <= 0)
    BY <1>0
  <2> QED
    OBVIOUS
<1>7. m # 0 /\ m - 1 \in Nat /\ m - 1 \notin T
  <2>1. m # 0
    <3> HIDE DEF upTo
    <3> QED
      BY <1>4, <1>5, <1>6, FS_EmptySet DEF T
  <2>2. m - 1 \in Nat /\ ~(m <= m - 1)
    BY <1>5, <2>1
  <2> QED
    BY <1>4, <2>2
<1>8. m \in S /\ Cardinality(upTo(m)) = Cardinality(upTo(m - 1)) + 1
  <2>1. \A j \in S : j <= m <=> j <= m - 1 \/ j = m
    BY <1>0, <1>5
  <2>2. ~(m <= m - 1)
    BY <1>5
  <2>3. CASE m \in S
    <3> upTo(m) = upTo(m - 1) \cup {m} /\ m \notin upTo(m - 1)
      BY <1>5, <2>1, <2>2, <2>3
    <3> HIDE DEF upTo
    <3> QED
      BY <1>2, <1>7, <2>3, FS_AddElement
  <2>4. CASE m \notin S
    <3> upTo(m) = upTo(m - 1)
      BY <2>1, <2>4
    <3> HIDE DEF upTo
    <3> QED
      BY <1>4, <1>7 DEF T
  <2> QED
    BY <2>3, <2>4
<1>9. Cardinality(upTo(m)) = k
  <2> HIDE DEF upTo
  <2> QED
    BY <1>2, <1>4, <1>5, <1>7, <1>8 DEF T
<1> QED
  BY <1>8, <1>9 DEF Nth

-----------------------------------------------------------------------------
(* Sequences of whatever they hold                                         *)

IsList(s) == s \in Seq({s[i] : i \in DOMAIN s})

LEMMA ListFacts ==
    ASSUME NEW s, IsList(s)
    PROVE  Len(s) \in Nat /\ DOMAIN s = 1..Len(s) /\ s = [i \in 1..Len(s) |-> s[i]]
BY DEF IsList

LEMMA ListOfFunction ==
    ASSUME NEW s, NEW n \in Nat, DOMAIN s = 1..n, s = [i \in 1..n |-> s[i]]
    PROVE  IsList(s) /\ Len(s) = n
<1> DEFINE S == {s[i] : i \in DOMAIN s}
<1>1. s \in [1..n -> S]
  OBVIOUS
<1> HIDE DEF S
<1>2. s \in Seq(S) /\ Len(s) = n
  BY <1>1
<1> QED
  BY <1>2 DEF IsList, S

LEMMA ListOfSeq ==
    ASSUME NEW S, NEW s \in Seq(S)
    PROVE  IsList(s)
<1>1. Len(s) \in Nat /\ DOMAIN s = 1..Len(s) /\ s = [i \in 1..Len(s) |-> s[i]]
  OBVIOUS
<1> QED
  BY <1>1, ListOfFunction

\* The picked elements are a sequence of elements at the places.
LEMMA PickedElements ==
    ASSUME NEW s, IsList(s), NEW S, S \subseteq DOMAIN s
    PROVE  Picked(s, S) \in Seq({s[i] : i \in S}) /\ IsList(Picked(s, S))
<1> DEFINE n == Cardinality(S)
           E == {s[i] : i \in S}
<1>1. Len(s) \in Nat /\ S \subseteq 1..Len(s)
  BY ListFacts
<1>2. n \in Nat
  <2> S \in SUBSET (1..Len(s)) /\ IsFiniteSet(1..Len(s))
    BY <1>1, FS_Interval
  <2> QED
    BY FS_Subset, FS_CardinalityType
<1>3. \A k \in 1..n : s[Nth(S, k)] \in E
  BY <1>1, NthIsThere
<1> HIDE DEF n, E
<1>4. [k \in 1..n |-> s[Nth(S, k)]] \in Seq(E)
  BY <1>2, <1>3
<1>5. Picked(s, S) \in Seq(E)
  BY <1>4 DEF Picked, n
<1> QED
  BY <1>5, ListOfSeq DEF E

LEMMA ConcatLists ==
    ASSUME NEW s, NEW t, IsList(s), IsList(t)
    PROVE  /\ IsList(s \o t) /\ Len(s \o t) = Len(s) + Len(t)
           /\ \A i \in DOMAIN (s \o t) :
                (s \o t)[i] = IF i <= Len(s) THEN s[i] ELSE t[i - Len(s)]
<1> DEFINE S == {s[i] : i \in DOMAIN s} \cup {t[i] : i \in DOMAIN t}
<1>1. s \in Seq(S) /\ t \in Seq(S)
  <2>1. s \in [1..Len(s) -> S] /\ t \in [1..Len(t) -> S] /\ Len(s) \in Nat /\ Len(t) \in Nat
    BY ListFacts
  <2> HIDE DEF S
  <2> QED
    BY <2>1
<1> HIDE DEF S
<1>2. /\ s \o t \in Seq(S) /\ Len(s \o t) = Len(s) + Len(t)
      /\ \A i \in 1..(Len(s) + Len(t)) :
           (s \o t)[i] = IF i <= Len(s) THEN s[i] ELSE t[i - Len(s)]
  BY <1>1, ConcatProperties
<1>3. DOMAIN (s \o t) = 1..(Len(s) + Len(t))
  BY <1>2
<1> QED
  BY <1>2, <1>3, ListOfSeq

-----------------------------------------------------------------------------
(* Normalisation                                                           *)

\* What normalize_proxy has normalised it leaves as it is (normalizer.py:63).
LEMMA NormalizeTwice ==
    ASSUME NEW n
    PROVE  Normalize(Normalize(n)) = Normalize(n)
<1>1. \A t : Type(Type(t)) = Type(t)
  BY DEF Type
<1>2. \A s : Server(Server(s)) = Server(s)
  BY DEF Server
<1>3. \A p : Port(Port(p)) = Port(p)
  BY DEF Port
<1>4. \A t, h : Hop(t, Hop(t, h)) = Hop(t, h)
  BY DEF Hop, Absent
<1>5. \A f : Fingerprint(Fingerprint(f)) = Fingerprint(f)
  BY DEF Fingerprint, Absent
<1>6. \A f, c : Client(Fingerprint(f), Client(f, c)) = Client(f, c)
  BY DEF Fingerprint, Client, Absent
<1>7. \A v, m : Smux(v, Smux(v, m)) = Smux(v, m)
  BY DEF Smux, Absent
<1>8. \A e : Ech(Ech(e)) = Ech(e)
  BY DEF Ech, Absent
<1> QED
  BY <1>1, <1>2, <1>3, <1>4, <1>5, <1>6, <1>7, <1>8, Zenon DEF Normalize

LEMMA NormalizeAllTwice ==
    ASSUME NEW nodes
    PROVE  NormalizeAll(NormalizeAll(nodes)) = NormalizeAll(nodes)
BY NormalizeTwice, Zenon DEF NormalizeAll

LEMMA NormalizeAllKeeps ==
    ASSUME NEW nodes
    PROVE  /\ DOMAIN NormalizeAll(nodes) = DOMAIN nodes
           /\ \A i \in DOMAIN nodes : /\ NormalizeAll(nodes)[i] = Normalize(nodes[i])
                                      /\ NormalizeAll(nodes)[i].text = nodes[i].text
BY DEF NormalizeAll, Normalize

LEMMA NormalizeAllList ==
    ASSUME NEW nodes, IsList(nodes)
    PROVE  IsList(NormalizeAll(nodes)) /\ Len(NormalizeAll(nodes)) = Len(nodes)
<1>1. Len(nodes) \in Nat /\ DOMAIN nodes = 1..Len(nodes)
  BY ListFacts
<1>2. NormalizeAll(nodes) = [i \in 1..Len(nodes) |-> NormalizeAll(nodes)[i]]
      /\ DOMAIN NormalizeAll(nodes) = 1..Len(nodes)
  BY <1>1 DEF NormalizeAll
<1> QED
  BY <1>1, <1>2, ListOfFunction

-----------------------------------------------------------------------------
(* The order of rules                                                      *)

Plain(s)    == IsList(s) /\ \A i \in DOMAIN s : ~IsMatch(s[i])
AllMatch(s) == IsList(s) /\ \A i \in DOMAIN s : IsMatch(s[i])

\* Behind a MATCH rule stand only MATCH rules.
MatchLast(s) == \A i, j \in DOMAIN s : i <= j /\ IsMatch(s[i]) => IsMatch(s[j])

LEMMA EmptyList == IsList(<<>>) /\ Len(<<>>) = 0
<1> <<>> \in Seq({})
  OBVIOUS
<1> QED
  BY ListOfSeq

LEMMA PlainConcat ==
    ASSUME NEW s, NEW t, Plain(s), Plain(t)
    PROVE  Plain(s \o t)
<1>1. /\ IsList(s) /\ IsList(t) /\ IsList(s \o t)
      /\ Len(s \o t) = Len(s) + Len(t)
      /\ \A i \in DOMAIN (s \o t) :
           (s \o t)[i] = IF i <= Len(s) THEN s[i] ELSE t[i - Len(s)]
  BY ConcatLists DEF Plain
<1> DEFINE c == s \o t
<1> HIDE DEF c
<1>2. /\ Len(s) \in Nat /\ Len(t) \in Nat /\ DOMAIN s = 1..Len(s) /\ DOMAIN t = 1..Len(t)
      /\ DOMAIN c = 1..(Len(s) + Len(t))
  BY <1>1, ListFacts DEF c
<1>3. \A i \in DOMAIN c : IF i <= Len(s) THEN i \in DOMAIN s ELSE i - Len(s) \in DOMAIN t
  BY <1>2
<1>4. ASSUME NEW i \in DOMAIN c
      PROVE  ~IsMatch(c[i])
  <2> HIDE DEF IsMatch
  <2>1. CASE i <= Len(s)
    <3> c[i] = s[i] /\ i \in DOMAIN s
      BY <1>1, <1>3, <2>1 DEF c
    <3> QED
      BY DEF Plain
  <2>2. CASE ~(i <= Len(s))
    <3> c[i] = t[i - Len(s)] /\ i - Len(s) \in DOMAIN t
      BY <1>1, <1>3, <2>2 DEF c
    <3> QED
      BY DEF Plain
  <2> QED
    BY <2>1, <2>2
<1> QED
  BY <1>1, <1>4 DEF Plain, c

LEMMA PlainThenMatch ==
    ASSUME NEW s, NEW t, Plain(s), AllMatch(t)
    PROVE  IsList(s \o t) /\ MatchLast(s \o t)
<1>1. /\ IsList(s) /\ IsList(t) /\ IsList(s \o t)
      /\ Len(s \o t) = Len(s) + Len(t)
      /\ \A i \in DOMAIN (s \o t) :
           (s \o t)[i] = IF i <= Len(s) THEN s[i] ELSE t[i - Len(s)]
  BY ConcatLists DEF Plain, AllMatch
<1> DEFINE c == s \o t
<1> HIDE DEF c
<1>2. /\ Len(s) \in Nat /\ Len(t) \in Nat /\ DOMAIN s = 1..Len(s) /\ DOMAIN t = 1..Len(t)
      /\ DOMAIN c = 1..(Len(s) + Len(t))
  BY <1>1, ListFacts DEF c
<1>3. ASSUME NEW i \in DOMAIN c, NEW j \in DOMAIN c, i <= j, IsMatch(c[i])
      PROVE  IsMatch(c[j])
  <2>1. ~(i <= Len(s))
    <3> SUFFICES ASSUME i <= Len(s) PROVE FALSE
      OBVIOUS
    <3> c[i] = s[i] /\ i \in DOMAIN s
      BY <1>1, <1>2 DEF c
    <3> QED
      BY <1>3 DEF Plain
  <2>2. ~(j <= Len(s)) /\ j - Len(s) \in DOMAIN t
    BY <1>2, <1>3, <2>1
  <2>3. c[j] = t[j - Len(s)]
    BY <1>1, <2>2 DEF c
  <2> QED
    BY <2>2, <2>3 DEF AllMatch
<1> QED
  BY <1>1, <1>3 DEF MatchLast, c

LEMMA MatchAppended ==
    ASSUME NEW s, IsList(s), MatchLast(s), NEW r, IsMatch(r)
    PROVE  IsList(Append(s, r)) /\ MatchLast(Append(s, r))
<1> DEFINE S == {s[i] : i \in DOMAIN s} \cup {r}
           c == Append(s, r)
<1>1. Len(s) \in Nat /\ DOMAIN s = 1..Len(s) /\ s \in Seq(S)
  <2>1. s \in [1..Len(s) -> S] /\ Len(s) \in Nat
    BY ListFacts
  <2> HIDE DEF S
  <2> QED
    BY <2>1, ListFacts
<1>2. r \in S
  OBVIOUS
<1> HIDE DEF S, c
<1>3. /\ c \in Seq(S) /\ Len(c) = Len(s) + 1
      /\ \A i \in 1..Len(s) : c[i] = s[i]
      /\ c[Len(s) + 1] = r
  BY <1>1, <1>2, AppendProperties DEF c
<1>4. DOMAIN c = 1..(Len(s) + 1)
  BY <1>3
<1>5. ASSUME NEW i \in DOMAIN c, NEW j \in DOMAIN c, i <= j, IsMatch(c[i])
      PROVE  IsMatch(c[j])
  <2>1. CASE j = Len(s) + 1
    BY <1>3, <2>1
  <2>2. CASE j # Len(s) + 1
    <3> i \in DOMAIN s /\ j \in DOMAIN s /\ c[i] = s[i] /\ c[j] = s[j]
      BY <1>1, <1>3, <1>4, <1>5, <2>2
    <3> QED
      BY <1>5 DEF MatchLast
  <2> QED
    BY <2>1, <2>2
<1> QED
  BY <1>3, <1>5, ListOfSeq DEF MatchLast, c

-----------------------------------------------------------------------------
(* The rules of a configuration                                            *)

LEMMA NamedList ==
    ASSUME NEW entries, NEW names, IsList(names)
    PROVE  IsList(Named(entries, names))
<1> DEFINE S == {i \in DOMAIN names : \E e \in ToSet(entries) : e.name = names[i]}
           known == Picked(names, S)
<1>1. IsList(known)
  <2> S \subseteq DOMAIN names
    OBVIOUS
  <2> HIDE DEF S
  <2> QED
    BY PickedElements
<1>2. Named(entries, names)
        = [k \in DOMAIN known |-> CHOOSE e \in ToSet(entries) : e.name = known[k]]
  BY DEF Named
<1> HIDE DEF known
<1>3. DOMAIN known = 1..Len(known) /\ Len(known) \in Nat
  BY <1>1, ListFacts
<1> QED
  BY <1>2, <1>3, ListOfFunction

LEMMA PriorityOrderedList ==
    ASSUME NEW entries, NEW first, NEW deferred,
           IsList(entries), IsList(first), IsList(deferred)
    PROVE  IsList(PriorityOrdered(entries, first, deferred))
<1> DEFINE S == {i \in DOMAIN entries : entries[i].name \notin ToSet(first) \cup ToSet(deferred)}
           T == {i \in DOMAIN deferred : deferred[i] \notin ToSet(first)}
<1>1. S \subseteq DOMAIN entries /\ T \subseteq DOMAIN deferred
  OBVIOUS
<1>2. PriorityOrdered(entries, first, deferred)
        = Named(entries, first) \o Picked(entries, S) \o Named(entries, Picked(deferred, T))
  BY DEF PriorityOrdered
<1> HIDE DEF S, T
<1>3. IsList(Picked(entries, S)) /\ IsList(Picked(deferred, T))
  BY <1>1, PickedElements
<1>4. IsList(Named(entries, first)) /\ IsList(Named(entries, Picked(deferred, T)))
  BY <1>3, NamedList
<1>5. IsList(Named(entries, first) \o Picked(entries, S))
  BY <1>3, <1>4, ConcatLists
<1> QED
  BY <1>2, <1>4, <1>5, ConcatLists

LEMMA TupleLists ==
    /\ \A x : IsList(<<x>>)
    /\ \A x, y : IsList(<<x, y>>)
    /\ \A x, y, z : IsList(<<x, y, z>>)
    /\ \A x, y, z, v, w : IsList(<<x, y, z, v, w>>)
<1>1. \A x : <<x>> \in Seq({x})
  OBVIOUS
<1>2. \A x, y : <<x, y>> \in Seq({x, y})
  OBVIOUS
<1>3. \A x, y, z : <<x, y, z>> \in Seq({x, y, z})
  OBVIOUS
<1>4. \A x, y, z, v, w : <<x, y, z, v, w>> \in Seq({x, y, z, v, w})
  OBVIOUS
<1> QED
  BY <1>1, <1>2, <1>3, <1>4, ListOfSeq

LEMMA TablesAreLists ==
    ASSUME NEW t
    PROVE  IsList(Catalog(t)) /\ IsList(First(t)) /\ IsList(Deferred(t))
<1>1. IsList(Catalog(t))
  <2>1. CASE t = "dustinwin"
    <3> HIDE DEF IsList
    <3> QED
      BY TupleLists, <2>1, Zenon DEF Catalog
  <2>2. CASE t = "lhie1"
    <3> t # "dustinwin"
      BY <2>2
    <3> QED
      BY TupleLists, <2>2, Zenon DEF Catalog
  <2>3. CASE t # "dustinwin" /\ t # "lhie1"
    BY <2>3, EmptyList, Zenon DEF Catalog
  <2> QED
    BY <2>1, <2>2, <2>3
<1>2. IsList(First(t))
  BY TupleLists, Zenon DEF First
<1>3. IsList(Deferred(t))
  BY TupleLists, Zenon DEF Deferred
<1> QED
  BY <1>1, <1>2, <1>3

LEMMA BaseRulesList ==
    ASSUME NEW t, NEW chosen
    PROVE  IsList(BaseRules(t, chosen))
<1> DEFINE sets  == PriorityOrdered(Catalog(t), First(t), Deferred(t))
           rules == [i \in DOMAIN sets |-> SetRule(sets[i], chosen)]
           own   == <<Rule("DOMAIN-SUFFIX", "services.googleapis.cn", "Google")>>
           mine  == <<Rule("MATCH", "", "Others")>>
           lhie  == << Rule("RULE-SET", "google", "Google"),
                       [Rule("GEOIP", "CN", "Domestic") EXCEPT !.noResolve = TRUE],
                       Rule("MATCH", "", "Others") >>
           old   == << Rule("DOMAIN-SUFFIX", "youtube.com", "Youtube"),
                       Rule("MATCH", "", "Proxy") >>
<1>1. BaseRules(t, chosen) = IF t = "dustinwin" THEN own \o rules \o mine
                             ELSE IF t = "lhie1" THEN own \o rules \o lhie
                             ELSE IF t = "none" THEN <<>> ELSE own \o old
  <2> HIDE DEF sets, own, mine, lhie, old
  <2>1. CASE t = "dustinwin"
    BY <2>1 DEF BaseRules, NoBase, sets, own, mine, lhie, old
  <2>2. CASE t = "lhie1"
    BY <2>2 DEF BaseRules, NoBase, sets, own, mine, lhie, old
  <2>3. CASE t = "none"
    BY <2>3 DEF BaseRules, NoBase, sets, own, mine, lhie, old
  <2>4. CASE t \notin {"dustinwin", "lhie1", "none"}
    BY <2>4 DEF BaseRules, NoBase, sets, own, mine, lhie, old
  <2> QED
    BY <2>1, <2>2, <2>3, <2>4
<1>2. IsList(own) /\ IsList(mine) /\ IsList(lhie) /\ IsList(old)
  BY TupleLists, Zenon
<1>3. IsList(rules)
  <2>1. IsList(sets)
    BY TablesAreLists, PriorityOrderedList
  <2> HIDE DEF sets
  <2>2. DOMAIN sets = 1..Len(sets) /\ Len(sets) \in Nat
    BY <2>1, ListFacts
  <2> QED
    BY <2>2, ListOfFunction
<1> HIDE DEF rules, own, mine, lhie, old
<1>4. IsList(own \o rules) /\ IsList(own \o old)
  BY <1>2, <1>3, ConcatLists
<1>5. IsList(own \o rules \o mine) /\ IsList(own \o rules \o lhie)
  BY <1>2, <1>4, ConcatLists
<1> QED
  BY <1>1, <1>4, <1>5, EmptyList, Zenon

LEMMA NormalAndMatches ==
    ASSUME NEW rules, IsList(rules)
    PROVE  Plain(Normal(rules)) /\ AllMatch(Matches(rules))
<1> DEFINE N == {i \in DOMAIN rules : ~IsMatch(rules[i])}
           M == {i \in DOMAIN rules : IsMatch(rules[i])}
<1>1. N \subseteq DOMAIN rules /\ M \subseteq DOMAIN rules
  OBVIOUS
<1>2. Normal(rules) \in Seq({rules[i] : i \in N}) /\ IsList(Normal(rules))
  <2> Normal(rules) = Picked(rules, N)
    BY DEF Normal
  <2> HIDE DEF N
  <2> QED
    BY <1>1, PickedElements
<1>3. Matches(rules) \in Seq({rules[i] : i \in M}) /\ IsList(Matches(rules))
  <2> Matches(rules) = Picked(rules, M)
    BY DEF Matches
  <2> HIDE DEF M
  <2> QED
    BY <1>1, PickedElements
<1>4. \A k \in DOMAIN Normal(rules) : Normal(rules)[k] \in {rules[i] : i \in N}
  <2> HIDE DEF N
  <2> QED
    BY <1>2
<1>5. \A k \in DOMAIN Matches(rules) : Matches(rules)[k] \in {rules[i] : i \in M}
  <2> HIDE DEF M
  <2> QED
    BY <1>3
<1> QED
  BY <1>2, <1>3, <1>4, <1>5, Zenon DEF Plain, AllMatch

LEMMA ProviderRulesPlain ==
    ASSUME NEW providers, IsList(providers), NEW first
    PROVE  Plain(ProviderRules(providers, first))
<1> DEFINE S == {i \in DOMAIN providers : providers[i].first = first}
           p == Picked(providers, S)
           r == ProviderRules(providers, first)
<1>1. IsList(p)
  <2> S \subseteq DOMAIN providers
    OBVIOUS
  <2> HIDE DEF S
  <2> QED
    BY PickedElements
<1>2. r = [i \in DOMAIN p |-> Rule("RULE-SET", p[i].name, p[i].target)]
  BY DEF ProviderRules
<1> HIDE DEF p, r
<1>3. DOMAIN p = 1..Len(p) /\ Len(p) \in Nat
  BY <1>1, ListFacts
<1>4. IsList(r)
  BY <1>2, <1>3, ListOfFunction
<1>5. \A i \in DOMAIN r : ~IsMatch(r[i])
  BY <1>2 DEF IsMatch, Rule
<1> QED
  BY <1>4, <1>5 DEF Plain, r

\* In the rules of every draft nothing but MATCH stands behind MATCH.
LEMMA BuildRulesMatchLast ==
    ASSUME NEW d, IsList(d.rules), IsList(d.providers)
    PROVE  IsList(BuildRules(d)) /\ MatchLast(BuildRules(d))
<1> DEFINE base  == BaseRules(d.ruleType, d.chosen)
           own   == Matches(d.rules)
           final == IF own # <<>> THEN SubSeq(own, 1, 1) ELSE Matches(base)
           most  == Normal(d.rules) \o ProviderRules(d.providers, TRUE)
                    \o Normal(base) \o ProviderRules(d.providers, FALSE)
           all   == most \o final
           m     == Rule("MATCH", "", "Proxy")
<1>1. /\ Plain(Normal(d.rules)) /\ AllMatch(own)
      /\ Plain(Normal(base)) /\ AllMatch(Matches(base))
  BY BaseRulesList, NormalAndMatches
<1>2. Plain(most)
  <2>1. Plain(ProviderRules(d.providers, TRUE)) /\ Plain(ProviderRules(d.providers, FALSE))
    BY ProviderRulesPlain
  <2> HIDE DEF base
  <2>2. Plain(Normal(d.rules) \o ProviderRules(d.providers, TRUE))
    BY <1>1, <2>1, PlainConcat
  <2>3. Plain(Normal(d.rules) \o ProviderRules(d.providers, TRUE) \o Normal(base))
    BY <1>1, <2>2, PlainConcat
  <2> QED
    BY <2>1, <2>3, PlainConcat
<1>3. AllMatch(final)
  <2>1. ASSUME own # <<>>
        PROVE  AllMatch(SubSeq(own, 1, 1))
    <3> HIDE DEF own
    <3>1. Len(own) \in Nat /\ DOMAIN own = 1..Len(own)
      BY <1>1, ListFacts DEF AllMatch
    <3>2. Len(own) # 0
      BY <1>1, <2>1 DEF AllMatch, IsList
    <3>3. 1 \in DOMAIN own
      BY <3>1, <3>2
    <3>4. SubSeq(own, 1, 1) \in Seq({own[1]})
      BY SubSeqProperties
    <3>5. \A i \in DOMAIN SubSeq(own, 1, 1) : SubSeq(own, 1, 1)[i] = own[1]
      BY <3>4
    <3> QED
      BY <1>1, <3>3, <3>4, <3>5, ListOfSeq DEF AllMatch
  <2> HIDE DEF own, base
  <2> QED
    BY <1>1, <2>1
<1>4. BuildRules(d) \in {all, Append(all, m)}
  <2> HIDE DEF base, m
  <2>1. all = Normal(d.rules) \o ProviderRules(d.providers, TRUE)
              \o Normal(base) \o ProviderRules(d.providers, FALSE) \o final
    OBVIOUS
  <2> HIDE DEF final, most
  <2>2. BuildRules(d) = IF NoBase(d.ruleType) \/ \E i \in DOMAIN all : StartsMatch(all[i])
                        THEN all ELSE Append(all, m)
    BY DEF BuildRules, base, final, m, most
  <2> HIDE DEF all
  <2> QED
    BY <2>2
<1> HIDE DEF most, final, m
<1>5. IsList(all) /\ MatchLast(all)
  BY <1>2, <1>3, PlainThenMatch
<1>6. IsMatch(m)
  BY DEF IsMatch, Rule, m
<1> HIDE DEF all
<1>7. IsList(Append(all, m)) /\ MatchLast(Append(all, m))
  BY <1>5, <1>6, MatchAppended
<1> QED
  BY <1>4, <1>5, <1>7

LEMMA ConfigMatchLast ==
    ASSUME NEW d, IsList(d.rules), IsList(d.providers), NEW names
    PROVE  IsList(BuildConfig(d, names).rules) /\ MatchLast(BuildConfig(d, names).rules)
<1>1. BuildConfig(d, names).rules \in {<<Rule("MATCH", "", "Proxy")>>, BuildRules(d)}
  BY DEF BuildConfig
<1>2. MatchLast(<<Rule("MATCH", "", "Proxy")>>)
  <2>1. \A x : \A i \in DOMAIN <<x>> : <<x>>[i] = x
    OBVIOUS
  <2>2. IsMatch(Rule("MATCH", "", "Proxy"))
    BY DEF IsMatch, Rule
  <2> QED
    BY <2>1, <2>2, Zenon DEF MatchLast
<1> QED
  BY <1>1, <1>2, BuildRulesMatchLast, TupleLists

-----------------------------------------------------------------------------
(* What passes the validation loads                                        *)

OptionsOK(o) == IsList(o.rules) /\ IsList(o.providers)

\* PublishedLoads, told of a configuration p.
Loads(p) ==
    LET c       == BuildConfig(p.options, NamesOf(p.nodes))
        matches == {i \in DOMAIN c.rules : IsMatch(c.rules[i])}
    IN  p.nodes # <<>> =>
          /\ Distinct(c.nodes)
          /\ \A i \in DOMAIN p.nodes : FieldErrors(p.nodes[i]) = {}
          /\ GroupTargets(c) \cup RuleTargets(c) \subseteq Targets(c)
          /\ \A i \in matches : i..Len(c.rules) \subseteq matches

LEMMA PassesLoads ==
    ASSUME NEW p, OptionsOK(p.options), Passes(p.nodes, p.options)
    PROVE  Loads(p)
<1> DEFINE names == NamesOf(p.nodes)
           c == BuildConfig(p.options, names)
<1>1. Distinct(names) /\ \A i \in DOMAIN p.nodes : FieldErrors(p.nodes[i]) = {}
  BY DEF Passes
<1>2. ConfigErrors(c, NoBase(p.options.ruleType)) = {}
  BY DEF Passes
<1>3. c.nodes = names
  <2> HIDE DEF names
  <2> QED
    BY DEF BuildConfig
<1>4. IsList(c.rules) /\ MatchLast(c.rules)
  <2> HIDE DEF names
  <2> QED
    BY ConfigMatchLast DEF OptionsOK
<1> HIDE DEF c, names
<1>5. GroupTargets(c) \subseteq Targets(c) /\ RuleTargets(c) \subseteq Targets(c)
  <2>1. "group target" \notin ConfigErrors(c, NoBase(p.options.ruleType))
        /\ "rule target" \notin ConfigErrors(c, NoBase(p.options.ruleType))
    BY <1>2
  <2> QED
    BY <2>1 DEF ConfigErrors
<1>6. ASSUME NEW i \in DOMAIN c.rules, IsMatch(c.rules[i]), NEW j \in i..Len(c.rules)
      PROVE  j \in DOMAIN c.rules /\ IsMatch(c.rules[j])
  <2>1. Len(c.rules) \in Nat /\ DOMAIN c.rules = 1..Len(c.rules)
    BY <1>4, ListFacts
  <2>2. j \in DOMAIN c.rules /\ i <= j
    BY <2>1
  <2> QED
    BY <1>4, <1>6, <2>2 DEF MatchLast
<1>7. Loads(p) <=>
        (p.nodes # <<>> =>
          /\ Distinct(c.nodes)
          /\ \A i \in DOMAIN p.nodes : FieldErrors(p.nodes[i]) = {}
          /\ GroupTargets(c) \cup RuleTargets(c) \subseteq Targets(c)
          /\ \A i \in {i \in DOMAIN c.rules : IsMatch(c.rules[i])} :
               i..Len(c.rules) \subseteq {k \in DOMAIN c.rules : IsMatch(c.rules[k])})
  BY Zenon DEF Loads, c, names
<1>8. \A i \in {i \in DOMAIN c.rules : IsMatch(c.rules[i])} :
        i..Len(c.rules) \subseteq {k \in DOMAIN c.rules : IsMatch(c.rules[k])}
  BY <1>6
<1> QED
  BY <1>1, <1>3, <1>5, <1>7, <1>8, Zenon

-----------------------------------------------------------------------------
(* The form finds its node                                                 *)

\* The form f was opened for a node of the name it has seen last, and if the
\* object is still there, it has that name.
Finds(f, nodes) ==
    /\ f.snapshot.text = f.opened
    /\ f.ref # 0 => f.ref \in DOMAIN nodes /\ nodes[f.ref].text = f.opened

FormOK(f, nodes) ==
    \/ f = NoForm
    \/ /\ f = [pc |-> f.pc, adding |-> f.adding, index |-> f.index, ref |-> f.ref,
               snapshot |-> f.snapshot, type |-> f.type, opened |-> f.opened,
               others |-> f.others]
       /\ f.pc # "closed"
       /\ f.adding \/ Finds(f, nodes)

LEMMA OnlyMember ==
    ASSUME NEW n \in Nat, NEW S, S \subseteq 1..n
    PROVE  Only(S) = 0 \/ Only(S) \in S
<1>1. IsFiniteSet(S)
  <2> S \in SUBSET (1..n) /\ IsFiniteSet(1..n)
    BY FS_Interval
  <2> QED
    BY FS_Subset
<1>2. CASE Cardinality(S) = 1
  <2> S # {}
    BY <1>2, FS_EmptySet
  <2> QED
    BY <1>2 DEF Only
<1>3. CASE Cardinality(S) # 1
  BY <1>3 DEF Only
<1> QED
  BY <1>2, <1>3

\* locateFormNode returns a node of the name the form was opened for.
LEMMA LocateHits ==
    ASSUME NEW f, NEW nodes, IsList(nodes), Finds(f, nodes), Locate(f, nodes) # 0
    PROVE  Locate(f, nodes) \in DOMAIN nodes /\ nodes[Locate(f, nodes)].text = f.opened
<1> DEFINE same  == {i \in DOMAIN nodes : nodes[i] = f.snapshot}
           alike == {i \in DOMAIN nodes : /\ nodes[i].text = f.snapshot.text
                                          /\ nodes[i].type = f.snapshot.type}
<1>1. /\ Only(same) = 0 \/ Only(same) \in same
      /\ Only(alike) = 0 \/ Only(alike) \in alike
  <2> Len(nodes) \in Nat /\ same \subseteq 1..Len(nodes) /\ alike \subseteq 1..Len(nodes)
    BY ListFacts
  <2> HIDE DEF same, alike
  <2> QED
    BY OnlyMember
<1>2. CASE f.ref # 0
  BY <1>2 DEF Finds, Locate
<1>3. CASE f.ref = 0
  <2>1. Locate(f, nodes) \in {Only(same), Only(alike)}
    <3> Locate(f, nodes) = IF Cardinality(same) = 1 THEN Only(same) ELSE Only(alike)
      BY <1>3 DEF Locate
    <3> HIDE DEF same, alike
    <3> QED
      OBVIOUS
  <2>2. \A i \in same \cup alike : i \in DOMAIN nodes /\ nodes[i].text = f.opened
    BY DEF Finds
  <2> HIDE DEF same, alike
  <2> QED
    BY <1>1, <2>1, <2>2
<1> QED
  BY <1>2, <1>3

LEMMA SyncedOK ==
    ASSUME NEW f, NEW nodes, IsList(nodes), FormOK(f, nodes)
    PROVE  FormOK(Synced(f, nodes), nodes)
           /\ (f.pc # "closed" => Synced(f, nodes).pc = f.pc)
<1> DEFINE at == Locate(f, nodes)
<1>1. CASE f.pc = "closed" \/ f.adding
  BY <1>1 DEF Synced
<1>2. CASE ~(f.pc = "closed" \/ f.adding)
  <2>1. /\ f = [pc |-> f.pc, adding |-> f.adding, index |-> f.index, ref |-> f.ref,
                snapshot |-> f.snapshot, type |-> f.type, opened |-> f.opened,
                others |-> f.others]
        /\ f.pc # "closed" /\ Finds(f, nodes)
    BY <1>2 DEF FormOK, NoForm
  <2>2. Synced(f, nodes) = IF at = 0 THEN [f EXCEPT !.index = 0]
                           ELSE [f EXCEPT !.ref = at, !.index = at, !.snapshot = nodes[at]]
    BY <1>2 DEF Synced
  <2>3. at # 0 => at \in DOMAIN nodes /\ nodes[at].text = f.opened
    BY <2>1, LocateHits
  <2> HIDE DEF at
  <2>4. CASE at = 0
    <3> DEFINE g == [f EXCEPT !.index = 0]
    <3>1. /\ g = [pc |-> f.pc, adding |-> f.adding, index |-> 0, ref |-> f.ref,
                  snapshot |-> f.snapshot, type |-> f.type, opened |-> f.opened,
                  others |-> f.others]
      BY <2>1
    <3> HIDE DEF g
    <3> QED
      BY <2>1, <2>2, <2>4, <3>1 DEF FormOK, Finds, g
  <2>5. CASE at # 0
    <3> DEFINE g == [f EXCEPT !.ref = at, !.index = at, !.snapshot = nodes[at]]
    <3>1. /\ g = [pc |-> f.pc, adding |-> f.adding, index |-> at, ref |-> at,
                  snapshot |-> nodes[at], type |-> f.type, opened |-> f.opened,
                  others |-> f.others]
      <4> DEFINE g1 == [f EXCEPT !.ref = at]
                 g2 == [g1 EXCEPT !.index = at]
                 g3 == [g2 EXCEPT !.snapshot = nodes[at]]
      <4>1. g1 = [pc |-> f.pc, adding |-> f.adding, index |-> f.index, ref |-> at,
                  snapshot |-> f.snapshot, type |-> f.type, opened |-> f.opened,
                  others |-> f.others]
        BY <2>1
      <4> HIDE DEF g1
      <4>2. g2 = [pc |-> f.pc, adding |-> f.adding, index |-> at, ref |-> at,
                  snapshot |-> f.snapshot, type |-> f.type, opened |-> f.opened,
                  others |-> f.others]
        BY <4>1
      <4> HIDE DEF g2
      <4>3. g3 = [pc |-> f.pc, adding |-> f.adding, index |-> at, ref |-> at,
                  snapshot |-> nodes[at], type |-> f.type, opened |-> f.opened,
                  others |-> f.others]
        BY <4>2
      <4>4. g = g3
        BY DEF g1, g2
      <4> QED
        BY <4>3, <4>4
    <3> HIDE DEF g
    <3> QED
      BY <2>1, <2>2, <2>3, <2>5, <3>1 DEF FormOK, Finds, g
  <2> QED
    BY <2>4, <2>5
<1> QED
  BY <1>1, <1>2

\* A form follows its node to the place where the node has gone.
LEMMA FollowOK ==
    ASSUME FormOK(form, list), NEW where, NEW nodes,
           \A k \in DOMAIN list :
             where[k] # 0 => where[k] \in DOMAIN nodes /\ nodes[where[k]].text = list[k].text
    PROVE  FormOK(Follow(where), nodes) /\ Follow(where).pc = form.pc
<1>1. CASE form.pc = "closed" \/ form.adding \/ form.ref = 0
  BY <1>1 DEF Follow, FormOK, Finds, NoForm
<1>2. CASE ~(form.pc = "closed" \/ form.adding \/ form.ref = 0)
  <2>1. /\ form = [pc |-> form.pc, adding |-> form.adding, index |-> form.index,
                   ref |-> form.ref, snapshot |-> form.snapshot, type |-> form.type,
                   opened |-> form.opened, others |-> form.others]
        /\ form.pc # "closed" /\ Finds(form, list)
    BY <1>2 DEF FormOK, NoForm
  <2> DEFINE w == where[form.ref]
             g == [form EXCEPT !.ref = w]
  <2>2. Follow(where) = g
    BY <1>2 DEF Follow
  <2>3. w # 0 => w \in DOMAIN nodes /\ nodes[w].text = form.opened
    BY <1>2, <2>1 DEF Finds
  <2> HIDE DEF w
  <2>4. /\ g = [pc |-> form.pc, adding |-> form.adding, index |-> form.index, ref |-> w,
                snapshot |-> form.snapshot, type |-> form.type, opened |-> form.opened,
                others |-> form.others]
    BY <2>1
  <2> HIDE DEF g
  <2> QED
    BY <2>1, <2>2, <2>3, <2>4 DEF FormOK, Finds
<1> QED
  BY <1>1, <1>2

\* reconcileDraft puts an object where the answer has the same contents.
LEMMA PlaceHits ==
    ASSUME NEW nodes, IsList(nodes), NEW k \in DOMAIN nodes, Place(nodes, k) # 0
    PROVE  /\ Place(nodes, k) \in DOMAIN NormalizeAll(nodes)
           /\ NormalizeAll(nodes)[Place(nodes, k)].text = nodes[k].text
<1> DEFINE takers == {i \in DOMAIN nodes : Normalize(nodes[i]) = nodes[k]}
           before == {i \in 1..k : nodes[i] = nodes[k]}
           rank   == Cardinality(before)
<1>1. Len(nodes) \in Nat /\ DOMAIN nodes = 1..Len(nodes) /\ k \in 1..k
  BY ListFacts
<1>2. IsFiniteSet(takers) /\ IsFiniteSet(before)
  <2>1. takers \in SUBSET (1..Len(nodes)) /\ before \in SUBSET (1..k)
    BY <1>1
  <2>2. IsFiniteSet(1..Len(nodes)) /\ IsFiniteSet(1..k)
    BY <1>1, FS_Interval
  <2> HIDE DEF takers, before
  <2>3. IsFiniteSet(takers)
    BY <2>1, <2>2, FS_Subset
  <2>4. IsFiniteSet(before)
    BY <2>1, <2>2, FS_Subset
  <2> QED
    BY <2>3, <2>4
<1>3. rank \in Nat /\ rank # 0
  <2> k \in before
    BY <1>1
  <2> HIDE DEF before
  <2> QED
    BY <1>2, FS_CardinalityType, FS_EmptySet
<1>4. Place(nodes, k) = IF Cardinality(takers) < rank THEN 0 ELSE Nth(takers, rank)
  BY DEF Place
<1>5. Place(nodes, k) \in takers
  <2> takers \subseteq 1..Len(nodes)
    BY <1>1
  <2> HIDE DEF takers, rank
  <2>1. Cardinality(takers) \in Nat
    BY <1>2, FS_CardinalityType
  <2>2. rank \in 1..Cardinality(takers) /\ Place(nodes, k) = Nth(takers, rank)
    BY <1>3, <1>4, <2>1
  <2> QED
    BY <1>1, <2>2, NthIsThere
<1>6. \A i \in takers : i \in DOMAIN nodes /\ Normalize(nodes[i]).text = nodes[k].text
                        /\ Normalize(nodes[i]).text = nodes[i].text
  BY DEF Normalize
<1> HIDE DEF takers
<1> QED
  BY <1>5, <1>6, NormalizeAllKeeps

LEMMA RemoveAtElements ==
    ASSUME NEW s, IsList(s), NEW i \in DOMAIN s
    PROVE  /\ IsList(RemoveAt(s, i)) /\ DOMAIN RemoveAt(s, i) = 1..(Len(s) - 1)
           /\ \A k \in 1..(Len(s) - 1) :
                RemoveAt(s, i)[k] = IF k < i THEN s[k] ELSE s[k + 1]
<1> DEFINE S == {s[k] : k \in DOMAIN s}
           l == SubSeq(s, 1, i - 1)
           r == SubSeq(s, i + 1, Len(s))
           a == RemoveAt(s, i)
<1>1. Len(s) \in Nat /\ DOMAIN s = 1..Len(s) /\ i \in 1..Len(s)
  BY ListFacts
<1>2. \A k \in 1..Len(s) : s[k] \in S
  BY <1>1
<1> HIDE DEF S
<1>3. l \in Seq(S) /\ Len(l) = i - 1 /\ \A k \in 1..(i - 1) : l[k] = s[k]
  BY <1>1, <1>2, SubSeqProperties
<1>4. r \in Seq(S) /\ Len(r) = Len(s) - i /\ \A k \in 1..(Len(s) - i) : r[k] = s[i + k]
  BY <1>1, <1>2, SubSeqProperties
<1>5. a = l \o r
  BY DEF RemoveAt
<1> HIDE DEF l, r, a
<1>6. /\ a \in Seq(S) /\ Len(a) = Len(s) - 1
      /\ \A k \in 1..(Len(s) - 1) : a[k] = IF k <= Len(l) THEN l[k] ELSE r[k - Len(l)]
  <2>1. /\ a \in Seq(S) /\ Len(a) = Len(l) + Len(r)
        /\ \A k \in 1..(Len(l) + Len(r)) :
             a[k] = IF k <= Len(l) THEN l[k] ELSE r[k - Len(l)]
    BY <1>3, <1>4, <1>5, ConcatProperties
  <2>2. Len(l) + Len(r) = Len(s) - 1
    BY <1>1, <1>3, <1>4
  <2> QED
    BY <2>1, <2>2
<1>7. ASSUME NEW k \in 1..(Len(s) - 1)
      PROVE  a[k] = IF k < i THEN s[k] ELSE s[k + 1]
  <2>1. CASE k < i
    BY <1>1, <1>3, <1>6, <2>1
  <2>2. CASE ~(k < i)
    <3>1. k - (i - 1) \in 1..(Len(s) - i) /\ i + (k - (i - 1)) = k + 1 /\ ~(k <= i - 1)
      BY <1>1, <2>2
    <3>2. a[k] = r[k - (i - 1)]
      BY <1>3, <1>6, <3>1
    <3>3. r[k - (i - 1)] = s[k + 1]
      BY <1>4, <3>1
    <3> QED
      BY <2>2, <3>2, <3>3
  <2> QED
    BY <2>1, <2>2
<1>8. DOMAIN a = 1..(Len(s) - 1)
  BY <1>6
<1> QED
  BY <1>6, <1>7, <1>8, ListOfSeq DEF a

LEMMA InsertAtElements ==
    ASSUME NEW s, IsList(s), NEW j \in 1..(Len(s) + 1), NEW e
    PROVE  /\ IsList(InsertAt(s, j, e)) /\ DOMAIN InsertAt(s, j, e) = 1..(Len(s) + 1)
           /\ \A k \in 1..(Len(s) + 1) :
                InsertAt(s, j, e)[k] = IF k < j THEN s[k] ELSE IF k = j THEN e ELSE s[k - 1]
<1> DEFINE l == SubSeq(s, 1, j - 1)
           r == SubSeq(s, j, Len(s))
           S == {s[k] : k \in DOMAIN s}
           b == l \o <<e>>
           a == b \o r
<1>1. Len(s) \in Nat /\ DOMAIN s = 1..Len(s)
  BY ListFacts
<1>2. \A k \in 1..Len(s) : s[k] \in S
  BY <1>1
<1> HIDE DEF S
<1>3. IsList(l) /\ Len(l) = j - 1 /\ \A k \in 1..(j - 1) : l[k] = s[k]
  <2> l \in Seq(S) /\ Len(l) = j - 1 /\ \A k \in 1..(j - 1) : l[k] = s[k]
    BY <1>1, <1>2, SubSeqProperties
  <2> QED
    BY ListOfSeq
<1>4. /\ IsList(r) /\ Len(r) = Len(s) + 1 - j
      /\ \A k \in 1..(Len(s) + 1 - j) : r[k] = s[j + k - 1]
  <2> /\ r \in Seq(S) /\ Len(r) = Len(s) + 1 - j
      /\ \A k \in 1..(Len(s) + 1 - j) : r[k] = s[j + k - 1]
    BY <1>1, <1>2, SubSeqProperties
  <2> QED
    BY ListOfSeq
<1>5. IsList(<<e>>) /\ Len(<<e>>) = 1 /\ <<e>>[1] = e
  BY TupleLists
<1>6. InsertAt(s, j, e) = a
  BY DEF InsertAt
<1> HIDE DEF l, r
<1>7. /\ IsList(b) /\ Len(b) = j
      /\ \A k \in DOMAIN b : b[k] = IF k <= j - 1 THEN l[k] ELSE <<e>>[k - (j - 1)]
  <2>1. /\ IsList(b) /\ Len(b) = Len(l) + 1
        /\ \A k \in DOMAIN b : b[k] = IF k <= Len(l) THEN l[k] ELSE <<e>>[k - Len(l)]
    BY <1>3, <1>5, ConcatLists
  <2> HIDE DEF b
  <2> QED
    BY <1>1, <1>3, <2>1
<1> HIDE DEF b
<1>8. DOMAIN b = 1..j
  BY <1>7, ListFacts
<1>9. /\ IsList(a) /\ DOMAIN a = 1..(Len(s) + 1)
      /\ \A k \in 1..(Len(s) + 1) : a[k] = IF k <= j THEN b[k] ELSE r[k - j]
  <2>1. /\ IsList(a) /\ Len(a) = j + (Len(s) + 1 - j)
        /\ \A k \in DOMAIN a : a[k] = IF k <= j THEN b[k] ELSE r[k - j]
    BY <1>4, <1>7, ConcatLists
  <2> HIDE DEF a
  <2>2. DOMAIN a = 1..Len(a) /\ Len(a) = Len(s) + 1
    BY <1>1, <2>1, ListFacts
  <2> QED
    BY <2>1, <2>2
<1> HIDE DEF a
<1>10. ASSUME NEW k \in 1..(Len(s) + 1)
       PROVE  a[k] = IF k < j THEN s[k] ELSE IF k = j THEN e ELSE s[k - 1]
  <2>1. CASE k < j
    <3> k \in 1..(j - 1) /\ k \in 1..j /\ k <= j - 1 /\ k <= j
      BY <1>1, <2>1
    <3> QED
      BY <1>3, <1>7, <1>8, <1>9, <2>1
  <2>2. CASE k = j
    <3> k \in 1..j /\ k <= j /\ ~(k <= j - 1) /\ k - (j - 1) = 1 /\ ~(k < j)
      BY <1>1, <2>2
    <3> QED
      BY <1>5, <1>7, <1>8, <1>9, <2>2
  <2>3. CASE k > j
    <3> ~(k <= j) /\ k - j \in 1..(Len(s) + 1 - j) /\ j + (k - j) - 1 = k - 1 /\ ~(k < j) /\ k # j
      BY <1>1, <2>3
    <3> QED
      BY <1>4, <1>9, <2>3
  <2> QED
    BY <1>1, <2>1, <2>2, <2>3
<1> QED
  BY <1>6, <1>9, <1>10

\* moveNodeTo moves every node to some place.
LEMMA MoveOrder ==
    ASSUME NEW n \in Nat, NEW i \in 1..n, NEW j \in 1..n, NEW k \in 1..n
    PROVE  LET order == InsertAt(RemoveAt([l \in 1..n |-> l], i), j, i)
           IN  \E m \in 1..n : order[m] = k
<1> DEFINE id == [l \in 1..n |-> l]
           less == RemoveAt(id, i)
           order == InsertAt(less, j, i)
<1>1. IsList(id) /\ Len(id) = n /\ DOMAIN id = 1..n
  BY ListOfFunction
<1>2. /\ IsList(less) /\ DOMAIN less = 1..(n - 1)
      /\ \A l \in 1..(n - 1) : less[l] = IF l < i THEN id[l] ELSE id[l + 1]
  <2> HIDE DEF id
  <2> QED
    BY <1>1, RemoveAtElements
<1>3. \A l \in 1..(n - 1) : less[l] = IF l < i THEN l ELSE l + 1
  <2> HIDE DEF less
  <2>1. \A l \in 1..(n - 1) : l \in 1..n /\ l + 1 \in 1..n
    OBVIOUS
  <2>2. \A l \in 1..(n - 1) : id[l] = l /\ id[l + 1] = l + 1
    BY <2>1
  <2> QED
    BY <1>2, <2>2
<1> HIDE DEF less
<1>4. Len(less) = n - 1
  BY <1>2, ListFacts
<1>5. \A m \in 1..n : order[m] = IF m < j THEN less[m] ELSE IF m = j THEN i ELSE less[m - 1]
  <2>1. Len(less) + 1 = n
    BY <1>4
  <2> HIDE DEF order
  <2> QED
    BY <1>2, <2>1, InsertAtElements DEF order
<1> HIDE DEF order
<1>6. ASSUME k = i
      PROVE  \E m \in 1..n : order[m] = k
  BY <1>5, <1>6
<1>7. ASSUME k # i
      PROVE  \E m \in 1..n : order[m] = k
  <2> DEFINE l == IF k < i THEN k ELSE k - 1
  <2>1. l \in 1..(n - 1) /\ less[l] = k
    BY <1>3, <1>7
  <2> HIDE DEF l
  <2>2. CASE l < j
    BY <1>5, <2>1, <2>2
  <2>3. CASE ~(l < j)
    <3> l + 1 \in 1..n /\ ~(l + 1 < j) /\ l + 1 # j /\ (l + 1) - 1 = l
      BY <2>1, <2>3
    <3> QED
      BY <1>5, <2>1
  <2> QED
    BY <2>2, <2>3
<1> QED
  BY <1>6, <1>7 DEF order, less, id

-----------------------------------------------------------------------------
(* The inductive invariant                                                 *)

PutOK(p) ==
    p.pc = "sent" =>
        /\ p = [pc |-> "sent", fresh |-> p.fresh, draft |-> p.draft]
        /\ IsList(p.draft.nodes) /\ OptionsOK(p.draft.options)

PageInv ==
    /\ IsList(list) /\ OptionsOK(options)
    /\ IsList(stored.nodes) /\ OptionsOK(stored.options)
    /\ OptionsOK(published.options)
    /\ PutOK(put)
    /\ FormOK(form, list)

ContentsInv == PageInv /\ StoredIsNormal /\ PublishedLoads

LEMMA OptionsAreLists == OptionsOK(Base) /\ \A o \in Options : OptionsOK(o)
<1>1. OptionsOK(Base)
  BY EmptyList DEF OptionsOK, Base
<1>2. ASSUME NEW o \in Options
      PROVE  OptionsOK(o)
  <2>1. /\ Base.rules = <<>> /\ Base.providers = <<>>
        /\ Base = [ruleType |-> "dustinwin", chosen |-> <<>>, rules |-> <<>>,
                  providers |-> <<>>, desktop |-> "yes", profile |-> "desktop-full",
                  sections |-> {"dns", "tun"}]
    BY DEF Base
  <2>2. CASE o = [Base EXCEPT !.rules = <<Rule("MATCH", "", "DIRECT"), Rule("DOMAIN", "x", "a")>>]
    <3>1. o.rules = <<Rule("MATCH", "", "DIRECT"), Rule("DOMAIN", "x", "a")>>
          /\ o.providers = <<>>
      BY <2>1, <2>2
    <3> QED
      BY <3>1, EmptyList, TupleLists DEF OptionsOK
  <2>3. CASE o = [Base EXCEPT !.ruleType = "lhie1", !.chosen = [Domestic |-> "b"],
                !.providers = << [name |-> "mine", target |-> "Proxy", first |-> TRUE],
                             [name |-> "late", target |-> "Google", first |-> FALSE] >>]
    <3>1. o.rules = <<>>
          /\ o.providers = << [name |-> "mine", target |-> "Proxy", first |-> TRUE],
                               [name |-> "late", target |-> "Google", first |-> FALSE] >>
      BY <2>1, <2>3
    <3> QED
      BY <3>1, EmptyList, TupleLists DEF OptionsOK
  <2>4. CASE o = [Base EXCEPT !.ruleType = "none", !.rules = <<Rule("DOMAIN", "x", "Proxy")>>]
    <3>1. o.rules = <<Rule("DOMAIN", "x", "Proxy")>>
          /\ o.providers = <<>>
      BY <2>1, <2>4
    <3> QED
      BY <3>1, EmptyList, TupleLists DEF OptionsOK
  <2>5. CASE o = [Base EXCEPT !.ruleType = "old", !.rules = <<Rule("match", "", "DIRECT")>>]
    <3>1. o.rules = <<Rule("match", "", "DIRECT")>>
          /\ o.providers = <<>>
      BY <2>1, <2>5
    <3> QED
      BY <3>1, EmptyList, TupleLists DEF OptionsOK
  <2>6. CASE o = [Base EXCEPT !.desktop = "no", !.profile = "minimal", !.sections = {"dns"}]
    <3>1. o.rules = <<>>
          /\ o.providers = <<>>
      BY <2>1, <2>6
    <3> QED
      BY <3>1, EmptyList, TupleLists DEF OptionsOK
  <2> QED
    BY <2>2, <2>3, <2>4, <2>5, <2>6, Zenon DEF Options
<1> QED
  BY <1>1, <1>2

\* markDirty leaves the draft of a save under way as it is.
LEMMA MarkDirtyPut ==
    ASSUME PutOK(put), MarkDirty
    PROVE  PutOK(put')
<1>1. CASE put.pc = "sent"
  <2>1. put = [pc |-> "sent", fresh |-> put.fresh, draft |-> put.draft]
        /\ IsList(put.draft.nodes) /\ OptionsOK(put.draft.options)
    BY <1>1 DEF PutOK
  <2> DEFINE p == [put EXCEPT !.fresh = FALSE]
  <2>2. put' = p
    BY <1>1 DEF MarkDirty
  <2>3. p = [pc |-> "sent", fresh |-> FALSE, draft |-> put.draft]
    <3>1. PICK y, z : put = [pc |-> "sent", fresh |-> y, draft |-> z]
      BY <2>1, Zenon
    <3>2. put.draft = z
      BY <3>1
    <3>3. \A x : [[pc |-> "sent", fresh |-> y, draft |-> z] EXCEPT !.fresh = x]
                 = [pc |-> "sent", fresh |-> x, draft |-> z]
      OBVIOUS
    <3>4. p = [[pc |-> "sent", fresh |-> y, draft |-> z] EXCEPT !.fresh = FALSE]
      BY <3>1, Zenon
    <3> QED
      BY <3>2, <3>3, <3>4, Zenon
  <2> HIDE DEF p
  <2> QED
    BY <2>1, <2>2, <2>3 DEF PutOK
<1>2. CASE put.pc # "sent"
  BY <1>2 DEF PutOK, MarkDirty
<1> QED
  BY <1>1, <1>2

\* An answer of the server leaves the list normal and the form on its node.
LEMMA ReplacedList ==
    ASSUME IsList(list), FormOK(form, list)
    PROVE  /\ IsList(NormalizeAll(list))
           /\ LET f == Synced(Follow([k \in DOMAIN list |-> Place(list, k)]), NormalizeAll(list))
              IN  FormOK(f, NormalizeAll(list)) /\ (form.pc # "closed" => f.pc = form.pc)
<1> DEFINE where == [k \in DOMAIN list |-> Place(list, k)]
           new   == NormalizeAll(list)
<1>1. IsList(new)
  BY NormalizeAllList
<1>2. \A k \in DOMAIN list :
        where[k] # 0 => where[k] \in DOMAIN new /\ new[where[k]].text = list[k].text
  BY PlaceHits
<1> HIDE DEF where, new
<1>3. FormOK(Follow(where), new) /\ Follow(where).pc = form.pc
  BY <1>2, FollowOK
<1>4. FormOK(Synced(Follow(where), new), new)
      /\ (Follow(where).pc # "closed" => Synced(Follow(where), new).pc = Follow(where).pc)
  BY <1>1, <1>3, SyncedOK
<1> QED
  BY <1>1, <1>3, <1>4 DEF where, new

LEMMA LoadedList ==
    ASSUME NEW d, IsList(d.nodes)
    PROVE  IsList(Loaded(d))
BY NormalizeAllList, EmptyList DEF Loaded

LEMMA ContentsInit ==
    ASSUME InitPage
    PROVE  ContentsInv
<1>1. PICK n : stored = [nodes |-> <<Normalize(n)>>, options |-> Base]
  BY Zenon DEF InitPage
<1>2. /\ options = Base /\ list = Loaded(stored) /\ form = NoForm /\ put = [pc |-> "none"]
      /\ published = [nodes |-> <<>>, options |-> Base]
  BY DEF InitPage
<1>3. IsList(stored.nodes) /\ stored.options = Base /\ published.options = Base
  BY <1>1, <1>2, TupleLists
<1>4. PageInv
  BY <1>2, <1>3, OptionsAreLists, LoadedList DEF PageInv, PutOK, FormOK
<1>5. NormalizeAll(stored.nodes) = stored.nodes
  <2>1. \A x : Normalize(x) = x => [i \in DOMAIN <<x>> |-> Normalize(<<x>>[i])] = <<x>>
    OBVIOUS
  <2> QED
    BY <1>1, <2>1, NormalizeTwice DEF NormalizeAll
<1>6. NormalizeAll(published.nodes) = published.nodes
  <2>1. published.nodes = <<>>
    BY <1>2
  <2>2. [i \in DOMAIN <<>> |-> Normalize(<<>>[i])] = <<>>
    OBVIOUS
  <2> QED
    BY <2>1, <2>2 DEF NormalizeAll
<1>7. PublishedLoads
  BY <1>2 DEF PublishedLoads
<1> QED
  BY <1>4, <1>5, <1>6, <1>7 DEF ContentsInv, StoredIsNormal

-----------------------------------------------------------------------------
(* The steps of the page                                                   *)

LEMMA ImportedList ==
    ASSUME NEW batch, IsList(batch)
    PROVE  IsList(Imported(batch))
<1> DEFINE C        == {i \in DOMAIN batch : batch[i].port # Absent}
           complete == Picked(batch, C)
           normal   == NormalizeAll(complete)
           valid    == {i \in DOMAIN normal : FieldErrors(normal[i]) = {}}
           firsts   == {i \in valid : \A j \in valid : j < i => normal[j].text # normal[i].text}
<1>1. Imported(batch) = IF \E i \in DOMAIN complete : ~PortParses(complete[i].port)
                        THEN <<>> ELSE Picked(normal, firsts)
  BY DEF Imported
<1>2. C \subseteq DOMAIN batch /\ firsts \subseteq DOMAIN normal
  OBVIOUS
<1> HIDE DEF C, firsts
<1>3. IsList(complete)
  BY <1>2, PickedElements
<1> HIDE DEF complete
<1>4. IsList(normal)
  BY <1>3, NormalizeAllList
<1> HIDE DEF normal
<1>5. IsList(Picked(normal, firsts))
  BY <1>2, <1>4, PickedElements
<1> QED
  BY <1>1, <1>5, EmptyList

LEMMA FoundAreLists == \A found \in Found : IsList(found)
<1>1. \A batch \in Batches : IsList(batch)
  BY TupleLists, Zenon DEF Batches
<1> QED
  BY <1>1, ImportedList DEF Found

LEMMA ImportAnsweredKeeps ==
    ASSUME PageInv, NEW found \in Found, ImportAnswered(found)
    PROVE  PageInv'
<1> DEFINE N     == {i \in DOMAIN found : found[i].text \notin import.names}
           new   == Picked(found, N)
           old   == IF import.replace THEN {n \in ToSet(found) : n.text \in import.names} ELSE {}
           by(n) == {o \in old : o.text = n.text}
           kept  == [i \in DOMAIN list |->
                       IF by(list[i]) = {} THEN list[i] ELSE CHOOSE o \in by(list[i]) : TRUE]
           where == [i \in DOMAIN list |-> IF by(list[i]) = {} THEN i ELSE 0]
<1>1. /\ list' = kept \o new /\ form' = Follow(where) /\ MarkDirty
      /\ UNCHANGED <<options, corrupted, stored, published, events>>
  BY DEF ImportAnswered
<1>2. IsList(list) /\ FormOK(form, list) /\ PutOK(put)
  BY DEF PageInv
<1>3. IsList(new)
  <2>1. IsList(found)
    BY FoundAreLists
  <2>2. N \subseteq DOMAIN found
    OBVIOUS
  <2> HIDE DEF N
  <2> QED
    BY <2>1, <2>2, PickedElements
<1>4. \A i \in DOMAIN list :
        where[i] # 0 => where[i] = i /\ kept[i] = list[i]
  OBVIOUS
<1>5. DOMAIN kept = DOMAIN list
  OBVIOUS
<1>6. kept = [i \in DOMAIN list |-> kept[i]]
  OBVIOUS
<1> HIDE DEF new, old, by, kept, where
<1>7. Len(list) \in Nat /\ DOMAIN list = 1..Len(list)
  BY <1>2, ListFacts
<1>8. IsList(kept) /\ Len(kept) = Len(list)
  BY <1>5, <1>6, <1>7, ListOfFunction
<1>9. /\ IsList(list') /\ Len(list') = Len(kept) + Len(new)
      /\ \A i \in DOMAIN list' : list'[i] = IF i <= Len(kept) THEN kept[i] ELSE new[i - Len(kept)]
  BY <1>1, <1>3, <1>8, ConcatLists
<1>10. \A i \in DOMAIN list : i \in DOMAIN list' /\ list'[i] = kept[i]
  <2>1. Len(new) \in Nat /\ DOMAIN list' = 1..(Len(list) + Len(new))
    BY <1>3, <1>8, <1>9, ListFacts
  <2>2. \A i \in DOMAIN list : i \in DOMAIN list' /\ i <= Len(kept)
    BY <1>7, <1>8, <2>1
  <2> QED
    BY <1>9, <2>2
<1>11. FormOK(form', list')
  <2>1. \A k \in DOMAIN list :
          where[k] # 0 => where[k] \in DOMAIN list' /\ list'[where[k]].text = list[k].text
    BY <1>4, <1>10
  <2> QED
    BY <1>1, <1>2, <2>1, FollowOK
<1>12. PutOK(put')
  BY <1>1, <1>2, MarkDirtyPut
<1> QED
  BY <1>1, <1>9, <1>11, <1>12 DEF PageInv

LEMMA MoveKeeps ==
    ASSUME PageInv, NEW i \in DOMAIN list, NEW j \in DOMAIN list, MoveNode(i, j)
    PROVE  PageInv'
<1> DEFINE order == InsertAt(RemoveAt([k \in DOMAIN list |-> k], i), j, i)
           where == [k \in DOMAIN list |-> CHOOSE m \in DOMAIN list : order[m] = k]
<1>1. /\ list' = [k \in DOMAIN list |-> list[order[k]]]
      /\ form' = Synced(Follow(where), list') /\ MarkDirty
      /\ UNCHANGED <<options, corrupted, import, stored, published>>
  BY DEF MoveNode
<1>2. IsList(list) /\ FormOK(form, list) /\ PutOK(put)
  BY DEF PageInv
<1>3. Len(list) \in Nat /\ DOMAIN list = 1..Len(list)
  BY <1>2, ListFacts
<1>4. \A k \in DOMAIN list : \E m \in DOMAIN list : order[m] = k
  <2>1. order = InsertAt(RemoveAt([l \in 1..Len(list) |-> l], i), j, i)
    BY <1>3
  <2> HIDE DEF order
  <2>2. ASSUME NEW k \in 1..Len(list)
        PROVE  \E m \in 1..Len(list) : order[m] = k
    <3> i \in 1..Len(list) /\ j \in 1..Len(list)
      BY <1>3
    <3> QED
      BY <1>3, <2>1, MoveOrder
  <2> QED
    BY <1>3, <2>2
<1> HIDE DEF order
<1>5. \A k \in DOMAIN list : where[k] \in DOMAIN list /\ order[where[k]] = k
  BY <1>4
<1> HIDE DEF where
<1>6. IsList(list') /\ DOMAIN list' = DOMAIN list
  BY <1>1, <1>3, ListOfFunction
<1>7. FormOK(Follow(where), list')
  <2>1. \A k \in DOMAIN list :
          where[k] # 0 => where[k] \in DOMAIN list' /\ list'[where[k]].text = list[k].text
    BY <1>1, <1>5, <1>6
  <2> QED
    BY <1>2, <2>1, FollowOK
<1>8. FormOK(form', list')
  BY <1>1, <1>6, <1>7, SyncedOK
<1>9. PutOK(put')
  BY <1>1, <1>2, MarkDirtyPut
<1> QED
  BY <1>1, <1>6, <1>8, <1>9 DEF PageInv

LEMMA DeleteKeeps ==
    ASSUME PageInv, NEW i \in DOMAIN list, DeleteNode(i)
    PROVE  PageInv'
<1> DEFINE where == [k \in DOMAIN list |-> IF k < i THEN k ELSE IF k = i THEN 0 ELSE k - 1]
<1>1. /\ list' = RemoveAt(list, i)
      /\ form' = Synced(Follow(where), list') /\ MarkDirty
      /\ UNCHANGED <<options, corrupted, import, stored, published>>
  BY DEF DeleteNode
<1>2. IsList(list) /\ FormOK(form, list) /\ PutOK(put)
  BY DEF PageInv
<1>3. Len(list) \in Nat /\ DOMAIN list = 1..Len(list)
  BY <1>2, ListFacts
<1>4. /\ IsList(list') /\ DOMAIN list' = 1..(Len(list) - 1)
      /\ \A k \in 1..(Len(list) - 1) : list'[k] = IF k < i THEN list[k] ELSE list[k + 1]
  BY <1>1, <1>2, RemoveAtElements
<1>5. FormOK(Follow(where), list')
  <2>1. ASSUME NEW k \in DOMAIN list, where[k] # 0
        PROVE  where[k] \in DOMAIN list' /\ list'[where[k]] = list[k]
    <3>1. CASE k < i
      <4> where[k] = k /\ k \in 1..(Len(list) - 1)
        BY <1>3, <3>1
      <4> QED
        BY <1>4, <3>1
    <3>2. CASE ~(k < i)
      <4> where[k] = k - 1 /\ k - 1 \in 1..(Len(list) - 1) /\ ~(k - 1 < i) /\ (k - 1) + 1 = k
        BY <1>3, <2>1, <3>2
      <4> QED
        BY <1>4
    <3> QED
      BY <3>1, <3>2
  <2> HIDE DEF where
  <2> QED
    BY <1>2, <2>1, FollowOK
<1> HIDE DEF where
<1>6. FormOK(form', list')
  BY <1>1, <1>4, <1>5, SyncedOK
<1>7. PutOK(put')
  BY <1>1, <1>2, MarkDirtyPut
<1> QED
  BY <1>1, <1>4, <1>6, <1>7 DEF PageInv

LEMMA FormKeeps ==
    ASSUME PageInv,
           \/ CloseForm \/ SendForm \/ FormRefused
           \/ \E at \in 0..Len(list) : OpenForm(at)
           \/ \E edit \in Edits : FormAnswered(edit)
    PROVE  PageInv'
<1> SUFFICES PageInv'
  OBVIOUS
<1>1. IsList(list) /\ FormOK(form, list) /\ PutOK(put)
  BY DEF PageInv
<1>2. ASSUME UNCHANGED <<list, options, put, stored, published>>, FormOK(form', list)
      PROVE  PageInv'
  BY <1>2 DEF PageInv
<1>3. CASE CloseForm
  <2> UNCHANGED <<list, options, put, stored, published>> /\ form' = NoForm
    BY <1>3 DEF CloseForm, page
  <2> QED
    BY <1>2 DEF FormOK
<1>4. CASE SendForm
  <2> DEFINE now == Synced(form, list)
             taken == {list[i].text : i \in DOMAIN list \ {now.index}}
  <2>1. UNCHANGED <<list, options, put, stored, published>> /\ form.pc = "open"
        /\ form' = [now EXCEPT !.pc = "sent", !.others = taken]
    BY <1>4 DEF SendForm, page
  <2>2. FormOK(now, list) /\ now.pc = "open"
    BY <1>1, <2>1, SyncedOK
  <2> HIDE DEF now, taken
  <2>3. PICK a, b, c, d, e, f, g, h :
          now = [pc |-> a, adding |-> b, index |-> c, ref |-> d, snapshot |-> e, type |-> f,
                 opened |-> g, others |-> h]
    BY <2>2 DEF FormOK, NoForm
  <2>4. form' = [pc |-> "sent", adding |-> b, index |-> c, ref |-> d, snapshot |-> e,
                 type |-> f, opened |-> g, others |-> taken]
    BY <2>1, <2>3
  <2>5. FormOK(form', list)
    BY <2>2, <2>3, <2>4 DEF FormOK, Finds, NoForm
  <2> QED
    BY <1>2, <2>1, <2>5
<1>5. CASE FormRefused
  <2> DEFINE now == Synced(form, list)
  <2>1. UNCHANGED <<list, options, put, stored, published>> /\ form.pc = "sent"
        /\ form' = [now EXCEPT !.pc = "open"]
    BY <1>5 DEF FormRefused, page
  <2>2. FormOK(now, list) /\ now.pc = "sent"
    BY <1>1, <2>1, SyncedOK
  <2> HIDE DEF now
  <2>3. PICK a, b, c, d, e, f, g, h :
          now = [pc |-> a, adding |-> b, index |-> c, ref |-> d, snapshot |-> e, type |-> f,
                 opened |-> g, others |-> h]
    BY <2>2 DEF FormOK, NoForm
  <2>4. form' = [pc |-> "open", adding |-> b, index |-> c, ref |-> d, snapshot |-> e,
                 type |-> f, opened |-> g, others |-> h]
    BY <2>1, <2>3
  <2>5. FormOK(form', list)
    BY <2>2, <2>3, <2>4 DEF FormOK, Finds, NoForm
  <2> QED
    BY <1>2, <2>1, <2>5
<1>6. ASSUME NEW at \in 0..Len(list), OpenForm(at)
      PROVE  PageInv'
  <2>1. UNCHANGED <<list, options, put, stored, published>>
        /\ form' = [pc |-> "open", adding |-> at = 0, index |-> at, ref |-> at,
                    snapshot |-> IF at = 0 THEN PlainNode ELSE list[at],
                    type |-> IF at = 0 THEN PlainNode.type ELSE list[at].type,
                    opened |-> IF at = 0 THEN "" ELSE list[at].text, others |-> {}]
    BY <1>6 DEF OpenForm, page
  <2>2. at # 0 => at \in DOMAIN list
    BY <1>1, ListFacts
  <2>3. FormOK(form', list)
    BY <2>1, <2>2 DEF FormOK, Finds
  <2> QED
    BY <1>2, <2>1, <2>3
<1>7. ASSUME NEW edit \in Edits, FormAnswered(edit)
      PROVE  PageInv'
  <2>1. PICK at, next : list' \in {Append(list, next), [list EXCEPT ![at] = next]}
    BY <1>7 DEF FormAnswered
  <2>2. IsList(list')
    <3>1. Len(list) \in Nat /\ DOMAIN list = 1..Len(list)
      BY <1>1, ListFacts
    <3>2. IsList([list EXCEPT ![at] = next])
      BY <3>1, ListOfFunction
    <3>3. IsList(Append(list, next))
      <4> DEFINE S == {list[i] : i \in DOMAIN list} \cup {next}
      <4>1. list \in [1..Len(list) -> S]
        BY <1>1, ListFacts
      <4>2. next \in S
        OBVIOUS
      <4> HIDE DEF S
      <4>3. Append(list, next) \in Seq(S)
        BY <3>1, <4>1, <4>2, AppendProperties
      <4> QED
        BY <4>3, ListOfSeq
    <3> QED
      BY <2>1, <3>2, <3>3
  <2>3. MarkDirty /\ form' = NoForm /\ UNCHANGED <<options, stored, published>>
    BY <1>7 DEF FormAnswered
  <2>4. PutOK(put')
    BY <1>1, <2>3, MarkDirtyPut
  <2> QED
    BY <2>2, <2>3, <2>4 DEF PageInv, FormOK
<1> QED
  BY <1>3, <1>4, <1>5, <1>6, <1>7

\* Steps that leave the list and the form alone, or load the list again.
LEMMA OtherKeeps ==
    ASSUME PageInv,
           \/ Load \/ ImportFailed \/ SaveSend \/ Migrate
           \/ \E replace \in BOOLEAN : ImportSend(replace)
           \/ \E o \in Options : EditOptions(o)
           \/ \E nodes \in Restored : Streamlit(nodes)
    PROVE  PageInv'
<1> SUFFICES PageInv'
  OBVIOUS
<1>1. /\ IsList(list) /\ FormOK(form, list) /\ PutOK(put) /\ OptionsOK(options)
      /\ IsList(stored.nodes) /\ OptionsOK(stored.options) /\ OptionsOK(published.options)
  BY DEF PageInv
<1>2. CASE Load
  <2>1. /\ list' = Loaded(stored) /\ form' = NoForm /\ UNCHANGED <<put, stored, published>>
        /\ options' \in {Base, stored.options}
    BY <1>2 DEF Load
  <2>2. IsList(list')
    BY <1>1, <2>1, LoadedList
  <2> QED
    BY <1>1, <2>1, <2>2, OptionsAreLists DEF PageInv, FormOK
<1>3. CASE ImportFailed
  BY <1>3 DEF PageInv, ImportFailed, page
<1>4. CASE SaveSend
  <2>1. /\ UNCHANGED <<list, options, form, stored, published>>
        /\ put' = [pc |-> "sent", fresh |-> TRUE, draft |-> Draft]
    BY <1>4 DEF SaveSend, page
  <2>2. PutOK(put')
    BY <1>1, <2>1 DEF PutOK, Draft
  <2> QED
    BY <2>1, <2>2 DEF PageInv
<1>5. CASE Migrate
  <2>1. /\ UNCHANGED <<list, options, form, put>>
        /\ stored'.nodes = NormalizeAll(stored.nodes) /\ stored'.options = stored.options
        /\ published'.options = published.options
    BY <1>5 DEF Migrate, page, Built
  <2> QED
    BY <1>1, <2>1, NormalizeAllList DEF PageInv
<1>6. ASSUME NEW replace \in BOOLEAN, ImportSend(replace)
      PROVE  PageInv'
  BY <1>6 DEF PageInv, ImportSend, page
<1>7. ASSUME NEW o \in Options, EditOptions(o)
      PROVE  PageInv'
  <2>1. UNCHANGED <<list, form, stored, published>> /\ options' = o /\ MarkDirty
    BY <1>7 DEF EditOptions
  <2>2. PutOK(put')
    BY <1>1, <2>1, MarkDirtyPut
  <2> QED
    BY <2>1, <2>2, OptionsAreLists DEF PageInv
<1>8. ASSUME NEW nodes \in Restored, Streamlit(nodes)
      PROVE  PageInv'
  <2>1. /\ UNCHANGED <<list, options, form, put>>
        /\ stored'.nodes = NormalizeAll(nodes) /\ stored'.options = stored.options
        /\ published' \in {published, Built(nodes, stored.options)}
    BY <1>8 DEF Streamlit, page, Built
  <2>2. IsList(nodes)
    BY TupleLists, Zenon DEF Restored
  <2>3. OptionsOK(published'.options)
    BY <1>1, <2>1 DEF Built
  <2> QED
    BY <1>1, <2>1, <2>2, <2>3, NormalizeAllList DEF PageInv
<1> QED
  BY <1>2, <1>3, <1>4, <1>5, <1>6, <1>7, <1>8

LEMMA AnswerKeeps ==
    ASSUME PageInv, SaveAnswered \/ Validate \/ PublishDraft
    PROVE  PageInv'
<1> SUFFICES PageInv'
  OBVIOUS
<1>1. /\ IsList(list) /\ FormOK(form, list) /\ PutOK(put) /\ OptionsOK(options)
      /\ IsList(stored.nodes) /\ OptionsOK(stored.options) /\ OptionsOK(published.options)
  BY DEF PageInv
<1>2. /\ IsList(NormalizeAll(list))
      /\ FormOK(Synced(Follow([k \in DOMAIN list |-> Place(list, k)]), NormalizeAll(list)),
                NormalizeAll(list))
  BY <1>1, ReplacedList
<1>3. ASSUME NEW d, IsList(d.nodes), OptionsOK(d.options)
      PROVE  IsList(Saved(d).nodes) /\ OptionsOK(Saved(d).options)
  BY <1>3, NormalizeAllList DEF Saved
<1>4. IsList(Saved(Draft).nodes) /\ OptionsOK(Saved(Draft).options)
  <2> IsList(Draft.nodes) /\ OptionsOK(Draft.options)
    BY <1>1 DEF Draft
  <2> QED
    BY <1>3
<1>5. CASE SaveAnswered
  <2>1. put.pc = "sent" /\ put' = [pc |-> "none"] /\ UNCHANGED published
    BY <1>5 DEF SaveAnswered
  <2>2. CASE ~Accepted(put.draft.nodes)
    <3> UNCHANGED <<list, options, form, stored>>
      BY <1>5, <2>2 DEF SaveAnswered, page
    <3> QED
      BY <1>1, <2>1 DEF PageInv, PutOK
  <2>3. CASE Accepted(put.draft.nodes)
    <3>1. /\ stored' = Saved(put.draft) /\ UNCHANGED options
          /\ \/ /\ list' = NormalizeAll(list)
                /\ form' = Synced(Follow([k \in DOMAIN list |-> Place(list, k)]), list')
             \/ UNCHANGED <<list, form>>
      BY <1>5, <2>3 DEF SaveAnswered, page
    <3>2. IsList(stored'.nodes) /\ OptionsOK(stored'.options)
      BY <1>1, <1>3, <2>1, <3>1 DEF PutOK
    <3>3. IsList(list') /\ FormOK(form', list')
      BY <1>1, <1>2, <3>1
    <3> QED
      BY <1>1, <2>1, <3>1, <3>2, <3>3 DEF PageInv, PutOK
  <2> QED
    BY <2>2, <2>3
<1>6. CASE Validate
  <2> /\ stored' = Saved(Draft) /\ list' = NormalizeAll(list)
      /\ form' = Synced(Follow([k \in DOMAIN list |-> Place(list, k)]), list')
      /\ UNCHANGED <<options, put, published>>
    BY <1>6 DEF Validate
  <2> QED
    BY <1>1, <1>2, <1>4 DEF PageInv
<1>7. CASE PublishDraft
  <2>1. /\ stored' = Saved(Draft) /\ list' = NormalizeAll(list)
        /\ form' = Synced(Follow([k \in DOMAIN list |-> Place(list, k)]), list')
        /\ published' = Built(NormalizeAll(list), options)
        /\ UNCHANGED <<options, put>>
    BY <1>7 DEF PublishDraft
  <2>2. published'.options = options
    BY <2>1 DEF Built
  <2> QED
    BY <1>1, <1>2, <1>4, <2>1, <2>2 DEF PageInv
<1> QED
  BY <1>5, <1>6, <1>7

LEMMA PageKeeps ==
    ASSUME PageInv, [NextPage]_pageVars
    PROVE  PageInv'
<1>1. CASE UNCHANGED pageVars
  BY <1>1 DEF pageVars, page, PageInv
<1>2. CASE NextPage
  BY <1>2, ImportAnsweredKeeps, MoveKeeps, DeleteKeeps, FormKeeps, OtherKeeps, AnswerKeeps,
     Zenon DEF NextPage
<1> QED
  BY <1>1, <1>2

-----------------------------------------------------------------------------
(* What is stored and published                                            *)

LEMMA NormalKept ==
    ASSUME StoredIsNormal, [NextPage]_pageVars
    PROVE  StoredIsNormal'
<1>1. /\ stored'.nodes = stored.nodes \/ \E nodes : stored'.nodes = NormalizeAll(nodes)
      /\ published'.nodes = published.nodes \/ \E nodes : published'.nodes = NormalizeAll(nodes)
  <2>1. \A d : Saved(d).nodes = NormalizeAll(NormalizeAll(d.nodes))
    BY DEF Saved
  <2>2. \A n, o : Built(n, o).nodes = NormalizeAll(n)
    BY DEF Built
  <2>3. CASE Load \/ ImportFailed \/ CloseForm \/ SendForm \/ FormRefused \/ SaveSend
             \/ UNCHANGED pageVars
    BY <2>3 DEF Load, ImportFailed, CloseForm, SendForm, FormRefused, SaveSend, pageVars
  <2>4. CASE SaveAnswered \/ Validate
    BY <2>1, <2>4 DEF SaveAnswered, Validate
  <2>5. CASE PublishDraft
    BY <2>1, <2>2, <2>5 DEF PublishDraft
  <2>6. CASE Migrate
    BY <2>2, <2>6 DEF Migrate
  <2>7. ASSUME NEW replace \in BOOLEAN, ImportSend(replace)
        PROVE  UNCHANGED <<stored, published>>
    BY <2>7 DEF ImportSend
  <2>8. ASSUME NEW found \in Found, ImportAnswered(found)
        PROVE  UNCHANGED <<stored, published>>
    BY <2>8 DEF ImportAnswered
  <2>9. ASSUME NEW at \in 0..Len(list), OpenForm(at)
        PROVE  UNCHANGED <<stored, published>>
    BY <2>9 DEF OpenForm
  <2>10. ASSUME NEW edit \in Edits, FormAnswered(edit)
         PROVE  UNCHANGED <<stored, published>>
    BY <2>10 DEF FormAnswered
  <2>11. ASSUME NEW i \in DOMAIN list, NEW j \in DOMAIN list, MoveNode(i, j)
         PROVE  UNCHANGED <<stored, published>>
    BY <2>11 DEF MoveNode
  <2>12. ASSUME NEW i \in DOMAIN list, DeleteNode(i)
         PROVE  UNCHANGED <<stored, published>>
    BY <2>12 DEF DeleteNode
  <2>13. ASSUME NEW o \in Options, EditOptions(o)
         PROVE  UNCHANGED <<stored, published>>
    BY <2>13 DEF EditOptions
  <2>14. ASSUME NEW nodes \in Restored, Streamlit(nodes)
         PROVE  stored' = Built(nodes, stored.options)
                /\ published' \in {published, Built(nodes, stored.options)}
    BY <2>14 DEF Streamlit
  <2>15. CASE NextPage
    BY <2>2, <2>3, <2>4, <2>5, <2>6, <2>7, <2>8, <2>9, <2>10, <2>11, <2>12, <2>13, <2>14, <2>15
       DEF NextPage
  <2> QED
    BY <2>3, <2>15
<1> QED
  BY <1>1, NormalizeAllTwice DEF StoredIsNormal

LEMMA LoadsKept ==
    ASSUME ContentsInv, [NextPage]_pageVars
    PROVE  PublishedLoads'
<1>1. PublishedLoads <=> Loads(published)
  BY DEF PublishedLoads, Loads
<1>2. PublishedLoads' <=> Loads(published')
  BY DEF PublishedLoads, Loads
<1>3. CASE published' = published
  BY <1>1, <1>2, <1>3 DEF ContentsInv
<1>4. ASSUME PublishDraft
      PROVE  Loads(published')
  <2>1. published' = [nodes |-> NormalizeAll(NormalizeAll(list)), options |-> options]
        /\ Passes(NormalizeAll(list), options)
    BY <1>4 DEF PublishDraft, Built
  <2>2. published'.nodes = NormalizeAll(list) /\ published'.options = options
    BY <2>1, NormalizeAllTwice
  <2> QED
    BY <2>1, <2>2, PassesLoads DEF ContentsInv, PageInv
<1>5. ASSUME Migrate
      PROVE  published'.nodes = published.nodes /\ published'.options = published.options
  BY <1>5 DEF Migrate, Built, ContentsInv, StoredIsNormal
<1>6. ASSUME NEW nodes \in Restored, Streamlit(nodes), published' # published
      PROVE  Loads(published')
  <2>1. published' = [nodes |-> NormalizeAll(nodes), options |-> stored.options]
        /\ Passes(NormalizeAll(nodes), stored.options)
    BY <1>6 DEF Streamlit, Built
  <2>2. published'.nodes = NormalizeAll(nodes) /\ published'.options = stored.options
    BY <2>1
  <2> QED
    BY <2>1, <2>2, PassesLoads DEF ContentsInv, PageInv
<1>7. Migrate => (Loads(published) <=> Loads(published'))
  BY <1>5 DEF Loads
<1>8. CASE published' # published
  <2>1. \/ PublishDraft \/ Migrate
        \/ \E nodes \in Restored : Streamlit(nodes)
    BY <1>8 DEF NextPage, pageVars, Load, ImportFailed, CloseForm, SendForm, FormRefused,
         SaveSend, SaveAnswered, Validate, ImportSend, ImportAnswered, OpenForm, FormAnswered,
         MoveNode, DeleteNode, EditOptions
  <2> QED
    BY <1>1, <1>2, <1>4, <1>6, <1>7, <1>8, <2>1 DEF ContentsInv
<1> QED
  BY <1>3, <1>8

-----------------------------------------------------------------------------
(* The theorems                                                            *)

\* The inductive invariant of the contents holds in every behaviour.
THEOREM ContentsInvariant == SpecPage => []ContentsInv
<1>1. InitPage => ContentsInv
  BY ContentsInit
<1>2. ContentsInv /\ [NextPage]_pageVars => ContentsInv'
  BY PageKeeps, NormalKept, LoadsKept DEF ContentsInv
<1> QED
  BY <1>1, <1>2, PTL DEF SpecPage

\* A published configuration is one a client can load, however imports, forms
\* and saves interleave (draft_service.py:318, config_builder.py:788).
THEOREM PublishedIsLoadable == SpecPage => []PublishedLoads
<1>1. ContentsInv => PublishedLoads
  BY DEF ContentsInv
<1> QED
  BY <1>1, ContentsInvariant, PTL

\* Normalising what is stored or published once more changes nothing
\* (normalizer.py:63, storage.py:741).
THEOREM StoredStaysNormal == SpecPage => []StoredIsNormal
<1>1. ContentsInv => StoredIsNormal
  BY DEF ContentsInv
<1> QED
  BY <1>1, ContentsInvariant, PTL

\* A form stays open, whatever becomes of its node.
LEMMA FormStaysOpen ==
    ASSUME FormOK(form, list), NEW where, NEW nodes
    PROVE  /\ Follow(where).pc = form.pc
           /\ Synced(Follow(where), nodes).pc = form.pc
<1>1. CASE form.pc = "closed" \/ form = NoForm
  BY <1>1 DEF Follow, Synced, NoForm
<1>2. CASE form.pc # "closed" /\ form # NoForm
  <2>1. PICK a, b, c, d, e, k, g, h :
          form = [pc |-> a, adding |-> b, index |-> c, ref |-> d, snapshot |-> e, type |-> k,
                  opened |-> g, others |-> h]
    BY <1>2 DEF FormOK
  <2>2. Follow(where) = form \/ Follow(where) = [form EXCEPT !.ref = where[form.ref]]
    BY DEF Follow
  <2>3. \E x : Follow(where) = [pc |-> a, adding |-> b, index |-> c, ref |-> x, snapshot |-> e,
                               type |-> k, opened |-> g, others |-> h]
    BY <2>1, <2>2
  <2>4. PICK x : Follow(where) = [pc |-> a, adding |-> b, index |-> c, ref |-> x,
                                  snapshot |-> e, type |-> k, opened |-> g, others |-> h]
    BY <2>3
  <2> DEFINE f == Follow(where)
             at == Locate(f, nodes)
  <2>5. Synced(f, nodes) \in {f, [f EXCEPT !.index = 0],
                              [f EXCEPT !.ref = at, !.index = at, !.snapshot = nodes[at]]}
    BY Zenon DEF Synced
  <2> HIDE DEF f, at
  <2>6. f.pc = a /\ f = [pc |-> a, adding |-> b, index |-> c, ref |-> x, snapshot |-> e,
                        type |-> k, opened |-> g, others |-> h]
    BY <2>4 DEF f
  <2>7. [f EXCEPT !.index = 0].pc = a
        /\ [f EXCEPT !.ref = at, !.index = at, !.snapshot = nodes[at]].pc = a
    BY <2>6
  <2>8. form.pc = a
    BY <2>1
  <2> QED
    BY <2>5, <2>6, <2>7, <2>8 DEF f
<1> QED
  BY <1>1, <1>2

\* An edit replaces only a node of the name its form was opened for, wherever
\* moves, imports and saves have put it meanwhile (app.js:2944).
THEOREM EditsHit == SpecPage => EditHitsItsNode
<1> DEFINE Hit == (form.pc = "sent" /\ form'.pc = "closed" /\ dirty') =>
                    \A i \in DOMAIN list : list'[i] # list[i] => list[i].text = form.opened
<1>1. ContentsInv /\ [NextPage]_pageVars => Hit
  <2> SUFFICES ASSUME ContentsInv, [NextPage]_pageVars,
                      form.pc = "sent", form'.pc = "closed", dirty',
                      NEW i \in DOMAIN list, list'[i] # list[i]
               PROVE  list[i].text = form.opened
    BY Zenon
  <2>1. IsList(list) /\ FormOK(form, list)
    BY DEF ContentsInv, PageInv
  <2>2. ~UNCHANGED list /\ ~(dirty' = FALSE) /\ form'.pc # form.pc
    OBVIOUS
  <2>3. ASSUME NEW where, NEW nodes, form' = Follow(where) \/ form' = Synced(Follow(where), nodes)
        PROVE  FALSE
    BY <2>1, <2>2, <2>3, FormStaysOpen
  <2>4. ~Load /\ ~ImportFailed /\ ~CloseForm /\ ~SendForm /\ ~FormRefused /\ ~SaveSend
        /\ ~Migrate /\ ~UNCHANGED pageVars
    BY <2>2 DEF Load, ImportFailed, CloseForm, SendForm, FormRefused, SaveSend, Migrate,
         pageVars, page
  <2>5. ~SaveAnswered
    BY <2>2 DEF SaveAnswered, page
  <2>6. ~Validate /\ ~PublishDraft
    <3>1. Validate \/ PublishDraft => ~dirty /\ dirty' = dirty
      BY DEF Validate, PublishDraft
    <3> QED
      BY <3>1
  <2>7. /\ \A replace \in BOOLEAN : ~ImportSend(replace)
        /\ \A at \in 0..Len(list) : ~OpenForm(at)
        /\ \A o \in Options : ~EditOptions(o)
        /\ \A nodes \in Restored : ~Streamlit(nodes)
    BY <2>2 DEF ImportSend, OpenForm, EditOptions, Streamlit, page
  <2>8. \A found \in Found : ~ImportAnswered(found)
    <3>1. \A found : ImportAnswered(found) => \E where : form' = Follow(where)
      BY Zenon DEF ImportAnswered
    <3> QED
      BY <2>3, <3>1
  <2>9. \A m, n \in DOMAIN list : ~MoveNode(m, n) /\ ~DeleteNode(m)
    <3>1. \A m, n : MoveNode(m, n) \/ DeleteNode(m) =>
                      \E where, nodes : form' = Synced(Follow(where), nodes)
      BY Zenon DEF MoveNode, DeleteNode
    <3> QED
      BY <2>3, <3>1
  <2>10. PICK edit \in Edits : FormAnswered(edit)
    BY <2>4, <2>5, <2>6, <2>7, <2>8, <2>9, Zenon DEF NextPage
  <2>11. CASE form.adding
    <3>1. PICK next : list' = Append(list, next)
      BY <2>10, <2>11 DEF FormAnswered
    <3> DEFINE S == {list[k] : k \in DOMAIN list} \cup {next}
    <3>2. list \in [1..Len(list) -> S] /\ Len(list) \in Nat /\ DOMAIN list = 1..Len(list)
      BY <2>1, ListFacts
    <3>3. next \in S
      OBVIOUS
    <3> HIDE DEF S
    <3>4. list'[i] = list[i]
      BY <3>1, <3>2, <3>3, AppendProperties
    <3> QED
      BY <2>2, <3>4
  <2>12. CASE ~form.adding
    <3>1. PICK next : list' = [list EXCEPT ![Locate(form, list)] = next]
                      /\ Locate(form, list) \in 1..MaxNodes
      BY <2>10, <2>12 DEF FormAnswered
    <3>2. Finds(form, list)
      BY <2>1, <2>12 DEF FormOK, NoForm
    <3>3. i = Locate(form, list) /\ i # 0
      BY <3>1
    <3> QED
      BY <2>1, <3>2, <3>3, LocateHits
  <2> QED
    BY <2>11, <2>12
<1>2. ContentsInv /\ [NextPage]_pageVars => [Hit]_pageVars
  BY <1>1
<1>3. EditHitsItsNode <=> [][Hit]_pageVars
  BY DEF EditHitsItsNode
<1> QED
  BY <1>2, <1>3, ContentsInvariant, PTL DEF SpecPage

=============================================================================
