--------------------------- MODULE ConfigBuilder ----------------------------
(***************************************************************************)
(* How src/src/config_builder.py builds a configuration from a draft, and  *)
(* what it checks before the configuration may be published.               *)
(*                                                                         *)
(* A rule is its kind, its value and its target.  The thirty rule sets and *)
(* thirty-odd groups of the program are represented by some of each kind:  *)
(* rule sets that are moved to the front, that stay, and that are moved to *)
(* the end; groups with and without nodes, which refer to other groups and *)
(* to built-in targets.                                                    *)
(***************************************************************************)
EXTENDS Naturals, Sequences, SequencesExt, FiniteSets

(* The k-th least element of a set of numbers, and the elements of a       *)
(* sequence that stand at a set of places, in order; one does not recur,   *)
(* as SelectSeq does, so that what it returns can be reasoned about.       *)
Nth(S, k)    == CHOOSE i \in S : Cardinality({j \in S : j <= i}) = k
Picked(s, S) == [k \in 1..Cardinality(S) |-> s[Nth(S, k)]]

BuiltIn == {"DIRECT", "REJECT", "REJECT-DROP", "PASS"}

Rule(kind, value, target) == [kind |-> kind, value |-> value,
                              target |-> target, noResolve |-> FALSE]

IsMatch(r)   == r.kind \in {"MATCH", "match"}    \* _is_match_rule
StartsMatch(r) == r.kind = "MATCH"               \* startswith("MATCH,")

NoBase(ruleType) == ruleType = "none"

(* Rule sets of the two sources, in the order of their tables.             *)
Catalog(ruleType) ==
    CASE ruleType = "dustinwin" ->
           << [name |-> "private", target |-> "DIRECT",   noResolve |-> FALSE],
              [name |-> "google",  target |-> "Google",   noResolve |-> FALSE],
              [name |-> "ai",      target |-> "AI Suite", noResolve |-> FALSE],
              [name |-> "cnip",    target |-> "Domestic", noResolve |-> TRUE],
              [name |-> "mediaip", target |-> "Global TV", noResolve |-> TRUE] >>
      [] ruleType = "lhie1" ->
           << [name |-> "AdBlock",  target |-> "AdBlock",  noResolve |-> FALSE],
              [name |-> "Domestic", target |-> "Domestic", noResolve |-> FALSE],
              [name |-> "AI Suite", target |-> "AI Suite", noResolve |-> FALSE] >>
      [] OTHER -> <<>>

First(ruleType) == IF ruleType = "dustinwin" THEN <<"ai", "youtube", "google">>
                   ELSE <<"AI Suite">>
Deferred(ruleType) == IF ruleType = "dustinwin" THEN <<"cnip">>
                      ELSE <<"Domestic", "Domestic IPs">>

(* The entries of a table that have one of the names, in the names' order;*)
(* an entry is found by its name, which no other has.                      *)
Named(entries, names) ==
    LET known == Picked(names, {i \in DOMAIN names : \E e \in ToSet(entries) : e.name = names[i]})
    IN  [k \in DOMAIN known |-> CHOOSE e \in ToSet(entries) : e.name = known[k]]

(* priority_ordered_items                                                  *)
PriorityOrdered(entries, first, deferred) ==
    Named(entries, first)
    \o Picked(entries, {i \in DOMAIN entries :
                         entries[i].name \notin ToSet(first) \cup ToSet(deferred)})
    \o Named(entries, Picked(deferred, {i \in DOMAIN deferred : deferred[i] \notin ToSet(first)}))

(* A target of the table, or the one the user chose for the rule set.      *)
SetRule(e, chosen) ==
    [kind |-> "RULE-SET", value |-> e.name, noResolve |-> e.noResolve,
     target |-> IF e.name \in DOMAIN chosen THEN chosen[e.name] ELSE e.target]

BaseRules(ruleType, chosen) ==
    LET sets == PriorityOrdered(Catalog(ruleType), First(ruleType), Deferred(ruleType))
        rules == [i \in DOMAIN sets |-> SetRule(sets[i], chosen)]
        own   == <<Rule("DOMAIN-SUFFIX", "services.googleapis.cn", "Google")>>
    IN  CASE ruleType = "dustinwin" -> own \o rules \o <<Rule("MATCH", "", "Others")>>
          [] ruleType = "lhie1" ->
               own \o rules
               \o << Rule("RULE-SET", "google", "Google"),
                     [Rule("GEOIP", "CN", "Domestic") EXCEPT !.noResolve = TRUE],
                     Rule("MATCH", "", "Others") >>
          [] NoBase(ruleType) -> <<>>
          [] OTHER -> own \o << Rule("DOMAIN-SUFFIX", "youtube.com", "Youtube"),
                                Rule("MATCH", "", "Proxy") >>

ProviderRules(providers, first) ==
    LET chosen == Picked(providers, {i \in DOMAIN providers : providers[i].first = first})
    IN  [i \in DOMAIN chosen |-> Rule("RULE-SET", chosen[i].name, chosen[i].target)]

Normal(rules)  == Picked(rules, {i \in DOMAIN rules : ~IsMatch(rules[i])})
Matches(rules) == Picked(rules, {i \in DOMAIN rules : IsMatch(rules[i])})

(* Mutant: the user's MATCH rule stays among the user's other rules.       *)
BuildRulesInPlace(d) ==
    LET base == BaseRules(d.ruleType, d.chosen)
        all  == d.rules \o ProviderRules(d.providers, TRUE)
                \o Normal(base) \o ProviderRules(d.providers, FALSE)
                \o (IF Matches(d.rules) # <<>> THEN <<>> ELSE Matches(base))
    IN  IF NoBase(d.ruleType) \/ \E i \in DOMAIN all : StartsMatch(all[i])
        THEN all
        ELSE Append(all, Rule("MATCH", "", "Proxy"))

(* build_rules: the user's rules before the base rules, and one MATCH rule *)
(* at the end, the user's first or else that of the base rules.            *)
BuildRules(d) ==
    LET base  == BaseRules(d.ruleType, d.chosen)
        final == IF Matches(d.rules) # <<>> THEN SubSeq(Matches(d.rules), 1, 1)
                 ELSE Matches(base)
        all   == Normal(d.rules) \o ProviderRules(d.providers, TRUE)
                 \o Normal(base) \o ProviderRules(d.providers, FALSE) \o final
    IN  IF NoBase(d.ruleType) \/ \E i \in DOMAIN all : StartsMatch(all[i])
        THEN all
        ELSE Append(all, Rule("MATCH", "", "Proxy"))

(* Names of the rule providers a configuration declares.                   *)
ProviderNames(d) ==
    {e.name : e \in ToSet(Catalog(d.ruleType))}
    \cup (IF d.ruleType = "lhie1" THEN {"google"} ELSE {})
    \cup {p.name : p \in ToSet(d.providers)}

(* generate_minimal_proxy_groups, generate_proxy_groups                    *)
Group(name, members) == [name |-> name, members |-> members]

MinimalGroups(names) ==
    << Group("Auto - UrlTest", names),
       Group("Proxy", <<"Auto - UrlTest", "DIRECT">> \o names) >>

AllGroups(names) ==
    MinimalGroups(names) \o
    << Group("Domestic",  <<"DIRECT", "Proxy">>),
       Group("Others",    <<"Proxy", "DIRECT", "Domestic">>),
       Group("AI Suite",  <<"Proxy", "DIRECT">> \o names),
       Group("Google",    <<"Proxy", "DIRECT">> \o names),
       Group("Youtube",   <<"Global TV", "DIRECT", "Proxy">> \o names),
       Group("AdBlock",   <<"REJECT", "DIRECT", "Proxy">>),
       Group("Global TV", <<"Proxy", "DIRECT">> \o names) >>

(* apply_generation_profile: the switch `desktop' decides where it is set, *)
(* and the drafts of this system always set it.                            *)
Profile(d) ==
    CASE d.desktop = "yes" -> "desktop-full"
      [] d.desktop = "no"  -> "openclash-router"
      [] OTHER             -> d.profile

(* A router or a minimal configuration leaves DNS, TUN, ports and the      *)
(* controller to the program that loads it.                                *)
Sections(d) == IF Profile(d) = "desktop-full" THEN d.sections ELSE {}

(* build_config; `names' are the names of the normalised nodes.            *)
BuildConfig(d, names) ==
    LET minimal == Profile(d) = "minimal"
    IN  [nodes     |-> names,
         groups    |-> IF minimal THEN MinimalGroups(names) ELSE AllGroups(names),
         sections  |-> Sections(d),
         rules     |-> IF minimal /\ ~NoBase(d.ruleType)
                       THEN <<Rule("MATCH", "", "Proxy")>> ELSE BuildRules(d),
         providers |-> IF minimal /\ ~NoBase(d.ruleType)
                       THEN {} ELSE ProviderNames(d)]

Targets(c) == ToSet(c.nodes) \cup {g.name : g \in ToSet(c.groups)} \cup BuiltIn

(* The targets of a group and of a rule that validate_config looks up.     *)
GroupTargets(c) == UNION {ToSet(g.members) : g \in ToSet(c.groups)}
RuleTargets(c)  == {r.target : r \in ToSet(c.rules)}

(* validate_config, but for the fields of the nodes                        *)
ConfigErrors(c, noMatch) ==
    {e \in {"no nodes", "no MATCH", "group target", "rule target"} :
       \/ e = "no nodes" /\ c.nodes = <<>>
       \/ e = "no MATCH" /\ ~noMatch /\ \A r \in ToSet(c.rules) : ~StartsMatch(r)
       \/ e = "group target" /\ ~(GroupTargets(c) \subseteq Targets(c))
       \/ e = "rule target" /\ ~(RuleTargets(c) \subseteq Targets(c))}
=============================================================================
