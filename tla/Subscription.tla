---------------------------- MODULE Subscription ----------------------------
(***************************************************************************)
(* The subscription link /sub/{token} of src/src/api.py: a request reads   *)
(* the row of the token, looks its key up in the cache of the API process, *)
(* and otherwise checks and rebuilds the published YAML and caches the     *)
(* body.  Meanwhile drafts are saved and published, tokens are reset and   *)
(* accounts are disabled or deleted, each in one transaction under the     *)
(* user's lock (RulesetStore).                                             *)
(***************************************************************************)
EXTENDS Naturals, Sequences

CONSTANTS
    Users,
    Contents,   \* configurations that can be published
    Matched,    \* those that have a MATCH rule
    Private,    \* those that name a ruleset the user has uploaded
    ApiThreads,      \* threads of the API
    CacheSize,  \* _SUBSCRIPTION_CACHE_MAX_ENTRIES
    MaxTokens,  \* bound: tokens that are generated
    MaxChanges, \* bound: changes of rows
    Nil

ASSUME ContentAssumption == Matched \subseteq Contents /\ Private \subseteq Contents
ASSUME SizeAssumption == CacheSize \in Nat \ {0} /\ MaxTokens \in Nat /\ MaxChanges \in Nat
ASSUME NoneAssumption == Nil \notin Users \cup Contents \cup ApiThreads \cup Nat

VARIABLES
    row,    \* user |-> account and configuration row
    issued, \* tokens generated so far; generate_token never repeats one
    cache,  \* _SUBSCRIPTION_CACHE, least recently used first
    request,    \* thread |-> the request it answers
    seen,   \* history: the answers that were right since the request came
    changes

linkVars == <<row, issued, cache, request, seen, changes>>

Tokens == 1..MaxTokens

\* "none" is the rule type without base rules, is_no_base_rule_type.
RuleTypes == {"base", "none"}

\* A published YAML holds the URLs of private rulesets with the token of the
\* time it was built.
Yaml == [content : Contents \cup {Nil}, urls : Tokens \cup {Nil}]
NoYaml == [content |-> Nil, urls |-> Nil]

Row == [status : {"unborn", "enabled", "disabled", "deleted"},
        token : Tokens \cup {Nil}, type : RuleTypes, yaml : Yaml]

\* What get_config_by_token returns of a row.
Config == [user : Users \cup {Nil}, token : Tokens \cup {Nil}, type : RuleTypes, yaml : Yaml]
NoConfig == [user |-> Nil, token |-> Nil, type |-> "base", yaml |-> NoYaml]

Answer == [code : {200, 404, 409}, body : Yaml]

Entry == [key : Config, body : Yaml]

LinkRequest == [pc : {"idle", "read", "lookup", "build", "answered"}, head : BOOLEAN,
            token : Tokens \cup {Nil}, config : Config, answer : Answer]

NotFound == [code |-> 404, body |-> NoYaml]
Unusable == [code |-> 409, body |-> NoYaml]

IdleThread == [pc |-> "idle", head |-> FALSE, token |-> Nil, config |-> NoConfig, answer |-> NotFound]

TypeOKLink ==
    /\ row \in [Users -> Row]
    /\ issued \in 0..MaxTokens
    /\ \A u \in Users : row[u].status # "unborn" => row[u].token \in 1..issued
    /\ cache \in Seq(Entry)
    /\ request \in [ApiThreads -> LinkRequest]
    /\ seen \in [ApiThreads -> SUBSET Answer]
    /\ changes \in 0..MaxChanges

InitLink ==
    /\ row = [u \in Users |-> [status |-> "unborn", token |-> Nil, type |-> "base", yaml |-> NoYaml]]
    /\ issued = 0
    /\ cache = <<>>
    /\ request = [p \in ApiThreads |-> IdleThread]
    /\ seen = [p \in ApiThreads |-> {}]
    /\ changes = 0

-----------------------------------------------------------------------------
(* What a request has to answer.                                           *)

\* validate_config: a configuration may lack MATCH only without base rules.
Valid(content, type) == content \in Matched \/ type = "none"

\* _materialize_private_urls_in_loaded_config: the URLs of private rulesets
\* get the token of the row, and the rest of the YAML stays.
BodyOf(config) ==
    [config.yaml EXCEPT !.urls = IF config.yaml.content \in Private THEN config.token ELSE Nil]

\* A HEAD request answers without the body.
Reply(body, head) == [code |-> 200, body |-> IF head THEN [body EXCEPT !.urls = Nil] ELSE body]

AnswerFor(config, head) ==
    IF config.yaml.content # Nil /\ Valid(config.yaml.content, config.type)
      THEN Reply(BodyOf(config), head)
      ELSE Unusable

Served(rows, t) == {u \in Users : rows[u].status = "enabled" /\ rows[u].token = t}

ConfigOf(rows, u) ==
    [user |-> u, token |-> rows[u].token, type |-> rows[u].type, yaml |-> rows[u].yaml]

Lookup(rows, t) == ConfigOf(rows, CHOOSE u \in Served(rows, t) : TRUE)

Right(rows, t, head) ==
    IF Served(rows, t) = {} THEN NotFound ELSE AnswerFor(Lookup(rows, t), head)

-----------------------------------------------------------------------------
(* Accounts, drafts and publications: each sets the row of one user.       *)

Active(p) == request[p].pc \in {"read", "lookup", "build"}

SetRow(u, new) ==
    /\ changes < MaxChanges /\ changes' = changes + 1
    /\ row' = [row EXCEPT ![u] = new]
    /\ seen' = [p \in ApiThreads |-> IF Active(p) THEN seen[p] \cup {Right(row', request[p].token, request[p].head)}
                                             ELSE seen[p]]
    /\ UNCHANGED <<cache, request>>

Live(u) == row[u].status = "enabled"

NewToken == issued < MaxTokens /\ issued' = issued + 1

CreateUser(u) ==
    /\ row[u].status = "unborn"
    /\ NewToken
    /\ SetRow(u, [row[u] EXCEPT !.status = "enabled", !.token = issued'])

ResetToken(u) ==
    /\ Live(u)
    /\ NewToken
    /\ SetRow(u, [row[u] EXCEPT !.token = issued'])

SetEnabled(u) ==
    /\ row[u].status \in {"enabled", "disabled"}
    /\ SetRow(u, [row[u] EXCEPT !.status = IF @ = "enabled" THEN "disabled" ELSE "enabled"])
    /\ UNCHANGED issued

Delete(u) ==
    /\ row[u].status \in {"enabled", "disabled"}
    /\ SetRow(u, [row[u] EXCEPT !.status = "deleted"])
    /\ UNCHANGED issued

\* save_user_draft has one column for the rule type of draft and publication.
SaveUserDraft(u, type) ==
    /\ Live(u)
    /\ SetRow(u, [row[u] EXCEPT !.type = type])
    /\ UNCHANGED issued

\* The API builds the YAML with the row's token; Streamlit publishes the YAML
\* that it built for its last check, perhaps with an earlier one.
Publish(u, content, type) ==
    /\ Live(u) /\ Valid(content, type)
    /\ \E t \in 1..row[u].token :
         SetRow(u, [row[u] EXCEPT !.type = type,
                                  !.yaml = [content |-> content,
                                            urls |-> IF content \in Private THEN t ELSE Nil]])
    /\ UNCHANGED issued

-----------------------------------------------------------------------------
(* A request for the link.                                                 *)

Arrive(p, t, head) ==
    /\ request[p].pc = "idle"
    /\ request' = [request EXCEPT ![p] = [IdleThread EXCEPT !.pc = "read", !.token = t, !.head = head]]
    /\ seen' = [seen EXCEPT ![p] = {Right(row, t, head)}]
    /\ UNCHANGED <<row, issued, cache, changes>>

Respond(p, answer) == request' = [request EXCEPT ![p] = [IdleThread EXCEPT !.pc = "answered", !.answer = answer]]

Read(p) ==
    /\ request[p].pc = "read"
    /\ LET t == request[p].token IN
       IF Served(row, t) = {} THEN Respond(p, NotFound)
       ELSE IF Lookup(row, t).yaml.content = Nil THEN Respond(p, Unusable)
       ELSE request' = [request EXCEPT ![p].pc = "lookup", ![p].config = Lookup(row, t)]
    /\ UNCHANGED <<row, issued, cache, seen, changes>>

\* _subscription_cache_key; the digest stands for the YAML.
KeyOf(config) == config

PositionsOfToken(key) == {i \in DOMAIN cache : cache[i].key.token = key.token}
Positions(key) == {i \in DOMAIN cache : cache[i].key = key}

\* OrderedDict.move_to_end
MoveToEnd(s, i) ==
    [j \in 1..Len(s) |-> IF j < i THEN s[j] ELSE IF j < Len(s) THEN s[j + 1] ELSE s[i]]

\* _subscription_cache_get
CacheGet(p) ==
    /\ request[p].pc = "lookup"
    /\ LET hits == Positions(KeyOf(request[p].config)) IN
       IF hits = {} THEN /\ request' = [request EXCEPT ![p].pc = "build"]
                         /\ UNCHANGED cache
       ELSE \E i \in hits : /\ cache' = MoveToEnd(cache, i)
                            /\ Respond(p, Reply(cache[i].body, request[p].head))
    /\ UNCHANGED <<row, issued, seen, changes>>

Trim(s) == IF Len(s) > CacheSize THEN Tail(s) ELSE s

CachePutAppending(entry) == cache' = Trim(Append(cache, entry))
\* _subscription_cache_put: an entry that another thread has put meanwhile is
\* replaced and moved to the end.
CachePut(entry) ==
    LET old == Positions(entry.key) IN
    IF old = {} THEN cache' = Trim(Append(cache, entry))
                ELSE \E i \in old : cache' = MoveToEnd([cache EXCEPT ![i] = entry], i)

Build(p) ==
    /\ request[p].pc = "build"
    /\ LET config == request[p].config IN
       /\ Respond(p, AnswerFor(config, request[p].head))
       /\ IF Valid(config.yaml.content, config.type) /\ ~request[p].head
            THEN CachePut([key |-> KeyOf(config), body |-> BodyOf(config)])
            ELSE UNCHANGED cache
    /\ UNCHANGED <<row, issued, seen, changes>>

Done(p) ==
    /\ request[p].pc = "answered"
    /\ request' = [request EXCEPT ![p] = IdleThread]
    /\ seen' = [seen EXCEPT ![p] = {}]
    /\ UNCHANGED <<row, issued, cache, changes>>

\* The cache lives in the process.
Restart ==
    /\ cache' = <<>>
    /\ request' = [p \in ApiThreads |-> IdleThread]
    /\ seen' = [p \in ApiThreads |-> {}]
    /\ UNCHANGED <<row, issued, changes>>

NextLink ==
    \/ \E u \in Users : CreateUser(u) \/ ResetToken(u) \/ SetEnabled(u) \/ Delete(u)
    \/ \E u \in Users, type \in RuleTypes : SaveUserDraft(u, type)
    \/ \E u \in Users, content \in Contents, type \in RuleTypes : Publish(u, content, type)
    \/ \E p \in ApiThreads, t \in 1..issued, head \in BOOLEAN : Arrive(p, t, head)
    \/ \E p \in ApiThreads : Read(p) \/ CacheGet(p) \/ Build(p) \/ Done(p)
    \/ Restart

SpecLink == InitLink /\ [][NextLink]_linkVars

-----------------------------------------------------------------------------
(* Properties                                                              *)

\* A request answers what was right for its token at some moment between its
\* arrival and its answer: never the body of an older publication, of another
\* token, of another user's row or of a row that is invalid, and 404 once the
\* token was reset before the request came.
AnswersAreCurrent ==
    \A p \in ApiThreads : request[p].pc = "answered" => request[p].answer \in seen[p]

\* The cache stays within its limit, also when threads put the same key, and
\* keeps one body per key, the one that a rebuild would give.
CacheIsSound ==
    /\ Len(cache) <= CacheSize
    /\ \A i, j \in DOMAIN cache : cache[i].key = cache[j].key => i = j
    /\ \A i \in DOMAIN cache : cache[i].body = BodyOf(cache[i].key)

\* The interface says of the link that it stays as it is until a publication
\* (web_app.py:3656, 3893).  A step that changes neither an account, a token
\* nor a published YAML leaves every answer as it is.
Shown(r) == <<r.status, r.token, r.yaml>>
LinkStaysUntilPublished ==
    [][(\A u \in Users : Shown(row'[u]) = Shown(row[u]))
         => \A t \in Tokens : Right(row', t, FALSE) = Right(row, t, FALSE)]_linkVars
=============================================================================
