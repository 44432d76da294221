---------------------------- MODULE DraftContents ----------------------------
(***************************************************************************)
(* The nodes of a draft on their way through the page, the API and the     *)
(* database: imports, the node form, saves, validation and publication     *)
(* (design/assets/app.js, src/src/api.py, draft_service.py, importers.py), *)
(* with the contents that normalizer.py and config_builder.py tell apart.  *)
(*                                                                         *)
(* Imports, the form and saves wait for answers while the user goes on     *)
(* editing.  A node has no identifier: the form finds its node again by    *)
(* the object it was opened for, by its contents, or by name and type.     *)
(* DraftSync has the order in which saves, validations and publications    *)
(* reach the server; here each of them is one step, a save excepted.       *)
(***************************************************************************)
EXTENDS Normalizer, ConfigBuilder

CONSTANTS MaxNodes,   \* bound: nodes of the draft
          MaxEvents   \* bound: steps of the user and of the other interface

VARIABLES list,       \* state.config.proxies
          options,    \* the rest of the draft on the page
          dirty,      \* edits that no answer has confirmed
          corrupted,  \* state.draftCorrupted: the stored draft did not load
          agreed,     \* state.draftCorruptionAcknowledged
          form,       \* state.nodeForm
          import,     \* the request of importNodes
          put,        \* the PUT under way
          stored,     \* the draft of the database
          published,  \* the published configuration
          events

page     == <<list, options, dirty, corrupted, agreed>>
pageVars == <<page, form, import, put, stored, published, events>>

-----------------------------------------------------------------------------
(* The data of the instance                                                *)

A == PlainNode
B == [PlainNode EXCEPT !.text = "b"]

(* Nodes as files and links hold them.                                     *)
Wrapped == [A EXCEPT !.padded = TRUE, !.type = "hy2", !.hop = "range", !.server = "listText"]
Ranged  == [A EXCEPT !.hop = "range"]
Masque  == [B EXCEPT !.type = "masque"]
BadPort == [B EXCEPT !.port = "bad"]
NoPort  == [B EXCEPT !.port = Absent]

RawNodes == {A, Wrapped, Masque, BadPort, NoPort}

Batches == {<<A>>, <<B>>, <<Wrapped, B>>, <<Ranged, A>>, <<Masque, B>>, <<A, BadPort>>,
            <<NoPort>>}

(* The forms of a node that an older version may have stored.              *)
OldNodes ==
    {[A EXCEPT !.type = t, !.hop = h] : t \in Types, h \in Hops}
    \cup {[A EXCEPT !.fingerprint = f, !.client = c] : f \in Fingerprints, c \in Clients}
    \cup {[A EXCEPT !.vision = v, !.smux = m] : v \in BOOLEAN, m \in Muxes}
    \cup {[A EXCEPT !.server = s] : s \in Servers}
    \cup {[A EXCEPT !.port = p, !.ech = e] : p \in Ports, e \in EchOptions}

(* Drafts that the Streamlit page stores, the second of which the API does *)
(* not accept.                                                             *)
Restored == {<<Wrapped, B>>, <<BadPort>>}

Base == [ruleType |-> "dustinwin", chosen |-> <<>>, rules |-> <<>>,
         providers |-> <<>>, desktop |-> "yes", profile |-> "desktop-full",
         sections |-> {"dns", "tun"}]

(* A rule for a node, a MATCH rule in the middle, rule sets of the user    *)
(* before and after the others, the other rule sources, and a router.      *)
Options ==
    {[Base EXCEPT !.rules = <<Rule("MATCH", "", "DIRECT"), Rule("DOMAIN", "x", "a")>>],
     [Base EXCEPT !.ruleType = "lhie1", !.chosen = [Domestic |-> "b"],
                  !.providers = << [name |-> "mine", target |-> "Proxy", first |-> TRUE],
                                   [name |-> "late", target |-> "Google", first |-> FALSE] >>],
     [Base EXCEPT !.ruleType = "none", !.rules = <<Rule("DOMAIN", "x", "Proxy")>>],
     [Base EXCEPT !.ruleType = "old", !.rules = <<Rule("match", "", "DIRECT")>>],
     [Base EXCEPT !.desktop = "no", !.profile = "minimal", !.sections = {"dns"}]}

-----------------------------------------------------------------------------
(* The server                                                              *)

NormalizeAll(nodes) == [i \in DOMAIN nodes |-> Normalize(nodes[i])]
NamesOf(nodes)      == [i \in DOMAIN nodes |-> nodes[i].text]

(* _normalize_draft refuses a draft with a blank name or a bad port; other *)
(* errors wait for the validation.                                         *)
Accepted(nodes) ==
    \A i \in DOMAIN nodes : /\ nodes[i].text # ""
                            /\ "port" \notin FieldErrors(Normalize(nodes[i]))

(* save_user_draft normalises what _normalize_draft has normalised.        *)
Saved(draft) == [nodes |-> NormalizeAll(NormalizeAll(draft.nodes)), options |-> draft.options]

Distinct(names) == \A i, j \in DOMAIN names : names[i] = names[j] => i = j

(* Mutant: a name that appears twice is left to the structural checks.     *)
PassesUnchecked(nodes, opts) ==
    /\ \A i \in DOMAIN nodes : FieldErrors(nodes[i]) = {}
    /\ ConfigErrors(BuildConfig(opts, NamesOf(nodes)), NoBase(opts.ruleType)) = {}

(* _run_validation of normalised nodes; mihomo may be switched off.        *)
Passes(nodes, opts) ==
    /\ Distinct(NamesOf(nodes))
    /\ \A i \in DOMAIN nodes : FieldErrors(nodes[i]) = {}
    /\ ConfigErrors(BuildConfig(opts, NamesOf(nodes)), NoBase(opts.ruleType)) = {}

(* validate_proxies: nodes without a required field or with an error are   *)
(* skipped, and so is a name that came before; a port that does not parse  *)
(* refuses the whole content, and so does content without a valid node.    *)
Imported(batch) ==
    LET complete == Picked(batch, {i \in DOMAIN batch : batch[i].port # Absent})
        normal   == NormalizeAll(complete)
        valid    == {i \in DOMAIN normal : FieldErrors(normal[i]) = {}}
        firsts   == {i \in valid : \A j \in valid : j < i => normal[j].text # normal[i].text}
    IN  IF \E i \in DOMAIN complete : ~PortParses(complete[i].port) THEN <<>>
        ELSE Picked(normal, firsts)

(* What an import may find, <<>> in content that is refused.               *)
Found == {Imported(batch) : batch \in Batches}

-----------------------------------------------------------------------------
(* The page                                                                *)

NoForm == [pc |-> "closed"]

(* Mutant: the form trusts the index it was opened at.                     *)
LocateByIndex(f, nodes) == IF f.index \in DOMAIN nodes THEN f.index ELSE 0

Only(S) == IF Cardinality(S) = 1 THEN CHOOSE i \in S : TRUE ELSE 0

(* locateFormNode: the object, else the only node with the contents last   *)
(* seen, else the only one of its name and type, else 0.  f.ref is the     *)
(* place of the object, 0 when it is gone.                                 *)
Locate(f, nodes) ==
    LET same  == {i \in DOMAIN nodes : nodes[i] = f.snapshot}
        alike == {i \in DOMAIN nodes : /\ nodes[i].text = f.snapshot.text
                                       /\ nodes[i].type = f.snapshot.type}
    IN  IF f.ref # 0 THEN f.ref
        ELSE IF Cardinality(same) = 1 THEN Only(same) ELSE Only(alike)

(* syncNodeFormTarget; a form for a new node has no target.                *)
Synced(f, nodes) ==
    IF f.pc = "closed" \/ f.adding THEN f
    ELSE LET at == Locate(f, nodes)
         IN  IF at = 0 THEN [f EXCEPT !.index = 0]
             ELSE [f EXCEPT !.ref = at, !.index = at, !.snapshot = nodes[at]]

(* The form after the list changed: `where' is the new place of the node   *)
(* at each place, 0 when its object is gone.                               *)
Follow(where) ==
    IF form.pc = "closed" \/ form.adding \/ form.ref = 0 THEN form
    ELSE [form EXCEPT !.ref = where[@]]

(* markDirty: a draft that did not load is overwritten when the user says  *)
(* so; otherwise the edit is undone and nothing has happened.              *)
MarkDirty ==
    /\ dirty' = TRUE
    /\ agreed' = corrupted
    /\ put' = IF put.pc = "sent" THEN [put EXCEPT !.fresh = FALSE] ELSE put

Event == events < MaxEvents /\ events' = events + 1

Draft == [nodes |-> list, options |-> options]

(* What GET /api/config answers: an empty draft when the stored one is     *)
(* refused by _normalize_draft.                                            *)
Loaded(draft) == IF Accepted(draft.nodes) THEN NormalizeAll(draft.nodes) ELSE <<>>

(* init_db has normalised the stored nodes and the page has loaded them.    *)
(* With an unusual old node the user only validates and publishes.         *)
InitPage ==
    /\ \E n \in RawNodes \cup OldNodes :
          /\ stored = [nodes |-> <<Normalize(n)>>, options |-> Base]
          /\ events = IF n \in RawNodes THEN 0 ELSE MaxEvents
    /\ options = Base
    /\ list = Loaded(stored)
    /\ corrupted = ~Accepted(stored.nodes)
    /\ agreed = FALSE /\ dirty = FALSE
    /\ form = NoForm /\ import = [pc |-> "idle"] /\ put = [pc |-> "none"]
    /\ published = [nodes |-> <<>>, options |-> Base]

(* The user loads the page again.                                          *)
Load ==
    /\ Event /\ put.pc = "none" /\ import.pc = "idle"
    /\ list' = Loaded(stored)
    /\ corrupted' = ~Accepted(stored.nodes)
    /\ options' = IF corrupted' THEN Base ELSE stored.options
    /\ agreed' = FALSE /\ dirty' = FALSE /\ form' = NoForm
    /\ UNCHANGED <<import, put, stored, published>>

(* importNodes sends the names of the draft with the content.              *)
ImportSend(replace) ==
    /\ Event /\ import.pc = "idle"
    /\ import' = [pc |-> "sent", names |-> {list[i].text : i \in DOMAIN list},
                  replace |-> replace]
    /\ UNCHANGED <<page, form, put, stored, published>>

(* _api_import_sync sorts what it found by the names it was sent; the page *)
(* replaces nodes in place by their names of now and appends the others.   *)
ImportAnswered(found) ==
    LET new   == Picked(found, {i \in DOMAIN found : found[i].text \notin import.names})
        old   == IF import.replace THEN {n \in ToSet(found) : n.text \in import.names} ELSE {}
        by(n) == {o \in old : o.text = n.text}
        kept  == [i \in DOMAIN list |->
                    IF by(list[i]) = {} THEN list[i] ELSE CHOOSE o \in by(list[i]) : TRUE]
    IN  /\ import.pc = "sent" /\ found # <<>>
        /\ Len(list) + Len(new) <= MaxNodes
        /\ list' = kept \o new
        /\ form' = Follow([i \in DOMAIN list |-> IF by(list[i]) = {} THEN i ELSE 0])
        /\ MarkDirty
        /\ import' = [pc |-> "idle"]
        /\ UNCHANGED <<options, corrupted, stored, published, events>>

(* Content without valid nodes, a fetch that failed, or an undone edit.    *)
ImportFailed ==
    /\ import.pc = "sent" /\ import' = [pc |-> "idle"]
    /\ UNCHANGED <<page, form, put, stored, published, events>>

(* openNodeForm; at = 0 adds a node.                                       *)
OpenForm(at) ==
    /\ Event
    /\ form' = [pc |-> "open", adding |-> at = 0, index |-> at, ref |-> at,
                snapshot |-> IF at = 0 THEN PlainNode ELSE list[at],
                type |-> IF at = 0 THEN PlainNode.type ELSE list[at].type,
                opened |-> IF at = 0 THEN "" ELSE list[at].text, others |-> {}]
    /\ UNCHANGED <<page, import, put, stored, published>>

CloseForm ==
    /\ form.pc # "closed" /\ form' = NoForm
    /\ UNCHANGED <<page, import, put, stored, published, events>>

(* saveNodeForm asks the server to build the node, with the names of the   *)
(* other nodes, unless the form has lost its node.                         *)
SendForm ==
    LET now == Synced(form, list)
    IN  /\ form.pc = "open" /\ (form.adding \/ now.index # 0)
        /\ form' = [now EXCEPT !.pc = "sent",
                      !.others = {list[i].text : i \in DOMAIN list \ {now.index}}]
        /\ UNCHANGED <<page, import, put, stored, published, events>>

(* build_manual_node: what the node form makes of its fields; it refuses   *)
(* smux without Brutal beside xtls-rprx-vision.                            *)
Buildable(f) == ~(f.vision /\ f.smux = "on")

ManualNode(f) ==
    [PlainNode EXCEPT !.text = f.name, !.type = f.type, !.client = "browser",
                      !.vision = f.vision, !.smux = f.smux,
                      !.hop = IF f.type = "hysteria2" THEN "int" ELSE Absent]

(* deepMergeNodeFields: a field the new node has takes the place of the    *)
(* old one, and what it does not have stays.                               *)
Overlay(base, new) ==
    LET either(old, now) == IF now = Absent THEN old ELSE now
    IN  [new EXCEPT !.hop         = either(base.hop, @),
                    !.fingerprint = either(base.fingerprint, @),
                    !.client      = either(base.client, @),
                    !.vision      = base.vision \/ @,
                    !.smux        = IF base.smux = "brutal" /\ @ = "on" THEN "brutal"
                                    ELSE either(base.smux, @),
                    !.ech         = either(base.ech, @)]

(* mergeEditedNode: a form with a box for smux decides about it, unticked  *)
(* it removes smux; the source text of a node only adds and changes.       *)
Merged(base, new, boxed) ==
    [Overlay(base, new) EXCEPT !.smux = IF boxed THEN new.smux ELSE @]

(* What the user fills in: a form, or the source text of one node, which   *)
(* is imported (`boxed' tells whether there is a box for smux).            *)
Forms == [name : {"b"}, type : {"vless", "hysteria2"}, vision : {FALSE}, smux : {Absent}]
         \cup [name : {"a"}, type : {"vless"}, vision : BOOLEAN, smux : {Absent, "on"}]

Edits ==
    {[node |-> ManualNode(f), boxed |-> f.type = "vless", typed |-> TRUE]
       : f \in {f \in Forms : Buildable(f)}}
    \cup {[node |-> Imported(<<Wrapped>>)[1], boxed |-> FALSE, typed |-> FALSE]}

(* The answer: _api_node_build_sync refuses a name among those it was      *)
(* sent, and so does an import of the source text; the page finds the node *)
(* again and checks the names it has now.  A form keeps the type of its    *)
(* node.                                                                   *)
FormAnswered(edit) ==
    LET at   == IF form.adding THEN Len(list) + 1 ELSE Locate(form, list)
        next == IF form.adding THEN edit.node
                ELSE Merged(list[at], edit.node, edit.boxed)
    IN  /\ form.pc = "sent" /\ edit.node.text \notin form.others
        /\ edit.typed /\ ~form.adding => edit.node.type = form.type
        /\ at \in 1..MaxNodes
        /\ \A i \in DOMAIN list \ {at} : list[i].text # edit.node.text
        /\ list' = IF form.adding THEN Append(list, next) ELSE [list EXCEPT ![at] = next]
        /\ MarkDirty
        /\ form' = NoForm
        /\ UNCHANGED <<options, corrupted, import, stored, published, events>>

(* The node was refused, its name is taken, it is lost, or the edit undone.*)
FormRefused ==
    /\ form.pc = "sent"
    /\ form' = [Synced(form, list) EXCEPT !.pc = "open"]
    /\ UNCHANGED <<page, import, put, stored, published, events>>

(* A node that is being edited is neither moved nor deleted.               *)
Editing(i) == form.pc # "closed" /\ form.index = i

(* moveNodeTo, also for changeNodeOrder                                    *)
MoveNode(i, j) ==
    LET order == InsertAt(RemoveAt([k \in DOMAIN list |-> k], i), j, i)
        where == [k \in DOMAIN list |-> CHOOSE m \in DOMAIN list : order[m] = k]
    IN  /\ Event /\ i # j /\ ~Editing(i)
        /\ list' = [k \in DOMAIN list |-> list[order[k]]]
        /\ form' = Synced(Follow(where), list')
        /\ MarkDirty
        /\ UNCHANGED <<options, corrupted, import, stored, published>>

DeleteNode(i) ==
    LET where == [k \in DOMAIN list |-> IF k < i THEN k ELSE IF k = i THEN 0 ELSE k - 1]
    IN  /\ Event /\ ~Editing(i)
        /\ list' = RemoveAt(list, i)
        /\ form' = Synced(Follow(where), list')
        /\ MarkDirty
        /\ UNCHANGED <<options, corrupted, import, stored, published>>

EditOptions(o) ==
    /\ Event /\ o # options /\ options' = o
    /\ MarkDirty
    /\ UNCHANGED <<list, corrupted, form, import, stored, published>>

-----------------------------------------------------------------------------
(* Saves, validations, publications                                        *)

SaveSend ==
    /\ dirty /\ put.pc = "none"
    /\ put' = [pc |-> "sent", fresh |-> TRUE, draft |-> Draft]
    /\ UNCHANGED <<page, form, import, stored, published, events>>

(* reconcileDraft: a node of the answer takes the place of the objects     *)
(* with the same contents, in their order; other objects are gone.         *)
Place(nodes, k) ==
    LET takers == {i \in DOMAIN nodes : Normalize(nodes[i]) = nodes[k]}
        rank   == Cardinality({i \in 1..k : nodes[i] = nodes[k]})
    IN  IF Cardinality(takers) < rank THEN 0 ELSE Nth(takers, rank)

(* The answer of the PUT replaces the list when nothing was edited since   *)
(* it was sent; a draft that is not accepted changes nothing.              *)
SaveAnswered ==
    /\ put.pc = "sent" /\ put' = [pc |-> "none"]
    /\ IF ~Accepted(put.draft.nodes)
       THEN UNCHANGED <<page, form, stored>>
       ELSE /\ stored' = Saved(put.draft)
            /\ IF put.fresh
               THEN /\ list' = NormalizeAll(list)
                    /\ form' = Synced(Follow([k \in DOMAIN list |-> Place(list, k)]), list')
                    /\ dirty' = FALSE /\ corrupted' = FALSE /\ agreed' = FALSE
                    /\ UNCHANGED options
               ELSE UNCHANGED <<page, form>>
    /\ UNCHANGED <<import, published, events>>

(* POST /api/validate stores the draft it checks.                          *)
Validate ==
    /\ ~dirty /\ put.pc = "none" /\ Accepted(list)
    /\ stored' = Saved(Draft)
    /\ list' = NormalizeAll(list)
    /\ corrupted' = FALSE /\ agreed' = FALSE
    /\ form' = Synced(Follow([k \in DOMAIN list |-> Place(list, k)]), list')
    /\ UNCHANGED <<options, dirty, import, put, published, events>>

(* build_config of a draft normalises its nodes.                           *)
Built(nodes, opts) == [nodes |-> NormalizeAll(nodes), options |-> opts]

(* POST /api/publish, after a validation of the same draft                 *)
PublishDraft ==
    /\ ~dirty /\ put.pc = "none" /\ Accepted(list)
    /\ Passes(NormalizeAll(list), options)
    /\ stored' = Saved(Draft)
    /\ published' = Built(NormalizeAll(list), options)
    /\ list' = NormalizeAll(list)
    /\ corrupted' = FALSE /\ agreed' = FALSE
    /\ form' = Synced(Follow([k \in DOMAIN list |-> Place(list, k)]), list')
    /\ UNCHANGED <<options, dirty, import, put, events>>

(* The Streamlit page saves the nodes of a file without a check of their   *)
(* ports, and publishes what it built of those that pass.                  *)
Streamlit(nodes) ==
    /\ Event
    /\ stored' = Built(nodes, stored.options)
    /\ published' \in {published}
         \cup (IF Passes(NormalizeAll(nodes), stored.options)
              THEN {Built(nodes, stored.options)} ELSE {})
    /\ UNCHANGED <<page, form, import, put>>

(* init_db: _migrate_mihomo_proxy_fields rewrites the rows that change.    *)
Migrate ==
    /\ Event
    /\ stored' = Built(stored.nodes, stored.options)
    /\ published' = Built(published.nodes, published.options)
    /\ UNCHANGED <<page, form, import, put>>

NextPage ==
    \/ Load \/ ImportFailed \/ CloseForm \/ SendForm \/ FormRefused
    \/ SaveSend \/ SaveAnswered \/ Validate \/ PublishDraft \/ Migrate
    \/ \E replace \in BOOLEAN : ImportSend(replace)
    \/ \E found \in Found : ImportAnswered(found)
    \/ \E at \in 0..Len(list) : OpenForm(at)
    \/ \E edit \in Edits : FormAnswered(edit)
    \/ \E i, j \in DOMAIN list : MoveNode(i, j)
    \/ \E i \in DOMAIN list : DeleteNode(i)
    \/ \E o \in Options : EditOptions(o)
    \/ \E nodes \in Restored : Streamlit(nodes)

SpecPage == InitPage /\ [][NextPage]_pageVars

-----------------------------------------------------------------------------
(* Whatever imports, forms and saves were under way together, a published  *)
(* configuration is one a client can load: node names differ, nodes have   *)
(* no error, every group and rule leads somewhere, and nothing stands      *)
(* behind a MATCH rule (draft_service.py:318, config_builder.py:788).      *)
PublishedLoads ==
    LET c       == BuildConfig(published.options, NamesOf(published.nodes))
        matches == {i \in DOMAIN c.rules : IsMatch(c.rules[i])}
    IN  published.nodes # <<>> =>
          /\ Distinct(c.nodes)
          /\ \A i \in DOMAIN published.nodes : FieldErrors(published.nodes[i]) = {}
          /\ GroupTargets(c) \cup RuleTargets(c) \subseteq Targets(c)
          /\ \A i \in matches : i..Len(c.rules) \subseteq matches

(* What is stored and published stays as it is when the server starts      *)
(* again, a page loads it or the link delivers it, each of which           *)
(* normalises once more (normalizer.py:63, storage.py:741, api.py:665).    *)
StoredIsNormal ==
    /\ NormalizeAll(stored.nodes) = stored.nodes
    /\ NormalizeAll(published.nodes) = published.nodes

(* An edit replaces a node of the name its form was opened for, although   *)
(* the list was moved, replaced or saved while the answer was awaited; a   *)
(* form that has lost its node writes nothing (app.js:2944).               *)
EditHitsItsNode ==
    [][(form.pc = "sent" /\ form'.pc = "closed" /\ dirty') =>
         \A i \in DOMAIN list : list'[i] # list[i] => list[i].text = form.opened]_pageVars

(* The page overwrites a stored draft that it could not load only after    *)
(* the user has agreed to it (app.js:657).                                 *)
OverwriteNeedsConsent ==
    [][(SaveAnswered \/ Validate) /\ corrupted => agreed]_pageVars
=============================================================================
