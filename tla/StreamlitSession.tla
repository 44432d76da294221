-------------------------- MODULE StreamlitSession --------------------------
(***************************************************************************)
(* One session of the Streamlit page (src/src/web_app.py, src/src/ui) on   *)
(* the configuration of one user, beside the V2 interface and an           *)
(* administrator who work on the same row of the database.                 *)
(*                                                                         *)
(* Streamlit runs the whole script again for every interaction.  The       *)
(* session state survives between runs and is loaded from the database     *)
(* only once.  A run is a sequence of parts: the top of the page signs the *)
(* user in again and takes the values of the widgets, the body executes    *)
(* the pressed button, the fourth tab checks or publishes, and the tail    *)
(* saves what differs from what was saved before.  Many buttons end in     *)
(* st.rerun(), which leaves the rest of the script out and starts again;   *)
(* a new interaction interrupts a run between two parts, and the browser   *)
(* keeps offering the buttons of the last page it received in full.        *)
(*                                                                         *)
(* Data: a node is a name and a revision of its fields; `conf' stands for  *)
(* the global options, rules and rule providers, of which some do not pass *)
(* the checks; the YAML built from a draft is represented by the draft.    *)
(***************************************************************************)
EXTENDS Naturals, Sequences, SequencesExt

CONSTANTS Names,      \* names of nodes
          Confs,      \* configurations; "bad" does not pass the checks
          MaxNodes,   \* bound: nodes in the session
          MaxEvents   \* bound: interactions of the user and the V2 interface

VARIABLES db,         \* the row: draft, status of its validation, final_yaml
          signedIn,   \* the session's cookie is valid and the account enabled
          nodes,      \* st.session_state.proxies_data
          conf,       \* global_config, custom_rules, custom_rule_providers
          counted,    \* node_count of the import sources
          persisted,  \* persisted_draft_signature
          checked,    \* checked_draft_signature and checked_draft_yaml
          editor,     \* editing_proxy_idx and editing_proxy_data
          run,        \* the part of the script the current run is in
          click,      \* the button whose press started the run
          screen,     \* what the last complete page offers
          events      \* interactions so far

session == <<nodes, conf, counted, persisted, checked, editor>>
page    == <<run, click, screen, events>>
vars    == <<db, signedIn, session, page>>

-----------------------------------------------------------------------------
Nothing == [kind |-> "none"]
Draft == [nodes |-> nodes, conf |-> conf]

(* current_draft_signature: everything save_user_draft stores, including    *)
(* the node counts that only a save brings up to date.                      *)
Signature == <<nodes, conf, counted>>

NoDuplicates(s) == \A i, j \in DOMAIN s : s[i].name = s[j].name => i = j

(* The structural checks and the mihomo validator on the YAML of draft d.   *)
Passes(d) == d.nodes # <<>> /\ NoDuplicates(d.nodes) /\ d.conf # "bad"

(* The publish button is drawn enabled for the very draft that passed the  *)
(* check.                                                                  *)
CheckedIsCurrent == checked # Nothing /\ checked.signature = Signature

(* Drafts of the V2 interface, which this session does not see.            *)
Other(c) == [nodes |-> <<[name |-> CHOOSE n \in Names : TRUE, rev |-> 1]>>,
             conf |-> c]

Press(k)      == [kind |-> k]
PressAt(k, i) == [kind |-> k, at |-> i]

(* Buttons of the page the browser shows.                                  *)
Offered ==
    {Nothing} \cup {Press("import"), Press("rules")}
    \cup {PressAt(k, i) : k \in {"edit", "delete"}, i \in 1..screen.count}
    \cup {[kind |-> "move", at |-> i, to |-> j] :
             i \in 1..screen.count, j \in 1..screen.count}
    \cup (IF screen.editing = 0 THEN {}
          ELSE {PressAt(k, screen.editing) : k \in {"save", "cancel"}})
    \cup (IF screen.count = 0 THEN {Press("restore")} ELSE {Press("check")})
    \cup (IF screen.publish THEN {Press("publish")} ELSE {})

Init ==
    /\ \E s \in {<<>>, [i \in 1..MaxNodes |->
                          [name |-> SetToSeq(Names)[i], rev |-> 0]]} :
          db = [draft |-> [nodes |-> s, conf |-> "ok"],
                status |-> "unknown", yaml |-> Nothing]
    /\ signedIn = TRUE
    /\ nodes = <<>> /\ conf = "ok" /\ counted = 0
    /\ persisted = Signature /\ checked = Nothing /\ editor = Nothing
    /\ run = "closed" /\ click = Nothing /\ events = 0
    /\ screen = [count |-> 0, editing |-> 0, publish |-> FALSE]

-----------------------------------------------------------------------------
(* The top of the page                                                     *)

(* The sidebar writes the values of all its widgets to global_config, and  *)
(* so completes what was loaded.                                           *)
Sidebar(c) == conf' = c

(* A new session loads the row; session_loaded_user_id keeps later runs    *)
(* from loading it again.                                                  *)
Open(c) ==
    /\ run = "closed" /\ signedIn /\ events < MaxEvents
    /\ nodes' = db.draft.nodes /\ Sidebar(c)
    /\ counted' = Len(nodes')
    /\ persisted' = <<nodes', db.draft.conf, counted'>>
    /\ checked' = Nothing /\ editor' = Nothing
    /\ run' = "body" /\ click' = Nothing /\ events' = events + 1
    /\ UNCHANGED <<db, signedIn, screen>>

(* An interaction starts a run, or interrupts the current one at the next  *)
(* element it draws.  The run signs the user in again.                     *)
Interact(press, c) ==
    /\ run # "closed" /\ events < MaxEvents
    /\ events' = events + 1
    /\ IF signedIn
       THEN run' = "body" /\ click' = press /\ Sidebar(c)
       ELSE run' = "closed" /\ click' = Nothing /\ UNCHANGED conf
    /\ UNCHANGED <<db, signedIn, nodes, counted, persisted, checked, editor,
                   screen>>

(* The browser leaves, or the process stops: the session state is gone.    *)
Close ==
    /\ run # "closed"
    /\ run' = "closed" /\ click' = Nothing
    /\ screen' = [count |-> 0, editing |-> 0, publish |-> FALSE]
    /\ nodes' = <<>> /\ conf' = "ok" /\ counted' = 0
    /\ persisted' = Signature' /\ checked' = Nothing /\ editor' = Nothing
    /\ UNCHANGED <<db, signedIn, events>>

-----------------------------------------------------------------------------
(* The body: import, nodes, rules                                          *)

In(part, kind) == run = part /\ click.kind = kind

(* st.rerun(): the run starts again, the press is used up.                 *)
Rerun == run' = "body" /\ click' = Nothing /\ UNCHANGED <<screen, events>>
GoOn(part) == run' = part /\ UNCHANGED <<click, screen, events>>

(* What a source holds after parse_proxy_yaml, which leaves no name twice; *)
(* the manual form is parsed in the same way and adds one node at most.    *)
ManualNodes == {<<n>> : n \in Names}
Parsed      == ManualNodes \cup {s \in Names \X Names : s[1] # s[2]}

(* Nodes whose name the draft has are skipped, the others are appended and *)
(* the page goes on.                                                       *)
ImportNodes ==
    /\ In("body", "import")
    /\ \E found \in Parsed \cup ManualNodes :
          LET known == {nodes[i].name : i \in DOMAIN nodes}
              new   == SelectSeq(found, LAMBDA n : n \notin known)
          IN  /\ Len(nodes) + Len(new) <= MaxNodes
              /\ nodes' = nodes \o [i \in DOMAIN new |-> [name |-> new[i], rev |-> 0]]
              /\ counted' = counted + Len(new)
    /\ GoOn("tab4")
    /\ UNCHANGED <<db, signedIn, conf, persisted, checked, editor>>

(* An empty draft takes the nodes of an uploaded configuration as they are.*)
Restore ==
    /\ In("body", "restore") /\ nodes = <<>>
    /\ \E found \in [1..MaxNodes -> Names] :
          nodes' = [i \in 1..MaxNodes |-> [name |-> found[i], rev |-> 0]]
    /\ counted' = MaxNodes
    /\ Rerun
    /\ UNCHANGED <<db, signedIn, conf, persisted, checked, editor>>

(* The editor remembers the index of its card and a copy of the node.      *)
OpenEditor ==
    /\ In("body", "edit") /\ click.at \in DOMAIN nodes
    /\ editor' = [kind |-> "editor", at |-> click.at, node |-> nodes[click.at]]
    /\ Rerun
    /\ UNCHANGED <<db, signedIn, nodes, conf, counted, persisted, checked>>

(* Removing a card closes the editor only when it is the editor's own.     *)
Delete ==
    /\ In("body", "delete") /\ click.at \in DOMAIN nodes
    /\ nodes' = RemoveAt(nodes, click.at)
    /\ editor' = IF editor # Nothing /\ editor.at = click.at THEN Nothing ELSE editor
    /\ Rerun
    /\ UNCHANGED <<db, signedIn, conf, counted, persisted, checked>>

(* A drag moves one node and closes the editor.                            *)
Move ==
    /\ In("body", "move")
    /\ {click.at, click.to} \subseteq DOMAIN nodes /\ click.at # click.to
    /\ nodes' = InsertAt(RemoveAt(nodes, click.at), click.to, nodes[click.at])
    /\ editor' = Nothing
    /\ Rerun
    /\ UNCHANGED <<db, signedIn, conf, counted, persisted, checked>>

Editing == editor # Nothing /\ editor.at \in DOMAIN nodes

(* The edited text, which must parse to one node, takes the place the      *)
(* editor was opened at; text that does not parse changes nothing.         *)
SaveEdit ==
    /\ In("body", "save") /\ Editing /\ editor.at = click.at
    /\ \E name \in Names :
          nodes' = [nodes EXCEPT ![editor.at] = [name |-> name, rev |-> 1]]
    /\ editor' = Nothing
    /\ Rerun
    /\ UNCHANGED <<db, signedIn, conf, counted, persisted, checked>>

Cancel ==
    /\ In("body", "cancel") /\ Editing /\ editor.at = click.at
    /\ editor' = Nothing
    /\ Rerun
    /\ UNCHANGED <<db, signedIn, nodes, conf, counted, persisted, checked>>

(* Adding or removing a rule or a rule provider, or resetting targets.     *)
EditRules ==
    /\ In("body", "rules")
    /\ conf' \in Confs \ {conf}
    /\ Rerun
    /\ UNCHANGED <<db, signedIn, nodes, counted, persisted, checked, editor>>

(* Nothing pressed here, a button this page no longer draws, or text and    *)
(* files that do not parse.                                                *)
BodyDone ==
    /\ run = "body" /\ click.kind \notin {"import", "rules"}
    /\ GoOn("tab4")
    /\ \/ click.kind \in {"none", "check", "publish"}
       \/ click.kind \in {"edit", "delete"} /\ click.at \notin DOMAIN nodes
       \/ /\ click.kind = "move"
          /\ \/ ~({click.at, click.to} \subseteq DOMAIN nodes)
             \/ click.at = click.to
       \/ click.kind \in {"save", "restore"}
       \/ click.kind = "cancel" /\ ~(Editing /\ editor.at = click.at)
    /\ UNCHANGED <<db, signedIn, session>>

-----------------------------------------------------------------------------
(* The fourth tab and the tail, each holding the user's lock               *)

(* Mutant: the automatic save keeps the status of the previous draft.      *)
PersistKeepingStatus(status) ==
    /\ counted' = Len(nodes)
    /\ db' = [db EXCEPT !.draft = Draft,
                        !.status = IF status = "unknown" THEN db.status ELSE status]
    /\ persisted' = <<nodes, conf, Len(nodes)>>

(* _persist_current_draft_unlocked: the counts of the sources are brought  *)
(* up to date, the draft is stored and its signature remembered.           *)
Persist(status) ==
    /\ counted' = Len(nodes)
    /\ db' = [db EXCEPT !.draft = Draft, !.status = status]
    /\ persisted' = <<nodes, conf, Len(nodes)>>

(* What is on the page once a run has drawn all of it.                     *)
Drawn == [count |-> Len(nodes), editing |-> IF Editing THEN editor.at ELSE 0,
          publish |-> CheckedIsCurrent]

Stop == run' = "idle" /\ click' = Nothing /\ UNCHANGED <<screen, events>>

CheckPasses ==
    /\ In("tab4", "check") /\ signedIn /\ Passes(Draft)
    /\ checked' = [kind |-> "checked", signature |-> Signature, yaml |-> Draft]
    /\ Persist("passed")
    /\ Rerun
    /\ UNCHANGED <<signedIn, nodes, conf, editor>>

CheckFails ==
    /\ In("tab4", "check") /\ signedIn /\ ~Passes(Draft)
    /\ checked' = Nothing
    /\ Persist("failed")
    /\ GoOn("tail")
    /\ UNCHANGED <<signedIn, nodes, conf, editor>>

(* Mutant: the publication builds the YAML of the draft it stores.         *)
PublishedYamlRebuilt == Draft

(* The YAML that the last check left in the session; it is not built or    *)
(* checked again.                                                          *)
PublishedYaml == checked.yaml

(* Drawing a button disabled does not take back its press: one that was    *)
(* sent from the old page, together with a changed widget perhaps, stores  *)
(* the draft as it is now, as passed, beside the YAML of the check.        *)
Publish ==
    /\ In("tab4", "publish") /\ signedIn /\ checked # Nothing
    /\ db' = [draft |-> Draft, status |-> "passed", yaml |-> PublishedYaml]
    /\ persisted' = Signature
    /\ checked' = Nothing
    /\ Rerun
    /\ UNCHANGED <<signedIn, nodes, conf, counted, editor>>

(* Without a kept YAML st.session_state.checked_draft_yaml raises, and the *)
(* run ends in an error on the page before its tail.                       *)
PublishRaises ==
    /\ In("tab4", "publish") /\ signedIn /\ checked = Nothing
    /\ run' = "failed" /\ click' = Nothing /\ screen' = Drawn
    /\ UNCHANGED <<db, signedIn, session, events>>

(* The account was disabled after the top of the page: st.stop().          *)
Refused ==
    /\ run = "tab4" /\ click.kind \in {"check", "publish"} /\ ~signedIn
    /\ Stop
    /\ UNCHANGED <<db, signedIn, session>>

Tab4Done ==
    /\ run = "tab4" /\ click.kind \notin {"check", "publish"}
    /\ GoOn("tail")
    /\ UNCHANGED <<db, signedIn, session>>

(* Mutant: the save compares no configuration, as if a field had been added *)
(* to the draft and not to its signature.                                  *)
UnsavedNodesOnly == <<nodes, counted>> # <<persisted[1], persisted[3]>>

(* The end of the script: a draft that differs from the saved one loses    *)
(* its check and is saved, unless the account was disabled meanwhile.      *)
Unsaved == Signature # persisted

AutoSave ==
    /\ run = "tail"
    /\ run' = "idle" /\ click' = Nothing /\ screen' = Drawn
    /\ IF Unsaved
       THEN /\ checked' = Nothing
            /\ IF signedIn THEN Persist("unknown")
               ELSE UNCHANGED <<db, counted, persisted>>
       ELSE UNCHANGED <<db, counted, persisted, checked>>
    /\ UNCHANGED <<signedIn, nodes, conf, editor, events>>

-----------------------------------------------------------------------------
(* The V2 interface and the administrator                                  *)

V2 == /\ signedIn
      /\ \/ \E c \in Confs : db' = [db EXCEPT !.draft = Other(c),
                                              !.status = "unknown"]
         \/ db' = [db EXCEPT !.status =
                      IF Passes(db.draft) THEN "passed" ELSE "failed"]
         \/ /\ Passes(db.draft)
            /\ db' = [db EXCEPT !.status = "passed", !.yaml = db.draft]
      /\ events < MaxEvents /\ events' = events + 1
      /\ UNCHANGED <<signedIn, session, run, click, screen>>

(* Disabling revokes the sessions of the account.                          *)
Disable == signedIn /\ signedIn' = FALSE /\ UNCHANGED <<db, session, page>>

Body == \/ ImportNodes \/ Restore \/ OpenEditor \/ Delete \/ Move
        \/ SaveEdit \/ Cancel \/ EditRules \/ BodyDone
Tab4 == CheckPasses \/ CheckFails \/ Publish \/ PublishRaises \/ Refused \/ Tab4Done

Next == \/ Close \/ Body \/ Tab4 \/ AutoSave \/ V2 \/ Disable
        \/ \E c \in Confs : Open(c)
        \/ \E press \in Offered, c \in Confs : Interact(press, c)

(* A run that nothing interrupts reaches the end of the script.            *)
Fairness == WF_vars(Body \/ Tab4 \/ AutoSave)

Spec == Init /\ [][Next]_vars /\ Fairness

-----------------------------------------------------------------------------
(* Whatever the page and the V2 interface do, nobody saves a changed draft *)
(* as passed that does not pass, since every other save takes the status   *)
(* back (web_app.py:2208, 4112); the publish button alone stores a draft   *)
(* without a check of its own (4028).                                      *)
StatusIsEarned ==
    [][db'.status = "passed" /\ (db.status # "passed" \/ db'.draft # db.draft)
         => Passes(db'.draft) \/ Publish]_vars

(* The published YAML has passed the checks, although it was built by an   *)
(* earlier run, the draft may have changed and runs may have failed since  *)
(* (web_app.py:4019, 4047).                                                *)
PublishedYamlPassed == db.yaml # Nothing => Passes(db.yaml)

(* The help text of the publish button promises that the current draft,    *)
(* the one a publication stores as passed, has passed the checks           *)
(* (web_app.py:3989).                                                      *)
PublishedDraftPassed == [][db'.yaml # db.yaml => Passes(db'.draft)]_vars

(* A change that the session made and did not save, because a rerun or an  *)
(* interruption left the tail of the script out, is saved by a later run   *)
(* unless the page is closed, the account disabled or the run ends in an   *)
(* error (web_app.py:4112).                                                *)
ChangesAreSaved ==
    (run # "closed" /\ signedIn /\ Signature # persisted)
        ~> (run \in {"closed", "failed"} \/ ~signedIn \/ Signature = persisted)
=============================================================================
