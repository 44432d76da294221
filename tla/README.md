# TLA+ verification of clash-config-gen

clash-config-gen turns proxy nodes, rules and rulesets that a user edits in a
browser into a mihomo (Clash) subscription. Paths below are relative to the
repository root; `src/` is its Python source directory.

## 1. Inventory

### Parts, their state and how they interact

Two server processes run in one container (`src/start.sh`): a FastAPI
application (`src/api.py`, the V2 interface) and a Streamlit application
(`src/web_app.py`, the legacy interface). Both import the same service modules,
open the same SQLite file and write the same ruleset directory; nothing else
connects them. The browser runs `design/assets/app.js`, which keeps its own
copy of the draft.

| part | state it keeps | operations | talks to |
|---|---|---|---|
| Ruleset store (`ruleset_store.py`, ruleset handlers of `api.py`) | `users/<id>/alias--sha.ext`, `.pending/<id>/` markers, `.trash/` tombstones, `.locks/` | upload, delete, reserve, promote, cleanup, user delete, start-up recovery | storage (references), both processes through a thread lock plus flock |
| Drafts and publication (`api.py` put/validate/publish, `draft_service.py`, `web_app.py` persist/check/publish) | config row: draft columns, `final_yaml`, validation status, token | PUT, validate, publish, import, token reset | ruleset store, validator, builder |
| Draft client (`design/assets/app.js`) | draft in memory, dirty flag, generations, autosave timer, conflict and session flags | edit, autosave, validate, publish, logout, reload | API |
| Accounts (`storage.py`, `auth_service.py`, `auth.py`) | users, auth_sessions, audit log | register, login, logout, toggle, reset token, delete | every handler |
| Login and registration limits (`auth_service.py`) | failures per user and per IP in the audit table, registration window per IP | try login, register | accounts |
| Subscription (`api.py` `/sub`, `/ruleset/user`) | LRU cache of 32 bodies | fetch, HEAD, diagnostics | config row by token |
| Streamlit page (`web_app.py`, `ui/*.py`) | session state: nodes, options, editor, checked signature and YAML, persisted signature | rerun, import, edit, move, delete, restore, check, publish, automatic save | storage directly, validator |
| Builder (`config_builder.py`, `clash_meta_gen.py`, `config_defaults.py`) | none | build, validate structure | drafts |
| Import and nodes (`importers.py`, `node_builder.py`, `normalizer.py`) | none; during a download the guard's registered sockets, its timer and flags | download with a deadline, parse, tag, deduplicate, build, normalise | drafts |
| Validator (`mihomo_validator.py`) | geodata directory and its lock file | run mihomo with a timeout | validate, publish |
| Ruleset updater (`ruleset_updater.py`) | cached public rulesets | daily download | `/ruleset` |
| Storage schema (`storage.py` init, migrations) | SQLite schema, instance id | start-up | every part |
| Security helpers (`security.py`, `api_errors.py`, `diagnostics.py`) | none | URL checks, redaction, signed form tokens | handlers |

### What is hard here

* Two processes and many threads change one user's draft, publication and
  files; the references that decide whether a file is garbage live in SQLite
  while the files live on disk, so no transaction covers both.
* An upload is one request and the save that makes use of it is another; a
  publish in a second tab may run its cleanup in between.
* A request is authenticated before it waits for the lock. The account can be
  disabled or deleted while it waits.
* Any effect can be the last one before a crash or an exception; SQLite
  commits, renames, marker files and unlinks are separate effects.
* The browser saves on a timer while validate, publish and logout are in
  flight, and answers come back in another order than requests went out.
* Login limits are counted from an audit table that several requests read
  before any of them writes, and the limit per address is not covered by the
  lock of a name.
* A node has no identifier. An import, the building of a node and a save each
  wait for an answer while the user moves, deletes and edits nodes.
* Nodes are normalised at import, save, build, delivery and start-up; each pass
  works on what another pass left.
* Streamlit runs its whole script for every click, most buttons restart it half
  way, and a new click interrupts it.
* A download, a kernel run and a daily update each have a second actor: a timer
  that cuts connections, another process that wants the same geodata, a crash.

### What makes each part correct

* Ruleset store: referenced versions are never removed; an upload survives
  until its reservation ends; garbage does not accumulate; the quota holds;
  disabled or deleted accounts gain nothing; a deleted account's files go and a
  living account's files never do, also when the database is empty or the
  wrong volume is mounted.
* Drafts: `final_yaml` changes only by a publish that validated it; the draft
  the client believes saved is the one stored.
* Accounts: a session that was revoked never becomes valid again; disabling
  revokes; a registration that fails and is taken back leaves nothing.
* Limits: no more than the limit of failures passes within a window; what
  parallel logins of one address may add to it is bounded.
* Nodes and configurations: what is published loads in a client; what is stored
  is a fixed point of normalisation; an edit lands on the node it was made for.
* Streamlit: a check or a save stores as passed only what has passed, the YAML it
  publishes was checked, and a change it did not save is saved by a later run.
* Downloads: a body cut off by the deadline is never taken for a complete one,
  every download ends and leaks no socket; a served rule set is whole.
* Subscription: a cached body is never served for a newer configuration or for
  a reset token.

## 2. Modules

| module | models |
|---|---|
| `RulesetContract` | what the ruleset store promises about a version, without requests, locks, partial writes or crashes |
| `RulesetStore` | one user's files, markers, draft, publication and account row; the requests of both processes under the lifecycle lock; implements `RulesetContract` |
| `RulesetRecovery` | several users' directories across deletions, start-ups, restarts and databases |
| `DraftSync` | one browser tab's edits, autosave, validate and publish against the three draft handlers |
| `TabSession` | one tab's account, CSRF token and draft against a cookie that other tabs replace |
| `Accounts` | accounts, sessions and the login limit of a name, transaction by transaction |
| `LoginThrottle` | the failure limit of an address across the stripes of the login lock, and the window of registrations |
| `Subscription` | requests for a subscription link, their cache, and the changes of rows beside them |
| `Normalizer` | what normalisation makes of one node, on classes of field values |
| `ConfigBuilder` | rules, groups and profiles of a built configuration, and its structural checks |
| `DraftContents` | the nodes of a draft through imports, the node form, saves, publication, the Streamlit page and start-ups |
| `StreamlitSession` | one session of the Streamlit page, part by part of its script |
| `ExternalFetch` | one download of a remote subscription against its deadline timer |
| `MihomoValidator` | validations by several processes with shared geodata |
| `RulesetUpdater` | the daily worker that replaces public rule sets |
| `MCStoreAndLink`, `MCSignInAndSave`, `MCRecoveryAndPage`, `MCServerProgress` | instances of several of these modules (section 3) |
| `RulesetStoreProofs`, `RulesetRecoveryProofs`, `DraftSyncProofs`, `TabSessionProofs`, `SubscriptionProofs`, `DraftContentsProofs` | the proofs of the module each is named after |
| `AuthServiceProofs` | the proofs of `Accounts` and `LoginThrottle` |
| `ServerProgressProofs` | the proofs of `ExternalFetch`, `MihomoValidator`, `RulesetUpdater` and `StreamlitSession` |

Each module isolates one mechanism and takes the others by what they promise:
`RulesetRecovery` reduces an upload to the files it leaves, `DraftSync` takes a
draft handler as one step because `RulesetStore` shows that the lifecycle lock
makes it one, `DraftContents` has what drafts contain and takes the order of the
handlers from `DraftSync`, `Subscription` takes every change of a row as one
transaction. `RulesetStore` is shown to implement `RulesetContract` under the
mapping at its end: `stored` are the versions on disk (partial writes are none),
`named` those a draft or a readable publication names (all of them while the
publication cannot be read), and `reserved` those with a living marker.

### RulesetStore

One user is the general case: directories, marker directories and locks of
different users are disjoint (`_ruleset_user_dir`, `_ruleset_pending_user_dir`,
`_ruleset_user_lock`).

* `disk` is the directory `users/<id>`: versions (`Files`, whose names contain
  the hash of their content, so equal names mean equal content) and partial
  writes (`Temps`). `marker` is `.pending/<id>`: `active`, `expired` (still
  there, ignored by every reader) or `none`. `draft` and `published` are the
  versions named by the saved draft and by `final_yaml`; `readable` says
  whether the YAML parses, because an unreadable one keeps every file.
* `lock` is the thread lock and the flock taken together, and `req[p]` is where
  thread `p` is inside its handler. Each durable effect (an UPDATE, an unlink,
  `os.replace`, a marker write, a rename) is one action; what a handler
  computes between two effects happens with the effect that follows.
* `StepAfter` is the order of effects in each handler: PUT, validate, publish,
  upload and delete of the API, persist, check and publish of Streamlit, and
  the administrator's toggle and delete.
* `Fail(p)` is an exception before the next effect; `Crash` stops both
  processes, as `start.sh` does; `Expire(f)` is the reservation's TTL passing.

Abstractions: the byte quota has the shape of the count quota and only the
count is modelled; a marker sweep (a loop of unlinks) is one action, since a
crash inside the loop leaves markers that the next sweep removes; `rmtree` of a
tombstone is one action; the administrator who acts is assumed to stay one;
temporary files of the marker directory are not modelled; the request's
contents are chosen when the lock is granted, since nothing depends on them
earlier.

### RulesetRecovery

* `rows` and `used` are each database's accounts and the ids it gave out,
  `mounted` is the database in use; `dir[u]` is the set of databases whose
  account wrote files into `users/<u>`; `tomb`, `reserved`, `usersDir` and
  `marker` are `.trash`, `.pending`, the existence of `users` and
  `.db-instance-id`. Ids are handed out in order and never reused
  (AUTOINCREMENT), so the same id in two databases is what makes a wrong mount
  dangerous.
* A request is a start-up (`Boot`), a deletion or an upload. A recovery lists
  `.trash`, then the users, then `.pending`, each before it takes any lock, and
  then settles one item per action, so that everything may change between the
  listing and the item. `Fail` makes one operation fail; the loop of the code
  then goes on to the next item and reports it as pending.
* `Restart` ends both processes and may mount the other database; `Visit` is a
  page load of Streamlit that creates the first administrator, which the code
  runs beside the API's start-up.
* Abstractions: renames and `rmtree` are one effect each; symbolic links and
  unreadable directories are left out; the upload's quota, markers and
  temporary files are those of `RulesetStore`.

### DraftSync

* A draft is the number of the edit that produced it. The variables are those
  of `state` in `app.js` with their names: `dirty`, `saved`, `timer`, `chain`
  (the unsettled part of `saveSequence`), `saveError`, `valid`
  (`validatedGeneration`), and `flow`, the point at which the save button,
  validate and publish wait.
* Everything the page does between two events of its event loop is one action.
  The PUT at the head of the chain, a validation and a publication are three
  requests that the server may run in any order. A request may fail, or lose
  its connection before or after the server ran it; a lost one may still be run
  later (`abandoned`).
* Abstractions: the contents of a draft (`DraftContents`), other tabs and a reload.

### TabSession

* `tab` holds the variables of the page that depend on the login, `reqs` the
  requests under way. A request that gets 401 or 403 asks `/api/session` and is
  sent again (`Denied`, `Refreshed`), which may meet another account, none, or
  one that another request's refresh has already installed.
* Other tabs log in and out and expire sessions and tokens as actions of their
  own. A draft is the account whose data it holds, which is all that crossing
  accounts is about.
* The account on the page changes in three ways: a refresh that finds another
  account than `state.user` empties the page (`AccountChanged`), a login empties it
  if it knows that another account's session was lost there (`expired`), and a
  refresh that finds any account where the page has none keeps the page. A lost
  session takes the page from the first way to one of the others (`SignedOut`).

### Accounts

* Every SQLite transaction is an action: checking a password, counting
  failures, recording one, inserting the session, inserting a user, removing it
  again when a registration fails. The administrator toggles and deletes
  between any two of them.
* Sessions that worked once and then did not are remembered in `ended`. A
  failed transaction (`Fail`) takes the exception path of the handler.
* Abstractions: time is left out, so the oldest failure of a name may leave the
  window at any moment (`FailureAges`); passwords are right or wrong; the limits
  per address are in `LoginThrottle`.

### Subscription

* `row` is an account joined with its configuration row, `cache` the
  `OrderedDict` from least to most recently used, `req[p]` a thread between
  reading the row, looking up the cache and building the body. `seen[p]` is a
  history variable: the answers that were right for the token at some moment
  since the request came.
* `AnswerFor` is the outcome of a row: 409 without a YAML or when a YAML lacks
  MATCH although the row's rule type demands it, otherwise the YAML with the
  URLs of private rulesets rewritten to the row's token. Everything else that
  the handler computes is a function of the YAML.
* Publishing through Streamlit stores the YAML built for the last check, whose
  URLs may carry an earlier token; `Publish` contains it.

### LoginThrottle

* The rows of the audit table are counted per name (`rows`, and `counted` since
  the last success); `stripeLock` is the array of stripes and `login[p]` a
  thread inside `_try_login`. Counting, checking the password and recording the outcome
  are three steps, as they are three transactions; the address limit sums over
  all names, while the lock covers the names of one stripe.
* `attempts` and `keys` are the `OrderedDict` of one process. `Register` is one
  step because the function holds its lock throughout, but the clock it uses was
  read before the lock was free. `admitted` is a history
  variable with the admissions of an address since it has a key: an address that
  was evicted starts again, as in the code.

### Normalizer, ConfigBuilder, DraftContents

* A field of a node is the class of its value, as far as a step of the system
  tells values apart: a port is a number, digits, missing or bad; a server is a
  host or a host in one of the wrappings that imported files use. A list inside
  the text of a list would need another pass and is not a class.
* `ConfigBuilder` has each kind of rule set, rule and group of the program and
  some of its members; `BuildRules` keeps the order of the code (the user's
  rules, rule providers placed first, base rules, other rule providers, one
  MATCH rule). The YAML text is left out.
* In `DraftContents` the page's list, its form and its requests are those of
  `app.js`. Since a node has no identifier, `form.ref` is the place of the object
  the form was opened for, 0 when the object is gone; `Follow` says what each
  change of the list does to it, and `Locate` is `locateFormNode`. Validate,
  publish and the import handler are one step each, a save is two.
* An unusual node that an older version stored is there from the start
  (`InitPage`) and is then only validated, published and restarted; a user who
  edits starts from the nodes of `RawNodes`.
* `Picked(s, S)` takes the elements of `s` at the places of `S` in order, and
  `Nth` is the place of a rank; both are defined by counting, since an operator
  that is an argument (`SelectSeq`) cannot be reasoned about by the provers here.

### StreamlitSession

* `run` is the part of the script that the current run is in. `Interact`
  interrupts the run, takes the values of the sidebar and starts again with the
  pressed button; it may press only what the last page that was drawn completely
  offers (`Offered`). `Rerun` is `st.rerun()`, which leaves the tail and its save
  out.
* A button that a run draws disabled still reports the press that started the run,
  so a check of an empty draft and a publication of a changed one take place.
  `Publish` stores the draft as it is at that moment and the YAML that the last
  check left; when no YAML is left, reading it raises and the run ends in an error
  before its tail (`PublishRaises`, `failed`), until the next interaction.
* `V2` stands for saves, validations and publications of the other interface,
  `Disable` for the administrator.
* The check is assumed to refuse duplicate names, as mihomo does when it is
  enabled.

### ExternalFetch, MihomoValidator, RulesetUpdater

* `ExternalFetch` has two threads. Each access to the guard's fields under its
  lock, each descriptor that is opened, shut down or closed and each read is a
  step; `conn` numbers connections and `cut` holds those that were shut down. A
  read may deliver, end, fail or stall; a connection that was shut down may look
  to the reader as if the body had ended (`truncated`).
* `MihomoValidator`: the kernel is external. It downloads what its
  configuration needs and its directory lacks, and is then accepted, rejected,
  killed by the timeout, or could not be run. What it downloaded appears in the
  shared directory at the end of its run, in one step: that the look without the
  lock may find a file which is half written is outside the model. The failing
  `mkdtemp` leaves the configuration's temporary file behind (`raised`), since it
  stands before the `try`; `TemporariesRemoved` is about the other validations.
* `RulesetUpdater`: callers race for the start of the worker; a download, the
  partial file, the replacement and the removal after a failure are steps, and a
  crash may come between any two. The cache directory is assumed to exist.

## 3. Runs

Every run is exhaustive within its bounds.

| run | question | bounds | states, time |
|---|---|---|---|
| `store_and_link` | can any interleaving, failure, crash or expiry lose a version that is needed, leave garbage, pass the quota or write to a disabled account; does the store implement its contract? Can an answer of the link be stale? | store: 3 versions, 2 temporary names, 2 processes, quota 2; link: 1 account, 2 configurations, 2 tokens, 2 threads, cache of 2, 4 changes | 598,000, 1.5 min |
| `sign_in_and_save` | can sessions revive, a registration that was taken back leave something, or parallel logins and registrations pass a limit by more than the bound; is the login lock released on every path? Can a late answer validate or save a newer edit, or publish a draft nobody checked; is every edit saved or its failure shown, and does every button work again? | accounts: 3 ids, 1 name, 2 tokens, 2 threads, limit 2, 1 failure; limits: 3 threads, 2 stripes, limits 2, 2 addresses, 1 key, clock 3; page: 3 buttons, 2 edits, 1 failure | 587,000, 2.2 min |
| `recovery_and_page` | do recoveries, deletions and uploads keep what living accounts own and clear the rest, across restarts on either database? Can the page's token be another account's, a published configuration fail to load, stored nodes change by themselves, or an edit hit another node? | recovery: 2 ids, 2 databases, 2 threads, 2 tombstones, 2 restarts, 1 failure; tab: 2 accounts, 2 logins, 2 edits, 2 requests; draft: 3 nodes, 3 events | 1,779,000, 1.8 min |
| `server_progress` | does every request, download, worker and rerun end with its locks, sockets and temporary files released, and is what it stored, served or returned whole and checked? | store: 1 version, 2 processes, quota 2; fetch: 3 addresses, 1 redirect, 1 chunk; 2 validations, 1 database; 2 callers, 2 rule sets, 1 crash; Streamlit: 2 nodes, 4 interactions | 103,000, 1.5 min |

Each of these checks several modules that share no state. Their MC modules choose
the module a behaviour follows at the start (`part`) and let the others rest, so
the instance has the sum of the states and not the product; no step of one module
could change what a property of another reads. They extend the modules they check,
so that each property is the very definition a theorem is about; hence the
specifications of most of these modules have names of their own (`SpecSync`,
`SpecLink`, `SpecTab`, `SpecFetch`, with `InitSync`, `NextSync` and so on), and the
store of `server_progress`, whose names would clash, is an instance. Parts that use
the same model values are never at work in the same behaviour: in `store_and_link`
the threads of both parts, in `recovery_and_page` the accounts of the tab and the
names of tombstones. A permutation of the values is therefore a symmetry of
whichever part runs.

Bounds. In `store_and_link` three versions are one named by the draft, one by the
publication and one reserved, with a quota of two so that uploads are refused;
two temporary names let a second crashed upload leave a second partial write.
Two threads are a holder and a waiter, two recoveries, or two logins that both
find one failure below the limit; a third adds a further waiter. Two databases
and two restarts are a wrong mount and the way back. Two
edits after the loaded draft are one under way and one newer (three edits with
safety alone, 2.7 million states, show nothing else, nor do four edits for
`SavesAloneLoseNothing`, 16.5 million states). In `TabSession` two logins
are the session of the page and one that takes its place, of the other account or of
the same (a third, by which the first account returns, adds 1.3 million states and
shows nothing else); two parallel requests are one that refreshes and one that meets
the refreshed session. The cache of two
overflows with three keys, which two tokens, two configurations and two rule
types give. In `LoginThrottle` three threads and two stripes are two logins of
one name and one of another, a table of one key is full with the second address,
and the clock passes the window. In `DraftContents` three steps of the user with
answers, saves and restarts between them are an edit under way and two changes of
the list, and three nodes let one stand on either side of the edited one. One
redirect gives a connection that is replaced by another, and a body of one chunk
is complete, short or too long. Four interactions of Streamlit are an edit, its
interruption, a check and a publication or a save of the other interface.

Deadlock is checked where a part may not stop: the page of `sign_in_and_save`
must have a step in every state, and the store of `store_and_link` too, though
there `Crash` is always possible and the check says little. Their other parts, and
all parts of the remaining runs, end where names, tokens, requests, interactions
or the clock of the instance run out, or where a fetch has ended: they are allowed
to stutter, or the cfg says `CHECK_DEADLOCK FALSE`.

Fairness. `RulesetStore` and `Accounts`: a thread inside a critical section
keeps running (`WF_vars(Step(p))`), as it waits only for file and database I/O
and for mihomo, whose run has a timeout. Nothing is assumed of the order in
which locks are granted: `flock` and `threading.Lock` are not FIFO, so a waiter
may starve and no property says otherwise. `MihomoValidator`: a validation keeps
running, for the same reasons. `DraftSync`: the debounce timer fires, the server
answers and the page handles answers; edits, buttons, failures and lost
connections owe nothing. `ExternalFetch`: the clock and the timer thread run, the
fetching thread runs its own statements, and a read of a connection that was shut
down returns; a server owes nothing, so a read of any other connection may stall
for ever. `RulesetUpdater`: threads run, a request of the worker has a timeout
and a sleep ends. `StreamlitSession`: a run that no interaction interrupts
reaches the end of the script; the user owes nothing. The other modules state
safety only.

### Where code and documentation disagree

These runs each find a behaviour that a document, comment or test rules out.

| run | what the code does |
|---|---|
| `draft_sync_lost` | validate and publish store the draft they carry; handled after the save of a newer edit they put the older one back, and the page shows everything saved |
| `tab_session_cross` | a save queued behind one that meets a change of account is sent with the new account's cookie and token, so one account's draft is stored in the other |
| `accounts_disable` | a login that was checked before its account is disabled inserts a live session afterwards, which works once the account is enabled again |
| `recovery_foreign` | a directory that no recovery has marked is claimed by whichever database starts next, and its recovery deletes the other database's files |
| `tab_session_switch` | a refresh that finds another account, after one that found none, keeps the page: the new account's page shows the old account's draft |
| `subscription_draft` | draft and publication share the column of the rule type: saving a draft can turn a working link into an error 409 |
| `draft_consent` | a stored draft that does not load is shown as an empty one; pressing validate stores the empty one over it without the question that every edit asks |
| `streamlit_publish` | a publish press that arrives together with a changed widget stores the changed, unchecked draft as passed, beside the YAML of the earlier check |

More differences are behaviours of the modules above without a run of their
own. A version that a save drops from the draft does not wait for the next
publication, as `README.md:316` and `design/assets/app.js:2055` say: every
upload runs the same cleanup first (`src/api.py:1335`, the `upload` order of
`StepAfter`). And a Streamlit page load (`Visit`) may create the administrator
of an empty database before the API looks for accounts (`src/api.py:181`), whose
start-up then runs the recovery that the comment at `src/api.py:179` and
`tests/test_api_hardening.py:267` want skipped. In the Streamlit page the editor
of a node is an index: when a card above it is removed, saving the editor
overwrites the node that took its place (`Delete` and `SaveEdit` of
`StreamlitSession`, `src/ui/node_view.py:112`), whereas a move closes the
editor; no document says which is meant. Every draft has `is_desktop` set, and
that switch decides before `generation_profile` is looked at, so no draft reaches
the minimal profile that `src/config_defaults.py:232` offers (`Profile` of
`ConfigBuilder`).

`SwitchLeavesNoData` has two ways to fail, and `tab_session_switch` stops at the
shorter one. `refreshSession` compares the account it finds with `state.user`,
which a refresh without a session has set to null (`design/assets/app.js:315`,
`328`), so of two requests under way the first may lose the session and the second
install another account on the old page; `design/assets/app.js:316` wants the page
emptied. The other is the login layer: a load that is refused twice covers the page
without noting whose page it was (`design/assets/app.js:1103`), so that a login as
another account keeps it, against the comment at `design/assets/app.js:983`. TLC
finds this one from five logins with three requests on. Whose token the page then
holds is not in doubt (`TokenOfUser`).

## 4. Proofs

The proofs hold for every value of the constants that satisfies the named
assumptions.

### RulesetStore

`RulesetStoreProofs` proves, for every set of versions, processes and
temporary names and every quota, the type invariant and all safety properties
that `store_and_link` checks of the store. The inductive invariant is
`IInv == TypeOK /\ LockProtects`. `LockProtects` is needed because each
property is about a value read earlier: that nothing an `unlink` is about to
remove is referenced is true only because, from the moment the cleanup listed
the directory, every other process has been outside its critical section.
`OthersUnaffected` is that argument: a step of the holder leaves every other
process's part of the invariant alone. The quota needs in addition that the
directory is finite and that the partial write of an upload is on disk
(`QuotaStep`). Each action property then follows from one step taken in a
state that satisfies `IInv`.

Assumptions: the sets of versions, temporaries and processes do not overlap,
the quota is a natural number, and temporary names do not run out before the
quota does.

`Refinement` proves the implementation of `RulesetContract`: every step of the
store is a step of the contract or leaves its variables alone. Two effects are
the interesting ones. A save names versions and a promotion gives reservations up
afterwards, so between the two a version is named and reserved and never
neither. And a cleanup removes a version only if what it read under the lock
still holds, which is `LockProtects` again.

### RulesetRecovery

`RulesetRecoveryProofs` proves the type invariant, `LivingKeepFiles`,
`ClaimedFilesKept` and `RecoveryReclaims` for any number of accounts, databases,
threads, restarts and failures. The invariant of the first three is
`IInv == Requests /\ Database /\ Disk /\ Bounds /\ Names /\ Owned /\ Gone`. The
first four are types together with the fact that a thread in its critical section
holds the lock of its user. `Names` says that the tombstone a thread has listed is
still of the account its name gives, or gone, since names are not reused while
their directory exists. `Owned` says that files belong to ids their database has
given out. `Gone` is the core: a thread that is about to move a directory has
seen, under the lock, that the account has no row or no files there, and neither
can change until it releases the lock; and a thread in the loop over orphans works
in the database that owns the marker, which is what protects the files of another
one. Both action properties follow from one step taken in a state of `IInv`.

`RecoveryReclaims` needs to know what a recovery has still to see (`ScopeInv`).
For an account that was gone when it began, `LeftOver` follows it through its
three loops: until the first is over each tombstone of the account is listed or in
hand, afterwards the only one there is the one the thread has just made itself;
the directory is listed or in hand until the second is over; the reservation until
the third is. It also says why others do not disturb this: as long as an account
is in a recovery's scope nobody else holds its lock (`ScopesLocked`), only the
holder of its lock leaves anything of it anew (`Untouched`), and ids are never
given out again (`ScopesGone`). A recovery that has put something off promises
nothing more.

### Subscription

`SubscriptionProofs` proves the type invariant, `AnswersAreCurrent` and
`CacheIsSound` for any number of accounts, configurations, tokens and threads
and any size of the cache. Two strengthenings are needed. `CacheIsChecked`: a
cached key passed the MATCH check, so a hit may skip it, which is sound because
the rule type is part of the key. `Current`: what a thread has read was right at
some moment since its request came, from the row (`read`), through the
configuration it holds (`lookup`, `build`), to its answer. The cache needs lemmas
about its operations: moving an entry to the end is a permutation of positions
(`MoveFacts`), and replacing, appending and trimming keep one sound body per
key.

### DraftSync

`DraftSyncProofs` proves `ValidationIsCurrent`, `PublishedWasChecked` and
`SavesAloneLoseNothing` for any number of edits and failures and any set of
buttons. The invariant `DInv` of the first two adds what each caller of
`flushDraftSave` may rely on (`Honest`): a publication that has been sent, or run,
carries a checked draft, and a validation found valid carries what is now checked.
A publication whose connection broke keeps that promise in `abandoned`. The page's
bookkeeping is a chain of functions on `[chain, flow]`, so each of them has a
lemma that it keeps callers honest (`ProceedSound`, `QueueSound`, `AwaitSound`,
`SettleSound`), and an action that installs their result cites those. `Proceed` is
the step that matters: it sends a publication only while the page's validation is
of the draft it sends.

`SavesAloneLoseNothing` is harder, because a publication also marks its draft as
saved when its answer comes, while saves may still be queued. What excludes that
an older one is among them is `SavesInv`. `InOrder`: drafts are saved in the order
of their edits, and once the newest is saved no older one is queued. `Standing`: a
caller in a flush waits for the save of its own draft, one at its tail for a saved
draft with only newer ones behind. `Overtakes`: a publication at its tail waits no
longer than the validation does; so a validation of the newest draft that lets it
go out either comes after all older saves or too late. While the head of the queue
settles, callers are told one after the other; the invariant is therefore stated
with the set `R` of those that have not been told yet (`Place`), and each of them
is a step of the proof (`SettleKeeps`, `SettleAllKeeps`). `Stores` ties the queue
to what the server holds.

### TabSession

`TabSessionProofs` proves `TokenOfUser`, `SavesOneAtATime`
and the types of `TabSession` for any accounts and any number of logins, edits and
requests. `TabInv` has three parts: what the server has (`ServerOK`), that the
token of the page is one of an existing session of the account shown (`PageOK`),
and that requests know only sessions that exist, are of no later epoch than the
page, and among the saves of one login all but the first still wait (`RequestsOK`,
`OneSave`). The parts are told of any page and any requests, because a step of the
code passes through several of them: a refresh installs a session, ends the flows
of the old account, empties the page and sends what waits.

### Accounts and LoginThrottle

`AuthServiceProofs` proves for any accounts, names, tokens, threads and limits:
`EndedStaysEnded`, `FailuresWithinLimit`, `FailedRegistrationLeavesNothing`, and
with them `NamesAreUnique` and `LiveSessionsHaveAccounts`, which the code checks in
one transaction and the schema guarantees in the next. `AccountsInv` consists of
what a thread's place implies (`Place`), that who is past the test of the limit
found the count below it and the lock has kept it there (`BelowLimit`), and that
every session in the history has ended (`HistoryEnded`).

The bound on an address, `AddressOvershootIsBounded`, is a count: the logins that
passed the test and have not recorded their outcome hold different stripes
(`OnePerStripe`), the test found the failures below the limit, and the sum of
failures and such logins grows only by a test (`AddressInv`). For
`RegistrationsWithinLimit` the times kept for an address are the last of those at
which it was admitted, all before them having left the window (`RegisterInv`);
since the clock is read before the lock is taken, a call may see a time older than
the newest one in the table, and the lemmas about suffixes have to allow for it.
Both are for any limits, window and table size that `ThrottleAssumption` allows,
and so are the types of the rest of the state (`ThrottleTypes`).

### ExternalFetch, MihomoValidator, RulesetUpdater, StreamlitSession

`ServerProgressProofs` treats these four.

* `ExternalFetch`: `ReturnedBodyIsComplete` and `NoDuplicateLeaks` for any
  addresses and any number of redirects and chunks. `Deadlines` says that nothing
  is cut before the deadline has passed, so a body that a cut ended comes too late
  for the last test of the deadline. `Descriptors` names, for every open
  duplicate, who will close it: the list of registered sockets, the copy of that
  list on which `close()` works, or the thread that has made the duplicate and not
  registered it yet. The types follow separately (`FetchTypesHold`).
* `MihomoValidator`: `DownloadsDoNotOverlap`, `TimeForDownloads` and
  `TemporariesRemoved` for any requests and geodata files, under
  `ValidatorAssumption` (the mark of a free lock is not a request). `Known` is what
  a request may conclude from its looks: geodata is never removed, so what it found
  present stays present; what it found missing under the lock stays missing until
  it downloads it, since only the holder of the lock downloads. The second half is
  lost when the lock file cannot be opened, and the first two properties say so.
  `Tidy`: a request that is not between `Begin` and `Clean` has no temporary file.
* `RulesetUpdater`: `ServedRulesetsAreWhole`, and that a process never runs two
  update threads, for any number of processes, callers and files. `UInv` says that
  a file about to replace a served one is whole, and that no thread runs before
  the start was noted.
* `StreamlitSession`: `PublishedYamlPassed` and `StatusIsEarned` for any names,
  configurations and bounds. `SInv` is what makes them inductive: the YAML that a
  check left in the session is that of a draft that passed (`CheckedYamlPassed`),
  and so is the one in the row. It says nothing of the draft at the moment of a
  publication, since `Publish` does not look at it; `StatusIsEarned` therefore
  excepts that button, and `streamlit_publish` shows what the exception is about.

### DraftContents

`DraftContentsProofs` proves `StoredIsNormal`, `PublishedLoads` and
`EditHitsItsNode` for any bound on nodes and steps. That normalisation is a fixed
point is a case analysis over the classes of field values: what one pass leaves no
later pass changes. The rest is about sequences: taking elements at places
(`Picked`) keeps their order and what held of each of them, names stay unique
through imports and edits, and the groups and rules built from them name only what
exists. `ContentsInv` adds to the two invariants what the page, its form and the
save under way contain (`PageInv`). Induction, which the provers do not have for
operators of one's own, is used in one form only: a set of numbers that is not
empty has a least element (`LeastNatural`), from which the place of a rank
(`NthIsThere`) and with it every fact about `Picked` follows.

### Only model-checked

The liveness properties `LocksReleased`, `LoginLockReleased`, `FetchEnds`,
`EveryRulesetIsTriedAgain`, `ChangesAreSaved`, `EditsAreSavedOrReported` and
`FlowsEnd` are out of reach of the prover, which has no rule for fairness, and
stay with TLC. Every safety invariant and every action property of a passing run
is proved.

Some definitions are stated in the modules and are not the question of a run:
the type invariants of the modules but the store's, `LockProtects` and
`ReservationHandover` of the store, `LiveSessionsHaveAccounts` and
`NamesAreUnique` of `Accounts`, and `TimeForDownloads` of `MihomoValidator`. All
but one are proved: `TypeOKSync` of `DraftSync` is only stated, because its bound on
the length of the queue counts the edits and buttons of the instance; what the
queue holds is part of `SavesInv`. `StreamlitSession` and `DraftContents` state no
type invariant of their own; their inductive invariants contain what is needed.

## 5. Not modelled

Diagnostics, redaction, URL checks, signed form tokens, markup, styles and the
QR encoder keep no state and take no part in the properties above. Of the parts
that are modelled, these are left out:

* the text formats of share links, YAML and subscriptions (`importers.py`): a
  batch of nodes is what an import found in them;
* fields of protocols that no step tells apart, the values of DNS, TUN and port
  options, and most of the tables of rules and groups;
* import sources beyond their node counts, notes, statistics and wording;
* two browser tabs on one draft (the last save wins, as the documentation says),
  and a page reload in the middle of a save;
* the creation of tables and columns, and the old default of the rule type.

## 6. Plan

1. Done: all modules of section 2, the refinement of `RulesetContract`, and the
   proofs of section 4.
2. Proofs to come: the types of `DraftSync` with a bound on the queue that holds
   for any instance, and for the liveness properties the safety half of their
   arguments: that a thread that holds a lock always has a step to take.
