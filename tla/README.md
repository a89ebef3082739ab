# Verification of moodle-services

TLA+ models, TLC configurations and machine-checked proofs for the parts of
`moodle-services` that keep state or decide something: the study pipeline and
its store, the files of a course, the Codex runner, the linking of accounts and
the OAuth server, the Webex recordings, and the command line with its sessions,
updates, exports, OCR engines and terminal interface, and the PDF viewer of the
ChatGPT widget. Paths below are relative
to the repository.

`PROJECT.json` is the index: components, runs, mutants (one for every property
of a run), the map from definitions to source lines, hazards and theorems.

## 1. Inventory

| component | state | operations | what is hard | what makes it correct |
|---|---|---|---|---|
| Study-pipeline store, `internal/store/study_pipeline*.go` | tables of runs, active selections, audit events | record, select, publish, unpublish, list | READ COMMITTED transactions that overlap, row locks, half-done publications, lost acknowledgements | a selection names a recorded run of its course and stage; the audit log tells the truth; unpublishing takes back nothing but the run it names |
| Review workflow, `internal/store/study_pipeline_review.go` | feedback, proposals, audit events | record, submit, moderate, list | statuses set without a look at the earlier one, events listed by the time their transactions began, a listing is three queries and ends after a hundred events | the trail tells where a row stands |
| Stage and plan handlers, `internal/api/router.go`, `study_pipeline_recording.go`, `api/materials.go`, `pkg/moodleservices/study_pipeline.go` | a plan and its steps; runs in the store | run a stage, run a plan from a stage, record | a stage or its recording fails, the process dies between stages, handlers and reviewers overlap | response and database tell one story; nothing is built on a stage that failed |
| Accountability, `pkg/studypipeline/accountability.go` | none | decide every element, checklist, outcome | the same decision is taken in three places | the three agree |
| Artifacts of a course, `pkg/studypipeline/artifacts.go`, `extracted_documents.go` | a tree of files | the four stages, readers of script, tasks and documents, refinement | no lock; readers rebuild files; `RemoveAll` against writers; crash between truncation and write | files are whole when nobody works; curations ask for review for a reason; readers get all there is |
| Pairing and inventory, `pkg/studypipeline/pipeline.go`, `inventory.go` | none between calls | classify, group, link, pair | two passes over one listing, each with its own rule and its own set of used solutions | a solution is given away once; a task goes without only if none was left |
| Task state, `pkg/studypipeline/artifacts.go` | one JSON file per course | answer a task, set its status, chat | read, change, write back without a lock | an acknowledged update is lost only for a cause that can be named |
| Codex runner, chat, device sign-in, `pkg/studypipeline/codex_*.go`, `artifacts.go` 1128-1490, `api/codex.go` | a directory per user, the claims of sign-ins | run, chat, list models, sign in and out | a shared output file, a claim released by whoever ends, killed clients whose containers go on | an answer belongs to its question; one sign-in per user |
| Codex app-server client, `internal/moodle/codex_app_server.go`, `pdf_vision.go` | channel of messages, collected text | call, notify, collect a turn | a call drops messages it does not wait for; a blocked reader | the text of a page is what the server told last |
| Codex state, `pkg/codexstate`, `internal/store/codex_state.go`, `admin.go` | table of snapshots, quota columns | save and prune, latest, change a quota | concurrent saves, quota read before the transaction, commits whose answer is lost | the newest snapshot survives, and only overlapping saves exceed the quota |
| Account linking, mobile bridge, API keys, `api/auth_qr_exchange.go`, `api/keys.go`, `internal/store/postgres.go`, `mobile_bridge.go` | users, accounts, keys, bridges | link, start, poll and complete a bridge, restore, issue, replace and revoke keys, renew a session | lookups before locks, `now()` at a transaction's start, retried completions | a user is served with the session of the account the row names; a bridge is settled once |
| OAuth server, `api/oauth.go`, `internal/store/oauth.go` | codes, access and refresh tokens | authorize, exchange, refresh | overlapping refreshes, revocation whose error is ignored, lost answers | one chain of tokens per code, owned by one client, conserved |
| Webex recordings, `internal/moodleservice/webex_*.go`, `api/courses.go`, `api/keys.go` | stored session and credentials, cached listing | list, refresh, renew, sign in with credentials | a walk through a dozen pages of two systems, a session that ends on the way, requests that store one row | nothing partial is cached; only what has worked is stored; one login per request |
| Sessions of the command line, `internal/cli/auth.go`, `login.go`, `mobile.go`, `internal/moodle/session.go` | two session files | load, validate, log in, renew, fall back | processes that share the files, files written in place | a command gives up only for cause |
| Self-update, `internal/update`, `internal/cli/update*.go` | the program file, a state file | check once a day, install | interrupted and overlapping replacement | the program is only replaced by a whole release that supersedes the one at work |
| Export, `internal/cli/export_*.go` | folders on Drive, indexes and pointers, an archive | export semesters, courses, materials | requests fail after they had their effect, or succeed without it, a command dies before the index is written, files overwritten in place | what is called complete is whole |
| Terminal interface and navigation, `internal/cli/tui.go`, `nav*.go` | the loop's model, caches of the service | every key, every command's result | results that arrive after the selection moved | the selection is visible and is what its path names |
| Current lecture and selectors, `internal/cli/current_lecture.go`, `resolve.go` | none | find the lecture, its course, its material | ties, dates that cannot be read | (operators the terminal's tree is built from) |
| OCR engines, `internal/ocr` | directories | run one engine or all | failures on the way, directories shared or removed | what is left, and what is reported, belongs to the command |
| PDF viewer of the ChatGPT widget and what the MCP server keeps of it, `apps/chatgpt-widget`, `pkg/chatgptapp/mcp.go` | React state and refs of a viewer, a timer, a map of views | show, scroll, zoom, search, select, report, tell | effects that see an older render, a late timer, reports that overtake each other, refs that outlive a document | what is told was seen; a selection goes with its document; one scroll per target |
| Moodle client, mobile launch and QR, service facade, the other MCP tools, lists, printing, local server, routing, keys and encryption, settings, contracts, packaging | none, or one row or map | requests, parsing, wiring | input and output | see 6 |

How they interact. A plan handler calls `RunStage`, which reads and writes the
artifact tree, and records what it returned with the store; the store is the
only thing handlers, reviewers and the CLI share besides the tree. `RunStage`
pairs the resources of the course and asks Accountability whether a curation is
complete. Readers (script, task view, documents) run the same curation code as
the curated stage; refinement calls the Codex runner. The hosted functions open
the store on each request and authenticate with the keys and tokens that
account linking and the OAuth server issue; the Webex session is a column of
the account rows. Codex state is posted by clients and kept per user. Every
command of the CLI begins with the update check and most with the session; the
terminal interface is one process with many goroutines. Nothing but
PostgreSQL's row locks and constraints, the mutex of the device sign-in and the
one of the PDF views orders any two requests, and nothing orders two processes
of the command line.

## 2. Modules

| module | models | checked by |
|---|---|---|
| `RunRegister` | abstract specification: what the store promises, every call one step | refinement in `RunStore` |
| `RunStore` | the store's transactions, statement by statement | TLC, TLAPS |
| `Accountability` | the decisions, checklist, completion error and outcome, as pure operators | through `StagePlan`, TLAPS |
| `StagePlan` | the stage and plan handlers; composed of `Accountability` and an instance of `RunRegister` | TLC, TLAPS |
| `Review` | feedback, proposals, their moderation and listing | TLAPS |
| `ArtifactTree` | the files of one course and all the handlers that touch them | TLC, TLAPS |
| `Pairing` | kinds and buckets of resources, the plan's links and the inventory's pairs | TLAPS |
| `TaskState` | the task state file and its handlers | TLC, TLAPS |
| `CodexRunner` | one user's chats, refinements, catalog, logout and sign-ins | TLC, TLAPS |
| `AppServer` | the caller, the reader and the child process behind the pages of a document | TLC, TLAPS |
| `CodexStateQuota` | saving and pruning of snapshots | TLC, TLAPS |
| `AccountLinking` | users, accounts, keys, bridges | TLC, TLAPS |
| `OAuthGrants` | codes and token chains | TLC, TLAPS |
| `Webex` | the listing of recordings, its cache, the renewal of the session | TLAPS |
| `Commands`, `Session`, `Update`, `Cli` | what commands have in common, their sessions, the update; `Cli` composes them | TLC, TLAPS |
| `Export` | the export to Drive, the workspace and the archive | TLC, TLAPS |
| `CurrentLecture`, `NavTree`, `Terminal` | the current lecture and selectors, the tree made of them, the interface over the tree | TLC, TLAPS |
| `Ocr` | a command's directories, engines and results | TLAPS |
| `PdfViewer` | viewers of PDFs, their reports, and the views servers keep | TLAPS |
| `RunStore_proofs`, `StagePlan_proofs`, `Frontends_proofs`, `Tasks_proofs`, `Codex_proofs`, `Accounts_proofs`, `Pages_proofs`, `Cli_proofs` | the inductive invariants and theorems of the above | TLAPS |
| `MC*` | small instances | TLC |

### RunStore
One request is one call of the store. `RecordBegin` is `BeginTx` and the insert
of the run, `Upsert` is `upsertActiveStudyPipelineRun` (which takes the row's
lock), the `...Commit` actions are the commits. Selecting and publishing read
the run outside the transaction (`ReadTarget`), publishing commits the selection
and then inserts the audit row on its own (`PublishSelectCommit`,
`PublishAudit`), unpublishing deletes and audits in one transaction. `Abort` is
every failing statement with the deferred rollback; the reply `lost` is a commit
whose acknowledgement did not arrive. A run is named by the request that
inserted it, as ids are fresh UUIDs. `clock`/`created` is `created_at default
now()`, which is the time the transaction began. `ended` and `applied` are
history variables. The statements' payload and the rows of resources, links and
summaries that the same transaction writes are left out.

### StagePlan
`Accept` validates and queues, `StageFails`/`StageResponds` are the two ways
`RunStage` returns, `RecordDone`/`RecordFails`/`RecordSkipped` are the three ways
recording ends together with what the loop does next, `Crash` is the end of
a process. The stage endpoint is a plan with one stage. The handlers see the
store only through `RunRegister`'s actions: this is what the refinement in
`RunStore` licenses. `Review` lets reviewers select and unpublish at any time.

### Review
A moderation is a transaction (update, audit, commit) that holds its row, the
other writes are single statements, a listing reads feedback, proposals and
events one after the other without a snapshot. No statement looks at the
earlier status. `clock` is the database's and does not run backwards: an event has the
time its transaction began (`began`), and `Publish` puts the events of publications, which
share the table, at any time so far. A listing takes the latest events (`Latest`), those of
one instant in any order, up to `Limit`, which is 100. `ended` is a history variable.

### ArtifactTree
A request is the list of the file operations still to be done (`todo`). Each is
one action, and puts what it leads to before the rest of the list (`StepTo`); a file is opened (and truncated) in one step and written in another, a
directory is emptied in one and removed in the next, so that the rebuilds of
concurrent readers interleave as `os.WriteFile`, `os.RemoveAll` and
`os.MkdirAll` do. A file is absent, truncated, a mixture of two writers or whole;
its content is, for each material, the version shown and whether the wording is
still the extracted one. `Fails` and `Crash` end a request anywhere.

### Pairing
A resource is what the code can tell of it: the markers its texts contain, its
number, section and kind of file. `linkTasks` and `buildInventoryTaskGroups`
are passes over the two sorted listings, one step per resource.

### TaskState
`Load`, `Open` (the change, and the truncation), `Save`. The error of reading is ignored, as
in the code, so that a torn file counts as an empty one.

### CodexRunner
A call opens the files of its prefix and model, starts a container, waits,
reads its answer back, each in a step of its own. A context that ends kills the
docker client only: the container may still write (`external`). A sign-in holds
a claim that lapses after a time; the goroutine that waits for it releases
whatever claim the user has.

### AppServer
The server answers a request and tells of its turn in any order, sends messages of
no turn, refuses, falls silent or dies. `wire` is the pipe, `channel` the
bounded Go channel between the reader goroutine and the caller. A call takes
messages until the answer to its own request and drops the rest; `collect` takes
them until the turn is completed.

### CodexStateQuota
`ReadQuota` is the handler before its transaction, `Insert`, `Prune`, `Commit`
the transaction under READ COMMITTED, `UpdateAdminUser` the admin's change. What
each save posts, its size and kind, is chosen in `QuotaInit`. The reply `lost` is an error
to the client over a commit that took effect. `earlier` is a history variable: the rows
that were there when a save read its quota.

### AccountLinking
A link is its lookup (`LookUp`) and its commit (`Link`): from its first write on the transaction
holds the user's row. Issuing a key, revoking and settling a bridge are
statements of their own. A completion (`ReadBridge`, `BeginCompletion`, `Link`,
`CreateAPIKey`, `Complete`) may be repeated by the phone. `UpsertWebexSession`
also touches `updated_at`, by which the session that is served is chosen.

### OAuthGrants
`Exchange` is the conditional update that consumes a code, with the comparisons
after it; `Refresh`, `Revoke`, `IssueAccess`, `IssueRefresh` are the statements
of a refresh. Tokens are named by the call that issued them.

### Webex
A request looks into the cache, opens the course's Webex page and follows it as
a browser would (`Open`, `Follow`, `LogIn`, by kinds of pages), then goes through the
meetings, the recordings of each and their streams. A refusal leads to
one renewal from the stored credentials. Moodle and Webex answer as they like
(external), and a session may end at any time.

### Commands, Session, Update, Cli
A process is a command with a next step and what it has in memory. `Session`
loads, validates, bootstraps and renews the saved sessions, `Update` is the
check before a command and the update command, `Cli` starts processes and
kills them between any two steps. Files are truncated and then written. A version is a
number, a tag that is none (`OtherTags`), or `Dev`, which is not a release and also stands
for an empty one; releases are published and withdrawn in any order.

### Export
Drive is a function from paths to contents, a content is what the properties
compare. One command works through semesters, courses and materials; a request
may fail before or after its effect, Moodle may serve newer material between any
two steps, the command may die. Runs are numbered, as the code names their folders
by the time: a command's runs have larger numbers than those of every earlier command.
Some resources are PDFs, and some sections general ones, which the profile for GoodNotes
leaves out. `unconfirmed` is a history variable: the paths whose update was taken for done
and did not arrive.

### CurrentLecture, NavTree, Terminal
`ui` is the loop's model; a handler maps it to the next one and the commands to
start, `cmds` are the goroutines under way, `svc` the caches they fill without a
lock. `NavTree` says which children a node has as a function of what Moodle and
the timetable hold, `CurrentLecture` how the lecture's course and best material
are found. Two goroutines in one Go map at once may end the program, which
is undefined behaviour (`ConcurrentMapAccess`).

A node's parent is the one of the list it arrived in first (`Arrived`), and its path
goes up from there (`Ancestors`); the rows are the children of the root and, below a row
that is open and on that path, its children (`RowsBelow`). Keys are unique to a list but for
events, which are numbered in each list of them (`SharedKeys`, section 4). `stray` is a
history variable: the last move of the selection was "h" from such an event or from
below one, to whatever parent its number has.

### Ocr
A command makes its directories, runs its engines in order, reads back what
stands in the engine's directory, compares, and removes in deferred calls what
it need not keep. Commands run beside each other, share a given directory, and
may be killed.

### PdfViewer
A viewer is one mount of `PDFViewer`; what is queued or looked for outlives it. A handler and
the effects of its render are one action, and see the state as `Saved` took
it; loading, rendering a page, finding a text, the timer and the two attempts
of a call are actions of their own; a host without `callTool` is sent nothing (`unsent`). `Show` runs the effect for the target before
the new document is loaded, as React does. Servers keep the last report they hear, until they
restart. `seen`, `asked`, `moved` and `made` are history variables.

## 3. Runs

Every run is expected to pass and is exhaustive within its bounds.

| run | instance | shows |
|---|---|---|
| `run_store` | 3 requests, 2 courses, 1 stage | `SelectionConsistent`, `AutoNewestUpToOverlap`, `AuditTruthful`, `UnpublishPrecise`; `ImplementsRegister` (refinement); `EveryRequestAnswered` (liveness) |
| `stage_plan` | 2 callers, 3 stages, every set of 5 elements as a document | `StepTellsTheRun`, `PlanShape`, `NoStageSkipped`, `FailedStageKeepsSelection` |
| `artifact_tree` | 2 handlers, 2 requests of any kind, a slide deck with figures and a task sheet, 1 upload each | `CompleteWhenQuiet`, `DocumentsReadableWhenQuiet`, `NeedsReviewForCause`, `ServedScriptIsComplete` |
| `task_state` | 3 handlers, 2 tasks | `LossHasACause`, `ReadableWhenQuiet` |
| `codex_runner` | 3 requests of one user, of any kind | `AnswersTheQuestion`, `SignInsExclusive`, `ClaimHasItsSignIn` |
| `app_server` | 2 pages, a channel of 2 messages, 2 messages of no turn | `PageTextIsFinal`, `WaitsOnlyIfDropped` |
| `codex_state_quota` | 3 saves of sizes 1, 2 or 4, a quota of 3 (4 for an admin), 1 quota change | `OverlapAloneOverruns`, `NewestSurvives` |
| `account_linking` | 3 requests, 2 Clerk users, 2 sites, 1 bridge, 1 change | `SessionMatchesUser`, `ConnectedReachesTheClient`, `RowsMoveWithTheirClerk`, `BridgeSettlesOnce` |
| `oauth_grants` | 4 calls, 1 code, 2 clients | `CodeExchangedOnce`, `TokensKeepTheirClient`, `RotationConservesTokens` |
| `cli` | 2 processes of any kind, releases 0, 1 and `nightly`, a program that is 0 or none of them, one day | `GivesUpForCause`, `InstallsWholeNewer` |
| `export` | 2 commands, 2 semesters, 3 resources: two PDFs of one title, one of them in a general section, and a file that is none; 1 edit, 1 request that fails or an update that is lost | `CompleteMeansWhole`, `RecordsMatchFiles`, `ArchiveIsWhole` |
| `terminal` | 2 courses with a lecture each, 1 week, 4 moves and 1 other key | `SelectionVisible`, `PathsAgree`, `BusyMeansOutstanding`, `ActsOnHighlighted` |

`Review`, `Pairing`, `Ocr`, `Webex` and `PdfViewer` have no run: what they promise is proved
for every instance (section 5).

Each property sits next to a comment that says what it means and which code it
is about, and has a mutant in `PROJECT.json`: a slip that a change of that code
could introduce, under which the run finds the property violated. The type
invariants of the modules with proofs are proved (section 5), and no run lists them.

Why the bounds are enough. The store's properties relate a request, the run it
names and one competitor: three requests hold a recorder, a second recorder and
a reviewer, and two courses let them share a selection key or not. A plan of
three stages has a first, a middle and a last stage, the last of which carries
accountability reports; the five elements are one of each way an element can be
decided. Two requests, overlapping or one after the other, show every pair of
rebuild, extraction and refinement, over a slide that has figures (whose output
is read back) and a task sheet (in the other directory), and courses begin
empty or after an earlier extraction, complete or not, so that the first of the two already
finds what others left. A quota of 3 with sizes 1, 2 and 4 has snapshots that
fit together, that prune another, and that never fit. Losing an update takes
two handlers, and a third to observe or bury it. Moving a user's row takes two
links and a third request that depends on it. A forked chain takes an exchange and
two refreshes, the fourth call continues either branch. Two calls of Codex share a
file and a third finds what they left; the same holds for claims. A channel of two fills with
chatter before a turn's first event, and a second page shows what the first one
leaves in it. Two processes show every overlap over one file, and three
tags, one without an order, let the release that is compared, downloaded and replaced
be overtaken or withdrawn. Two commands of an export show what a
later one makes of an index an earlier one left behind; two resources of one
title share a file, and the semester without a PDF takes the archive's other way. Four moves reach every kind of node of the terminal's tree
with results outstanding, the fifth key opens or loads.

Deadlock is not checked (`CHECK_DEADLOCK FALSE`) where all requests of the
instance have been made and answered: the system is then idle. A caller that the
Codex app-server leaves waiting is the subject of `WaitsOnlyIfDropped`.

Symmetry is declared only over identifiers that no definition names, and in no
run with a liveness property.

Fairness. `run_store` assumes weak fairness of each handler's own next
statement: a database call returns, with an error if need be. Arrivals, aborts and
publications that are left half done are never forced. The other runs check
safety only: that a plan is ever answered is not claimed, as the hook that cleans up after a
Codex call (`pkg/studypipeline/artifacts.go:640`) and the recording of a run
(`internal/api/router.go:574`) have no deadline.

## 4. Where code and documents disagree, and what the properties allow

None of this is a run; each item is a behaviour of the models, at the line that
has it.

- Terminal: an event is keyed by its number in its own list (`internal/cli/nav_service.go:566`),
  and a key keeps the parent it had first (`internal/cli/tui.go:243`). Once the events of today
  are loaded, selecting an event of a week puts today on the selected path in the place of
  the timetable and the week, whose rows are hidden at once; if today is closed, the selected
  event has no row. `internal/cli/nav_tui_test.go:823` expects "active branch child
  to be visible". Six keys lead there (j, G, enter, j, enter, j, once each list is
  there): the run `terminal` finds them with six moves and `SelectedHasRow(ui)` as its
  invariant. Ten lead on to a week that is selected in a closed timetable, because "h" goes up to the parent and `expandVisiblePath` has opened
  another one. `SelectionVisible` and `PathsAgree` hold everywhere else: they
  except a path with a key that two lists share, and `SelectionVisible` also what "h" reaches from there. An
  earlier form of `SelectionVisible` held for the four keys of `terminal` only; the attempt
  to prove it found these two behaviours.
- A failed run can be selected and published (`internal/store/study_pipeline.go:358`
  does not read the status);
  `docs/development/study-pipeline-trace-implementation-plan.md:111` says it is not
  publishable.
- The latest documents of a course are replaced by those of one resource when
  only that is extracted (`pkg/studypipeline/extracted_documents.go:162`;
  line 73 of the plan wants a decision for every detected element), and two
  extractions of one second write one directory (line 119; line 137 of the plan wants
  runs kept).
- Two concurrent saves of Codex state do not see each other, so that their total
  may exceed the quota until the next save (`internal/store/codex_state.go:84`):
  `OverlapAloneOverruns` counts what was there when a save began. A save whose commit is not
  acknowledged is told to be an error and has pruned (`:104`).
- An update of a file on Drive whose answer could not be prepared is taken for done because
  the file is there, which it was before (`internal/cli/export_drive.go:452`): an index, a
  pointer or a material may stay the earlier one. `CompleteMeansWhole` and
  `RecordsMatchFiles` except such a path (`unconfirmed`).
- `current/` and `latest.yaml` say `status: complete` for runs that left
  materials out (`internal/cli/export_indexes.go:76`, `:188`, `:217`). The index that
  decides what later commands export is written once, at the end, and also by a
  dry run, for which an old semester then counts as exported. `_search` holds only the last
  semester of a command, resources of one title overwrite each other's text, and an archive of the goodnotes
  profile fails over a PDF that failed or over two of one title in one section; it holds PDFs
  only, and none of the general section (`internal/cli/export_archive_test.go:152`).
- A server that ends is reported to the caller only if the channel has room: a
  reader blocked on a full channel never tells (`internal/moodle/codex_app_server.go:274`),
  and a turn's events that come before the answer to its request are dropped (`:227`).
- A `state.json` that was cut short turns the daily update check off without a
  word, and of two overlapping updates the one with the older release may come last. A program that
  is no release is updated to any, and where a tag is not `x.y.z` any other tag counts as an
  update (`internal/update/release.go:109`, `:114`), so that a program may go from 1.2.0 to a
  `nightly` and from there to 1.1.0: each step supersedes the one before in the sense of
  `InstallsWholeNewer`.
- A proposal submitted again after its moderation has a status no audit row tells of
  (`Review`, `StatusIsAudited` says so). Events are listed by the time their transactions
  began (`internal/store/study_pipeline_review.go:310`): a moderation that waited for its row
  while another one began and ended has the last word and the lower place in the list. A
  listing ends after a hundred events, those of publications among them, and may show a moderated row without
  the event behind it then; and no row is locked while it is read.
- Tasks and solutions: in `bestSolution` the test on the section never decides for
  numbered tasks, as `fallback` is nil until the first match, which is taken at once;
  so the first free solution of the same number wins, whatever its section. The plan and
  the inventory may pair differently. An unnumbered sheet with several solutions
  in its section is "missing" one, not ambiguous. Two sheets of one number
  share the id of their group.
- OCR: `--engine all --gpu` (`docs/guides/ocr-docker.md:50`) cannot succeed, as
  `pdftotext` and `docling` refuse the GPU and `runAll` gives up at the first
  engine that refuses (theorem `AllNeedsTheCpu`). The directory a single engine reports
  is removed with the command; a reused `--out` reports an earlier `output.md`
  as the new one, and an engine succeeds without writing any.
- Webex: a recording whose stream cannot be fetched is left out, also because the
  session ended in between, and the shortened listing, empty at worst, is served
  from the cache for a day; what lies beyond fifty pages is cut off; a listing is
  dated when it is stored, not when it was read; a renewal that began before a
  sign-in with other credentials may store its session over the new one.
- The PDF viewer keeps canvases, selection and page when another document is shown,
  so that a report may carry the image or the selection of the earlier one, or say
  "page 7 of 3", under the new title. A save queued before a selection was made
  erases it at the server when it fires after (`pdf-viewer.tsx:76`). The
  target of a tool result that changes the document is applied to the old document, which is
  still loaded then, and not to the new one (`:144`); the same location asked for
  twice is scrolled to once. Screenshots and selections over 2.5 MB are dropped without a word.
  In a host without `callTool` (`lib/chatgpt.ts:48`) nothing is sent, and the chat is asked to
  inspect a selection that no server has.
- Two goroutines of the terminal interface write one map without a lock
  (`internal/cli/nav_service.go:804`), which the Go runtime may end the program for.

Properties that hold only up to a cause state that cause, and it is worth
knowing: the selection the store makes itself may be the older of two runs that
overlapped (`AutoNewestUpToOverlap`); a publication that answers with an error
may have taken effect (`AuditTruthful`); of two overlapping links the session of the one
that began later is served (`SessionMatchesUser`); a chain of refresh tokens
forks when two refreshes overlap (`RotationConservesTokens`); task updates
that overlap may be lost although acknowledged (`LossHasACause`); a Codex call may be
answered with the answer of another that shared its file (`AnswersTheQuestion`),
and a sign-in that outlived its claim may run beside the next
(`SignInsExclusive`); a page may wait for a turn whose end was dropped
(`WaitsOnlyIfDropped`); a session file that two commands wrote at once may make a
command give up (`GivesUpForCause`), and a release installed meanwhile may be
replaced by an older one (`InstallsWholeNewer` compares with the program the command was
started from).

## 5. Proofs

TLC checks small instances; the theorems below hold for any number of requests,
courses, stages, callers, documents, pages, codes, clients, handlers, tasks, models,
saves, users, commands, processes, releases, semesters, resources, engines,
meetings, recordings, keys pressed and results under way. Each proof module has
the same outline for each of its components: an inductive invariant, a lemma for the initial states,
a lemma or a step per action, the lemma that the specification keeps the invariant,
and then the theorems. A component a proof module EXTENDS has its
properties checked by a run too, and its theorems name them; one it takes by
INSTANCE is proved only.

The assumptions on constants say that `None` is none of the values it is told
from (`NoneIs...`), that bounds are natural numbers, and what the comments at them give a
reason for: quotas and posted sizes are positive (`QuotasPositive`), a document has
a page and the channel room for a message (`AppServerBounds`), a file that is absent, empty or torn is
not a session (`FilesDiffer`), `Nil` is no text and materials have other names than the outputs of the
tree (`NilIsNothing`, `MaterialsAreNoFiles`), a course has finitely many materials, each a slide deck or a task
(`MaterialsAreClassified`), stages are distinct (`StagesDistinct`), a school has finitely many
semesters, courses and resources, each in its place (`ExportAssumption`), what Moodle and the
calendar list are sequences, and the summary of an event is compared with every
course (`SchoolAssumption`, `CalendarsAssumption`). TLC evaluates those of
every component that has a run.

**`RunStore_proofs`** (4714 obligations), the store and the artifact tree. `TypeCorrect`, `SelectionsAreConsistent`,
`AutoSelectionIsNewest`, `AuditIsTruthful`, `UnpublishIsPrecise`,
`StoreImplementsRegister`. `SelectionConsistent` alone is not inductive, because
what a transaction is about to commit was read or inserted earlier. The
invariant adds that the row a handler works with is the committed one and never
changes (`RowInv`), that the handler which replaced a selection holds its lock
until it ends (`LockInv`), and how begin times relate to commits (`TimeInv`);
audits need what a publication has done so far (`AuditInv`). The refinement maps
each commit to the one step of `RunRegister` it stands for, by the same
invariant, and every other statement to a stutter.

The tree: `RebuildsAreComplete`, `DocumentsAreReadable`, `ReviewsForCause`, `ScriptsAreComplete`,
for any number of handlers and materials. None is inductive, because what a rebuild leaves
behind depends on what every handler has yet to do. The invariant (`TreeInv`) first bounds that
(`ShapeOf`): the steps that remain are in the order of the code (`Sorted`), only the first can be
the second half of another (`Behind`), and whoever has yet to check or to remove files has yet to
build every output (`Chain`). Then it ties the files to the lists. `Promised`: unless a rebuild
failed after the last complete one, an output that is missing or cut short will be written by a handler
that has begun to remove files, or is its directory's to remove again; this is what makes any
overlap of rebuilds end with a complete tree. `WasExtracted`: a tree is rebuilt only over
extracted materials, so that `Status` calls it curated. `Documented`: the latest documents are truncated
only while exactly one writer is about to write them, or `spoiled` says why not. `Holding`: a request that nothing
overlapped finds in each output it is past exactly the texts it is to be built from, which are what
the accounting and the reader look at. Lemmas say what the lists of `Program` contain, what
taking a step off a list or pushing one onto it preserves (`StepGoes`, `StepToGoes`), and that an error
or a crash, of any set of requests, keeps all of it (`GoneStep`).

**`StagePlan_proofs`** (1853 obligations), the plans and, by INSTANCE, `Review`.
*Plans.* `OutcomesAgree` says that the checklist, the completion error and
the recorded outcome are one decision, by expanding the operators of
`Accountability`; `CompleteMeansDecided` that the decision means what it says.
`TypeCorrect`, `ResponseTellsTheRun`, `AnswersHaveShape`, `StagesBuildOnSuccess` and
`SelectionOutlivesFailures` follow from what holds of each caller (`CallerInv`):
what waits to be recorded will be recorded as failed exactly if it is an error
(`MadeInv`, from `OutcomesAgree`), the stages behind the current one are
recorded as succeeded and none ahead of it is recorded (`RunInv`), and the steps
say so (`StepInv`). `Frame` says that no one else's step disturbs this, as a run
belongs to one caller; it needs that a plan repeats no stage
(`PlanFacts`), without which a stage would overwrite its own run.
*Review.* `AuditTellsTheStatus`: the latest event of a row says where the
row stands, or one below only events of moderations that ran while its own was open, unless the
row was submitted again. `AuditIsTruthful`: events are
committed moderations, one each, and every moderation answered with ok has its
event. `TracesStay`: nothing that was recorded is removed, moved or taken
back. `ListingsTellWhy`: a listing shows no status without its event, unless it is full of
events that are no earlier. The
invariant adds that an open transaction holds its row
(`TransactionsHoldTheirRow`), as otherwise a second moderation could come between
the update and its event, and that events are of requests that were answered
(`EventsAreOld`), so that whatever committed before this one is earlier or ran within it; for
`ListingsTellWhy`, that events only grow. `NoneIsNew` says what `None` is not.

**`Frontends_proofs`** (5357 obligations), the token endpoint and the terminal interface.
*OAuth.* `TypeCorrect`, `CodesAreExchangedOnce`, `ChainsKeepTheirClient`
and `ChainsConserveTokens`. What a request was granted never changes, is what its
tokens carry, and comes from a used code (`ReqInv`); hence a code that can still
be consumed has no chain (`ExchangeInv`), and one request at most got its
tokens directly (`OneOrigin`). `ChainInv` counts the holders of a chain: a
refresh puts one holder in the place of another (`RevokeInv`), or is counted
as extra.
*Terminal.* `SelectionSeen`, `PathsLead`, `BusyIsAsked`, `OpensHighlighted`, for any courses,
resources, weeks, timetables, filters and folders, any number of keys and any order of
results. None of the properties is inductive. The invariant, `TerminalInv`, says of a
terminal that runs:
the nodes it knows are the nodes its lists have, each list is one of children lower
than their parent, and a key that is in one list has that list's node and parent (`IsTree`);
the selection is a known node, every node on the way to it is open unless `OnSharedPath` or
`stray`, and the index on the right is 0 or one of the entries (`IsSelection`); a key
is marked exactly while one command for its children is out, of a node that is known and has no
list yet, and the preview that is marked is out (`IsOut`); the service holds a day and a result
(`IsService`); and every list is what the service would list again (`Coherent`), as what it has
kept does not change under a list made of it.
For the rows, the height of a node follows from its key (`Height`) and falls from parent to
child, so that the six levels of `RowsBelow` reach every node whose ancestors are open
(`OpenedHasRow`), and every row of an unshared path has open ancestors (`RowsOfTree`): which is
why moving the selection to a row keeps it visible. Each handler of a key is shown to
leave the tree alone (`Still`) or to ask for what it marks (`Asks`), and to open what is
highlighted only (`PressedRight`). Children that arrive only add to what is known, or make a
key shared (`ArrivedGrown`, `GrownSelection`). For the paths, each step of `ResolvePath` finds
the entry its index was taken from, by induction along the path (`StepDown`, `PathLeads`).

**`Tasks_proofs`** (827 obligations), the task state and, by INSTANCE, `Pairing`.
*Task state.* `NoLossWithoutCause` and `TornForCause`. That the file has an update now
says nothing of the handlers that read it earlier and are about to write it
back; the invariant says that every copy in memory has every acknowledged update that nothing
excuses (`CopiesHaveOthers`), a changed copy its own (`CopiesHaveOwn`), and why
a file is absent or torn (`FileHasCause`).
*Pairing.* `LinksAreGreedy`: a task has the first free
solution that fits, and none only if earlier tasks have all that fit.
`PairsAreCareful`: the inventory pairs a sheet only with the one solution that
fits; and `EachSolutionOnce`. The invariants relate the sets of used solutions the passes keep to the links
made so far (`PlanInv`, `InventoryInv`); the listings are any sequences of resources (`Listings`).

**`Codex_proofs`** (2017 obligations), the runner, the state's quota and, by INSTANCE, `Ocr`.
*Runner.* `OwnAnswers`: an answer is right when it is read only if it was right when a container wrote it,
under the schema it was started with; so the invariant follows the schema from the file to the
container to the output (`SchemasKept`), and says that whoever works on one file
at the same time knows of it (`Clashes`, `OutputsOwn`). `OneSignIn` and
`ClaimsAreReleased`: as long as no sign-in has outlived its claim, the claim is that
of the only sign-in there is (`ClaimInv`).
*Quota.* `NewestStays`: a prune picks a row only if a newer one is there or the row alone
is more than the quota (`PrunesAreRight`), every row that went was picked by a save that
took effect (`GoneForCause`), and begin times never change or coincide (`Stamps`). It needs one fact
about sums: what is newer than the newest is nothing, so that its running total is its
size. The sum is a fold over a function; the lemma unfolds it for a set of one
element, which needs no induction.
*Ocr.* `LeavesNothing`: a command that has ended left no input behind, and an
output only if it was to be kept. `ResultsStay`: the directories named by the
results of all engines outlive the command. `TextsAreOwn`: in a directory of its own
a command reports only what it wrote. `AllReport`: a command that succeeds has a result of each
engine, in order. `AllNeedsTheCpu`: if one engine does not run on a
GPU, all of them on a GPU never succeed. The invariant says where each command stands and
what it has by then (`Stands`, `Reports`, `Owns`); a lemma says that no other
command's step disturbs it. `Registry` assumes that there are engines.

**`Accounts_proofs`** (1643 obligations), the linking of accounts and, by INSTANCE, `Webex`.
*Linking.* `ServedWithOwnSession`: of a user's sessions the last to be updated is served, so
the proof is about times. A row has a session of the account it names, which is at least as
new as the link that named it (`RowsHaveTheirSession`), and no two updates
have one time (`Stamps`); that there is a last one among a row's sessions, of which there may be
any number, is well-foundedness (`Smallest`). `RowsStayWithTheirClerk`: a link that found a row found its own
Clerk user's, who has it still unless another link wrote it (`FoundIsOwn`). `ConnectedIsTrue` and
`BridgesSettleOnce`: what stands where in a completion (`Placed`).
*Webex.* `OnlyWorkingCredentials`: what is stored has worked. `NoLoginLoop`: a request
logs in once at most. `NoPartialListing`: what is served or cached is a whole listing.
`SignInForCause`: nobody is asked to sign in whose stored credentials were not
tried. The invariant says how far each request is with its session (`Signed`) and its
listing (`Listed`), and what the row holds (`Stored`).

**`Pages_proofs`** (2361 obligations), the app-server client and, by INSTANCE, `PdfViewer`.
*Client.* `PagesAreFinal` and `WaitsForCause`. What the caller has of a turn and what it is
still to take, channel and pipe read as one queue, together make up what the server has told of
the turn, unless the call dropped some of it (`Current`); of turns to come nothing is
told (`Ahead`), of a completed one nothing more (`Ended`). Moving a message from the
pipe to the channel changes nothing in this, whatever their lengths.
*Viewer.* `ViewsWereSeen`: what
`capture_pdf_view` and `get_pdf_selection` tell was seen, and is true of the
document named as long as the viewer has shown no other. `AsksBelongTogether`: the
report of a selection is right in any case. `PromptsComeAfter`, `SelectionsAreKept`: the chat is
asked about what a server has heard of, or in a host that calls no tools, where none ever
hears of it, and a selection is erased only by a report made
up before it. `NoScrollUnasked`: one scroll for each tool result at most. The
invariant says whose canvases a viewer has (`Paper`), that its selection is the
last made (`Marked`), and what holds of every state that waits for a timer or a
search (`Waits`) or travels (`Call`); as what a viewer has shown only grows,
what a state tells stays true (`StaysTrue`). `Documents` assumes that documents have numbered
pages.

**`Cli_proofs`** (6702 obligations), the commands with their sessions and updates, and the export.
*Commands.* `CommandsGiveUpForCause`: a process nothing excuses runs alone
(`Alone`), the session file is whole, or spoiled, or being written by one process (`FileInv`), and
what such a process has loaded or renewed is accepted, according to its place
(`SessionOf`). `UpdatesInstallWholeNewer`: what is about to be installed needs to be, over
what runs (`Working`): it is another tag, and a greater number between two.
*Export.* `ArchivesAreWhole`: what a record says was downloaded is what is kept for the
archive, and records are of the courses behind the command, one of each resource (`Heard`); so what is written beside the
archive is whole, in either profile and, for GoodNotes, on either way (`Archived`).
`RecordsDescribeFiles`: an index on Drive may link files that the command at work is about to
replace. So the invariant says of every index that its number is less than the run at work for
each course the command has yet to come to (`Indexed`, `Before`), which makes the overwriting run a later
one; and that the records of the run itself match its files all along (`Ready`).
`CompleteRunsAreWhole`: while nothing has failed, the courses behind the command have their zips and
indexes (`Zipped`), and after them calendar and report stand (`Closed`); the pointer is
written after all of these, the index after the pointer (`Pointers`). Which files a step may
write is said once (`Footprint`), and it is none of an earlier run's folder, as a command's
numbers exceed all earlier ones.

The invariants of `Review`, `Pairing`, `Ocr`, `Webex` and `PdfViewer`, and `TerminalInv` on the
instance of the run `terminal`, were also tried with TLC; these trials are not among the runs.

Only model-checked: `EveryRequestAnswered`, as liveness under fairness and ENABLED are
beyond the prover, and `OverlapAloneOverruns`, which needs the sum over any set to be
additive, an induction over data. Every other property of a passing run
is stated by a theorem. What a recursive definition computes for every input is beyond the
prover as well: `ResolvePath` and the rows of the terminal are functions over bounded numbers,
of which the proofs take a step at a time.

## 6. Not modelled

Components without state of their own, or with none that two steps could disagree on:

- Moodle client, mobile launch and QR, service facade: each a request and the
  parsing of an answer. The sessions they yield are values in `AccountLinking`,
  `Session` and `Webex`.
- The other MCP tools: dispatch of stateless calls; the lists and texts the widget
  shows of them.
- Lists, printing and logs of the command line: commands that read, format and print.
- Local server, routing and API documents: wiring. The handlers with state are
  modelled with their components.
- Keys, encryption and versions: pure conversions; a key or a sealed session is a
  value.
- User settings: one upsert and one read of one row.
- Contracts, scripts, packaging, the widget's dashboard: types, installers, a page of lists.

Left out of components that are modelled: calendar subscriptions and client
registration (one upsert each), the validation of parameters and zip files,
the rows of resources, links and summaries that a recording writes along, the
texts of prompts and the parsing of answers, the upload and listing of a user's
Codex files, page images and Google's tokens in exports, the export of one course as a zip, the
script that replaces the program on Windows, layout, colours, scrolling and
preview texts of the terminal, zoom factors and scroll offsets of the viewer, and the local
copies of files. `PROJECT.json`
says it component by component.

Two hazards have no property: a failed run may be published, and two goroutines
may write one map. The models contain both, and no property that holds could
forbid what the code allows.
