# AutoRestTest: a TLA+ verification project

AutoRestTest lets a team upload (or generate) an API specification, derives a
dependency graph from it, runs a reinforcement-learning testing engine against
the live API, and keeps the results, the captured traffic and replays of it.
The interesting state is spread over three places that fail independently: a
PostgreSQL database behind a NestJS backend, the memory and files of a Flask
service that queues and runs jobs, and the engine, a process of its own that
reads one global configuration file. Nothing ties them together but HTTP calls
and background pollers that live in the backend's memory.

On top of it stands a web application whose pages show answers of different
ages and compute their own figures from them.

These modules model that machinery, and the pure functions between it and the
screen. TLC checks them on small instances, TLAPS proves the properties marked
as theorems for every value of the constants. `PROJECT.json` maps every
definition to the source lines it stands for.

- [Inventory](#inventory)
- [Modules and code](#modules-and-code)
- [Modelling conventions](#modelling-conventions)
- [Runs](#runs), [Bounds](#bounds), [Fairness](#fairness)
- [Theorems](#theorems)
- [Where the code departs from its documentation](#where-the-code-departs-from-its-documentation)
- [Not modelled](#not-modelled)
- [Plan](#plan)

## Inventory

| Component | State | Operations | What is hard | What makes it correct | Modules |
|---|---|---|---|---|---|
| engine-service, `runner.py` | the engine's `configurations.toml`, its backup, the engine process, the slot `_active_proc` | `run_real`, `shutdown_active_engine`, kill-on-close job object | the service may die between any two file operations, and each of them may raise half-way; the engine can outlive the service and its own killing; the signal handler runs beside the worker | the user's file survives; an engine reads its own job's file; no two engines at once | `EngineRunner` |
| engine-service, `jobs.py` | `_jobs`, `_params`, `_queue`, `_proxy`, job directories, shared output directories | `submit`, `delete`, `_execute`, `_fail`, `register/unregister_proxy`, `record_request` | one worker, many request threads; deletions during a run; directories shared by the runs of one specification; failing writes | statuses follow the protocol; results and captures are the job's own, the captures in order; no job starves | `EngineJobs`, `EngineJobStatus` |
| engine-service, `proxy.py` | none of its own; the capture context in `jobs.py` | `proxy_forward` | calls answer in any order and after the run | a request is recorded once and in order, or its write failed | `EngineJobs` |
| engine-service, `generation.py`, `graphs.py` | the same structures as `jobs.py`, each with its own worker | `submit`, `delete`, `_execute` | as `jobs.py` | as `jobs.py` | `EngineJobStatus` |
| backend, engine client | none | one HTTP call per method | unreachable, refused, answer lost, 404 after a restart | an error is never taken for an answer | in the backend modules |
| backend, test runs | `TestSuite`, `TestCase`, `RequestLog` rows; a poller per job; a task per replay | `create`, `remove`, `run`, `poll`, `persistResults`, `persistRequestLogs`, `replay`, `executeReplay`, `markFailed` | checks and updates with a call between them; pollers that outlive what they poll for; writes in several transactions; restarts | a completed run shows its latest job's results; a replay names a generated run; every started run is reported over | `TestSuiteRuns`; figures `RunResults`; scope `RunScope` |
| backend, specifications | `SpecFile`, `Endpoint` rows | `upload`, `persistSpec`, `remove` | graph builds in flight; endpoint ids that change under a form | what is derived from a specification goes with it | `DependencyGraphs`, `RunScope` |
| backend, dependency graphs | one `DependencyGraph` row per project, a poller per job | `build`, `poll`, `persist`, `markFailed`, `mergeGraph` | two builds at once; the specification replaced in mid-build; two sources of evidence of different strength | the graph shown is of the specification shown unless a replacement overtook its build, and follows what was learned | `DependencyGraphs`, `GraphMerge` |
| backend, specification generation | one `SpecGeneration` row per project, the set `polling`, the poll loops | `start`, `findForProject`, `apply`, `discard`, `ensurePolling`, `poll` | restarts; loops attached again; a row id kept across generations | a generation is always followed, ends, and is never brought back | `SpecGenerations` |
| backend, accounts | `PendingSignup`, `AuthToken`, `User` | sign-up codes, reset links, JWTs, password changes, deletion | attempts, codes and links read before they are written; mails read by somebody else; whole seconds in a JWT | an account needs a mailed code, and a code opens one sign-up; a link sets no password for a request made after it set one; a session of an old password is refused | `Accounts` |
| backend, members and invitations | `Invitation`, `ProjectMember`, `Project` | invite, resend, revoke, accept, decline, lapse, change role, remove, leave, delete | read-check-write on invitations while another answers | members and roles follow what was offered and answered | `Memberships` |
| backend, reports and descriptions | explanations on `TestCase`, descriptions on `RequestLog`, the pacing clock of the LLM client, the settings row | `explain`, `describe`, `getReport`, `reserveSlot`, `update` | rows deleted by a re-run while a batch is out; two walks over the same rows; overlapping updates | text belongs to the row it is shown with; the slots of calls are paced; nothing is paid for twice but what was lost or in two presses' hands | `Reports`, `RunResults` |
| backend, projects, endpoints, mail | single rows | one statement each | cascades | - | `Memberships`, `RunScope`, `Accounts` |
| frontend, query cache and session | TanStack Query's cache, its copy in local storage, the token | every mutation of the pages with its invalidations | answers in any order; a write beside reads in flight; leaving, focus, reload, sign-out | one's own write shows, but where a page leaves it to age; nothing outlives a session; refusals have a cause; what runs is watched | `WebOperations`, `WebCache` |
| frontend, pages of a run | component state | run form, run page, requests page, graph, operation details | the same requests counted four times; ids that go stale under a form; details that arrive late | figures of one source agree; what is shown and sent is what was chosen | `RunResults`, `RequestPage`, `RunScope`, `FocusView`, `SpecDetails` |
| autoresttest-core | Q-tables, agents, report files | the MARL loop | statistical | the report is written from what was sent | not modelled |
| OOPS | none between runs | a pipeline of LLM calls | external services | - | not modelled |

How they interact: the frontend calls the backend; the backend calls the
engine-service (`engine.service.ts`) to submit a job, to poll its status every
`POLL_INTERVAL_MS`, to fetch a result and to delete; the engine-service starts
the engine, and the engine sends its requests back through the service's
recording proxy. No call-back goes the other way: everything the backend
knows about a job it learns by polling, and a poller's memory of *why* it polls
is a few local variables captured when the job was handed over. Likewise the
frontend knows of the backend only what it last asked for.

The hazards this brings are in `PROJECT.json` under `hazards`, each at the line
where it bites and with the properties that would catch it.

## Modules and code

| Module | Models | Code |
|---|---|---|
| `EngineRunner` | `run_real` and all it touches, one step per file operation | `engine_service/runner.py`, `wsgi.py`, `autoresttest/config/config.py` |
| `EngineJobStatus` | abstract: the status of jobs as `GET /runs/:id` reports it | `engine.service.ts`, `routes.py` |
| `EngineJobs` | the job manager and the recording proxy's captures | `engine_service/jobs.py`, `routes.py`, `proxy.py` |
| `TestSuiteRuns` | runs, pollers, captured requests, replays | `test-suites.service.ts` |
| `DependencyGraphs` | a project's specification and its graph | `graph.service.ts`, `specs.service.ts` |
| `GraphMerge` | from the engine's two artifacts to the graph that is drawn | `graph-merge.ts` |
| `SpecGenerations` | generating a specification from source code | `spec-generation.service.ts` |
| `Accounts` | sign-up, sign-in, reset, password change, deletion | `auth/*.ts`, `users.service.ts` |
| `Memberships` | projects, members, invitations | `collaboration/*.ts`, `projects.service.ts`, `project-access.service.ts` |
| `Reports` | explanations, descriptions, pacing of LLM calls, settings | `reports/*.ts`, `request-descriptions.service.ts`, `llm-settings.service.ts` |
| `RunResults` | the figures of one run, wherever they are computed | `test-suites.service.ts`, `reports.service.ts`, `lib/report.ts`, the run's page and its charts |
| `RequestPage` | the page of a run's captured requests | `requests/[endpointId]/page.tsx`, request logs of the backend |
| `RunScope` | from the form of a run to what the engine is given | `CreateRunModal.tsx`, `create` and `run`, endpoints |
| `SpecDetails` | an operation's parameters, body and authentication | `spec-parse.ts`, `EndpointDetailPanel.tsx` |
| `FocusView` | the drawing of a merged graph | `components/graph` |
| `WebOperations` | tables: the operations of the pages, who is offered them, what the backend asks, what they change and what they refresh | the pages, `lib/queries.ts`, controllers |
| `WebCache` | the query cache, session and persisted copy driven by those tables | `lib/queries.ts`, `query-client.ts`, `auth-provider.tsx` |
| `MC*` | constants for TLC that a cfg cannot write; `MCRunPages` composes the five page modules | |
| `EngineService_proofs` | theorems about `EngineRunner` and `EngineJobs` | |
| `Frontend_proofs` | theorems about `WebCache`, `RunScope` and `RequestPage` | |
| `DependencyGraphs_proofs` | theorems about `DependencyGraphs` and `GraphMerge` | |
| other `*_proofs` | theorems about the module they extend | |

How the modules compose:

- `EngineJobs` is shown to implement `EngineJobStatus` (a job that is not
  registered is `unknown`, any other has its own status), and the three backend
  modules with pollers take `EngineJobStatus` as their engine (`INSTANCE`), so
  what holds of them holds over any service that keeps that protocol, restarts
  and deletions included. That is how the backend and the engine-service compose
  without the product of their states. Only the parts of the protocol a module
  reaches are used: `Submit` and, for discarded generations, `Delete` when the
  code calls it; `Start`, `Finish`, `Retract` and `Restart` at any time.
- `RequestPage` extends `RunResults`, whose lists and summaries it asks for;
  `FocusView` extends `GraphMerge`, whose graphs it draws; `WebCache` extends
  `WebOperations`, whose tables it obeys. `MCRunPages` puts the page modules
  side by side: a behaviour moves one of them.

### EngineRunner

`coreToml` and `backup` are the contents of `configurations.toml` and of its
`.engine-service.bak`: absent, torn (opened for writing, not written), the
user's n-th version, or a job's. `putBack` remembers that a torn backup was
moved over the user's file, `tied` whose engines the kernel kills with the
service. `stage` is the worker's place in `run_real`:

| Action | Code |
|---|---|
| `Begin` | the worker enters `run_real` for the next job |
| `PromoteResidue` | a backup that exists is moved back first; the move may raise, half done |
| `CopyToBackup` | `shutil.copy2`, in two steps: truncated, then filled; it may raise at either, with the service alive, and leaves the backup as it is then |
| `WriteJobConfig` | `write_text`, in two steps; it may raise, and stands before the `try` |
| `Spawn`, `Register` | `Popen`, which may raise; the slot is filled afterwards |
| `EngineFinished`, `EngineTimedOut` | `proc.wait` and its `TimeoutExpired`; `_kill_tree` tries, and swallows its errors |
| `Release`, `Restore` | the `finally`, whose move may raise |
| `EngineReadsConfig`, `EngineExits` | the engine process |
| `StopReadsSlot`, `StopKills`, `StopExits` | SIGTERM, in the main thread |
| `ServiceKilled`, `Restart`, `UserEdits` | around the service |

A move (`MoveBackup`) is a rename where a rename replaces its target and, where
it does not (`env.renameReplaces` is false), a copy and an unlink with a crash
possible in between.

### EngineJobs

`registered` are the keys of `_jobs`, `status` the attribute of each `Job`
object (which survives the map forgetting it: the worker still holds it),
`queue` the FIFO, `pc`/`cur`/`raised` the worker, `capturing`, `nextSeq` and
`calls` the capture contexts and the request threads in `proxy_forward`,
`dirs`, `result`, `log` and `output` the files; `unwritten` and `spoiled` say
which lines never reached `requests.jsonl` and whether half of one did. Worker
actions follow
`_execute` from `Claim` to `Publish`; `FailLooksUp` and `FailMarks` are
`_fail`; `DeleteUnregisters` and `DeleteRemovesDir` the two halves of `delete`
around the lock; `CallArrives`, `CallForwarded` and `CallRecords` a proxied
call. `CallRecords` takes the number first and then appends the line, which may
raise whole or half-way with the directory there, and leaves a gap. A directory
that was removed makes later writes into it raise, except `_persist`, which
creates it again.

### TestSuiteRuns

One row per suite (`status`, `jobId`, `origin`, `results`, `logs`), one poller
per job, one background task per replay, and the HTTP requests being served.
`results` says *whose* counters and test cases the row shows, `logs` which job
captured each stored chunk of requests. `RunChecks`, `RunStarts`, `RunCommits`
are `run` cut at its awaits; `PollsStatus` to `PollerFails` are `poll`, with
`persistResults` and the two kinds of write of `persistRequestLogs` as steps of
their own; `ReplayChecks`, `ReplayCounts`, `ReplayCreates` are `replay`, and
`ReplayReads` to `ReplayFails` are `executeReplay`. `Remove` cascades to the
replays of a removed run, as the foreign key does, and tells no task.

### DependencyGraphs

`spec` numbers the specifications the project ever had; `row` is the graph row
with the number of the specification its graph was built from; `built` is what
each job was given. `ReplaceSpec` is `persistSpec`'s transaction, which deletes
the graph and is refused by nothing, whatever builds are in flight (`overtaken`
remembers what they were building); `RemoveSpec` is `remove`, which does not
touch the graph. `BuildReads` to
`BuildCommits` are `build`; `PollsStatus` to `MarksFailed` its poller, whose
writes are `updateMany` by project and swallow their errors.

### SpecGenerations

`row.id` matters: `upsert` keeps it, `delete` and a new `upsert` make another.
`polling` is the set of that name; `loops` the poll loops, each with the row id
and job it closed over. `StartChecks` to `StartStores` are `start`, `Reads` and
`EnsurePolling` are `findForProject`, then `apply` and `discard`; `Polls` to
`GivesUp` are `poll`, `persistResult` and `markFailed`. `Forgets` is the
`polling.delete` that follows `persistResult`: between the two the next
generation may put the same id back.

### Accounts

A request is a record in `call`: what the handler has read and the step it is
about to take. `Register` is the direct sign-up; `IssueCode`, `StartUpserts`,
`CompleteReads`, `CompleteDecides`, `CountMiss`, `Promote`, `Discard`,
`ResendReads` and `Resend` are the one with a mailed code; `LoginReads` and
`SignAccessToken` signing in; `ForgotPassword`, `Issue`, `ResetReads`, `Burn`
and `SetPassword` the reset link; `ChangeReads` and `SetPassword` the change;
`DeleteReads` and `DeleteAccount` the end. Codes and links are numbers never
used twice, `mailed` is what reached an inbox, and a person types only 0 (a
guess) or what was mailed to somebody. `Accepted` is the JWT strategy's
comparison of a session's `iat`, in whole seconds, with `passwordChangedAt`;
the clock is finer than a second so that both orders within one exist. `resets`
remembers each password set by a link, with the number of the request that set
it (`no`) and of the last one made by then (`by`): `ResetReads` looks the link
up, `Burn` marks it and `SetPassword` uses it, each a step that may fail.

### Memberships

`Cascade` and `DeleteAccount` take with them what the foreign keys do.
`InviteBegins` to `InviteWrites` are `create`, with its two reads and its
upsert; `Accept` is the transaction of `acceptInvitation` after `Loads`, by
token or by id; `Decline` and `MarkExpired` write by id whatever happened in
between; `Revoke` and `Resend` are the inviter's. `offered`, `joined`, `revoked`
and `roleSets` remember what happened, for the properties only: which terms were
offered, and which invitations were accepted. The role somebody joined with is
read from the member row itself.

### Reports

One suite, whose rows are known by run and subject (`RunAgain` replaces them),
the walks over them (`PressExplain` and `PressDescribe` with `ReadsFailures`,
`ReadsPending`, then per batch `ReadsSettings`, `ReserveSlot`, `SendsRequest`,
`Explained`/`Described` and the stores), a report read in two statements
(`PressReport`, `ReportReadsCases`), and the settings (`PressPatch`,
`PatchWrites`). Times are counted down in ticks: `pacing` is how long until the
next slot, which lives in memory (`RestartBackend` forgets it). `RequestFails`
is any read or write of a request that throws, the storing of an explanation
with its row still there included: that explanation was paid for and is lost.

### GraphMerge and FocusView

`mergeGraph` as it stands: candidates of the static graph and of the Q-table
are put in slots (consumer, parameter), each slot has one `Winner` by `Better`,
winners of one producer and consumer make an `Edge` with a kind and a weight.
`QEpsilon` is the code's `Q_EPSILON`: a Q-value below it either way is no
evidence for the kind of an edge, and still decides who wins a slot. The
edges are sorted, `Pruned` to `MaxShown` and counted. `ResolveLegacyGraph` and
`UpgradeStoredGraph` are the paths of graphs stored by an earlier version. The
state is the input, built up one match or one Q-value at a time. `FocusView`
takes the merged graph to cards and their places.

### RunResults and RequestPage

The state of `RunResults` is a run and its requests: `sent` says of each who saw
it, the engine, the recording proxy or both, for the engine's report and the
captured requests are two sources (`Counted` and `Logged`); `captured` is what
the backend has stored of the latter. `Completes` stores the report and ends the
run; `StoresRequests` comes after it, or never when they cannot be fetched, and
for a replay before it. The figures are operators
named after the functions that compute them: `EndpointSummary` and
`BuildOperations` for the stored run, `GetReport` for its report,
`GetRequestLogSummary` and `ListRequestLogs` for the captured requests,
`StatCards`, `FilterBar`, `StatusDonut`, `RunHistory` for the page, `ReportToCsv`
and `ReportToPdf` for the exports. `RequestPage` adds the page that browses
them: the key of its list query (`page`), the query's answers (`list`), details
on the way (`detail`), and requests sent again (`live`, `sends`). A request that
was sent goes on when the page is left for another endpoint; `here` says of it
whether the page it was sent from is still the one that is open.

### RunScope and SpecDetails

`RunScope` follows one request for a run: the `form` as it is edited over the
list the browser has, `PressCreate` with what the form sends, `CreateSuite`
with what the DTO admits (`MAX_EXCLUDED` ids and `MAX_HEADERS` headers among it),
and `Run` with what is taken out of the specification,
while `PersistSpec`, `CreateManual` and `RemoveEndpoint` change the endpoint
rows underneath. `SpecDetails` follows references in a document, circles
included, to the rows of the details panel.

### WebOperations and WebCache

`Effects` says of each operation what it changes at the backend and what its
page does on success: answers it sets, prefixes it invalidates or removes, reads
it cancels, whether it ends the session. Where a run is one of a family, `"s"` is
the run on screen, `"o"` another of its family, `"r"` the new one. `LeftToAge`
are the answers an operation changes and its page leaves as they are. `Offers`
says on which screen who sees its button, `Admits` what the backend asks: a role,
a status, and that what the operation needs is there (`has`), which for those in
`OfferedBlindly` the page did not look at. `WebCache` runs one operation on one
screen: `StartRead` to `ReadLost` are reads, `Press` to `WriteFails` the write,
`LeavePage`, `ReopenPage`, `FocusRead`, `PrefetchRead` and `Ages` the user and the
clock, `StatusMoves`, `RoleMoves` and `Revoke` the others, `SignOut`, `SignIn`,
`Flush` and `Reload` the session and the persisted copy. The library itself
(TanStack Query) is modelled from how the client uses it and marked external.

## Modelling conventions

- A step is one database statement, HTTP call or file operation together with
  the synchronous code that follows its answer. JavaScript runs to the next
  `await`, so nothing can come in between. In Python, steps are cut where the
  thread can block or raise, and around the locks.
- A call to another process may answer, raise, or be carried out and lose its
  answer.
- Job ids and row ids are fresh, as UUIDs are.
- Data is reduced to its provenance: *whose* report, document, graph or
  captured requests something is; in `WebCache`, whether an answer was given
  before or after the operation. Where the data is the point (`GraphMerge`,
  `RunResults`, `RunScope`, `SpecDetails`) it is kept, over small domains.
- A pure function is an operator named after it. Its module's state is the
  function's input, built up a piece at a time, and the properties compare it
  with a definition that says what it is for.
- `ENGINE_MODE=real` is modelled, and an LLM that is called. `status.json` is
  written and never read by the code, so the model keeps of it only that
  writing it creates the directory and may raise.
- Operators whose name has an underscore (`Begin_OneTooMany`) are faulty
  variants of the definition after them. No specification uses them; they are
  there to see that the property named beside them in `PROJECT.json` notices.

## Runs

| Run | Properties | Shows |
|---|---|---|
| `runner_recovery` | `UserConfigKept`, `EngineReadsOwnConfig`, `RestoredBetweenRuns`, `OneEngineAtATime`, `ConfigComesBack` | in seven environments (moves as on Windows and as on POSIX, kills and stops between any two file operations, copies, moves, writes and kills that fail; a kill inside the backup copy; an edit over a dead run's residue; no faults but timeouts, failed spawns and a user who removes the file), three runs and an edit: the backup is never a job's, the user's configuration is lost only by a backup cut short that a later run put over it, no engine reads another job's, and where nothing fails the file is back after each run; engines never overlap where the service is not killed and its kills succeed |
| `jobs_faults` | `TypeOK`, `ResultsAreOwn`, `CapturedInOrder`, `ImplementsProtocol`, `NoJobStarves` | two jobs of one specification with a captured request each, or one job with three captured by three threads; deletions, crashes, writes of `status.json` and of captures that fail, whole or half-way |
| `suites_races` | `OriginIsGenerated` | all faults at once on three rows, with two requests in service |
| `suites_fair` | `ResultsAreOfLatestRun`, `CompletedStays`, `RunsEnd` | two rows, two jobs, replays and removals, an engine-service that fails in any way |
| `graphs_builds` | `StaleOnlyIfOvertaken`, `RunningShowsNoGraph`, `BuildEnds` | two overlapping builds, the specification replaced in the middle of them and removed, one failure or restart |
| `generations_polling` | `PollingIsLive`, `DroppedStaysDropped`, `GenerationEnds` | two generations, two loops, one failure or restart anywhere |
| `accounts` | `CodesProveAddresses`, `LinksEndWithUse`, `AcceptedSessionsAreCurrent` | two requests in flight over one address, five requests, two people who want it, with and without `REQUIRE_EMAIL_VERIFICATION` |
| `memberships` | `RowsAreSound`, `RolesAreGiven`, `MembershipsChangeByRight` | three people, one project, two requests in flight of five |
| `reports` | `CallsAreAsSet`, `EvidenceIsRight`, `PaidForIsKept`, `PressEnds` | two of explain, describe, report and settings update overlapping, beside a re-run, a restart and writes that throw |
| `run_pages` | `MergeFollowsEvidence`, `GraphAndViewAreSoundHere`, `RequestsPageIsSound`, `RunFiguresAgree`, `RunsAreAsAsked`, `DetailsAreTheDocuments` | every small input of the pure functions, runs whose requests only the engine or only the proxy saw and runs whose requests were never stored included, and every order of answers on the requests page |
| `web` | `OwnWritesShow`, `SessionsAreSound`, `RefusalsHaveCause`, `RunsAreWatched` | every operation of the pages on every screen that has it, for every role, with the reads and the write answering in any order, refused, lost or after the session |
| `suites_mixture` | `LogsAreOfLatestRun` | counterexample, see below |

Several properties have parts, each commented where it is defined:

- `UserConfigKept`: `UserConfigIsThere` and `BackupIsGenuine`.
- `CodesProveAddresses`: `AccountsAreProven` and `SpentCodeIsGone`;
  `LinksEndWithUse`: `OnlyOverlappingResetsShare` and `NewestLinkWins`.
- `RowsAreSound`: `RowsHaveTheirUsers` and `AcceptedHasJoined`;
  `RolesAreGiven`: `JoinsAsOffered` of every step;
  `MembershipsChangeByRight`: `RevokedNeverJoins` and `RolesChangeByUpdateOnly`
  of every step.
- `CallsAreAsSet`: `StartsArePaced` and `SettingsAsGiven`; `EvidenceIsRight`:
  `OwnEvidence` and `ReportNotBehind`; `PaidForIsKept`: `PaidOnceUnlessExcused`
  and `DescribedStays` of every step.
- `RunFiguresAgree`: `ListsFollowSummary`, `PageFollowsReport`,
  `ReportFollowsRequests`, `HistoryFollowsRow`; `RequestsPageIsSound`:
  `RowsAreChosen`, `DetailSettles`, `SendsAreMeant`; `RunsAreAsAsked`:
  `FormKeepsLimits`, `HeadersAreAsEntered`, `ScopeIsAsTicked`, `BadgeIsRight`;
  `DetailsAreTheDocuments`: `BodyIsUnfolded`, `ParamsAreMerged`, `LocksAreShown`.
- `GraphAndViewAreSoundHere`: `GraphIsSound` and `ViewIsSound` of the merged
  graph and of a stored one.

Deadlock is not checked: users need not ask for anything, and every bound,
once used up, legitimately stops the system. That something goes on when it
must is what the liveness properties say.

### Bounds

| Bound | Value | Why it is enough |
|---|---|---|
| `MaxJobs`, `MaxEdits` (runner) | 3, 1 | one run to leave residue, one to recover from it, one to run over what that left; an edit between any two |
| `Jobs`, `Calls`, `MaxRequests` (job manager) | 2 with 1 and 1, or 1 with 3 and 3 | one job deleted or failing while another waits, over one output directory; three threads that record in any order, of which the middle one may leave a gap. `MCEngineJobs` takes the two apart (`part`): the threads of a capture do not depend on a second job |
| `Suites`, `Jobs`, `Handlers` (runs) | 1-3, 1-2, 1-2 | an origin, a replay, and a replay of the replay; a run and its re-run; two requests that overlap |
| `Captured` (runs) | 2 and 1 chunks | the gap between two chunks is where the next run slips in |
| `MaxAttempts` | 1 or 2, in place of 200, 1500 and 2880 | an attempt that is not the last and one that is; only that difference is in the code |
| `MaxSpecs` | 2 | a specification, and its replacement while the first's build is out; a third is to the second as the second to the first |
| `MaxLoops` | 2 | the loop that should be there and the one attached beside it. It is a bound on *attaching* only; `start` is not bounded by it |
| `MaxFaults` | 1 | one restart (of the backend or of the engine-service), failed write or database failure at any point |
| `MaxVerifyAttempts`, `SignupTTL`, `ResetTTL`, `TicksPerSecond`, `MaxTime` | 2, 2, 1, 2, 3 | a wrong guess that is not the last; a code and a link before and after they lapse; two instants of one second and the next second |
| `MaxRequests`, `MaxSecrets`, `MaxUsers` (accounts) | 5, 3, 2 | sign-up, verification, reset request, reset and a login, any two overlapping; a code or link, its successor and one more; an account, and another on the address the first gave up |
| `MaxRequests` (memberships) | 5 | creating the project, inviting, and three requests that answer, revoke, change or invite again |
| `Failed`, `Captured`, `BatchSize`, `MaxPerCall`, `Budget` (reports) | 3, 2, 2, 2, 2 | two cases for the model and one explained from its status; a full batch and a rest; a pass that ends for its budget |
| `MaxRuns`, `MaxPresses`, `MaxRestarts` (reports) | 2, 2, 1 | a batch out while the rows are replaced; two presses at once |
| graphs (pages) | 3 matches and Q-values, 2 edges, `MaxShown` 1, `MaxSide` 1 | two candidates for one parameter and one for another; ties, negative and positive Q and noise below `QEpsilon` (2, of values -2, 1 and 2), an operation only the table knows, a self edge, a cycle of two; one edge cut, one card folded |
| requests (pages) | 3 per run, of 12 kinds; 2 per page; `MaxApart` 1, and then 2 per run | an endpoint with mixed answers beside one with none; a full page and a rest; one request only the engine or only the proxy saw, beside one both did |
| `MaxChoices` | 2 | two questions out at once; `MCRunPages` lets the run be started again under its page while a choice is to come, as a re-run that nothing follows shows nothing new |
| `MaxIds`, `MaxEdits`, `MAX_HEADERS`, `MAX_EXCLUDED` (scope) | 3, 3, 2, 2 | an endpoint removed and made again under a form; a row edited twice; one header and one unticked endpoint too many |
| schemas (details) | two named, two properties, depth 3 | circles of one and two references, and a chain deeper than the limit |
| `MaxTurns`, `MaxSessions` (web) | 1, 2 | one change by others, lost request or turn away, at any point; a session and the next |

The web run has a tab with one operation at a time: two writes of one tab at
once are not checked. `WebInit` starts on pages already loaded, and on the page
of a run, the one with the most answers, an admin stands for the owner, whose
offers and rights there are the same.

### Fairness

- `EngineRunner`, `EngineJobs`: `WF` of the worker's steps. The worker
  thread is a daemon loop the operating system schedules, and `proc.wait` has
  a timeout after which the engine is killed, or at least given up, so
  `run_real` always returns.
  No fairness is asked of the engine, the users, or the proxied calls.
- `TestSuiteRuns`, `DependencyGraphs`: `WF` per poller and per replay.
  `setTimeout` fires, and every awaited call settles: HTTP calls
  answer or the connection breaks. Requests owe nothing: a run or build that
  is not `running` yet is not promised anything.
- `SpecGenerations`: besides the loops and the requests in service,
  `SF_vars` of `Reads`. While a generation is running the project page reads
  it again at every `GENERATION_POLL_MS` (`refetchInterval` in
  `frontend/lib/queries.ts`, lines 113-120), which is what attaches a loop
  again after a restart. Strong, because a single handler may be busy when the
  read comes; with no page open nothing reads, and the generation waits until
  somebody opens it, as the comment in `findForProject` says.
- `Reports`: `WF_vars` of `Tick`, the clock, and of each request's next step:
  awaits settle. For the call to the provider this is an assumption on what lies
  under the code: the `fetch` at `llm.service.ts:200` and `264` sets no timeout
  of its own, so it settles when the provider answers, the connection breaks or
  the HTTP client below it gives up.
- `WebCache`: `WF` of the poll (`refetchInterval`) of what the page shows as
  running, and of the answers to reads. Nothing is asked of the user.

`NoJobStarves` lets a job wait where the worker thread is dead, `BuildEnds`
lets a build hang after a database failure or a restart: in both cases the code
does hang there (see below), and the property says what is left.
`RunsAreWatched` ends where the page is left, the session is refused or the
user is let out of the project.

## Theorems

Each is `Spec => []Inv` or an action property, for every value of the
constants that satisfies the named `ASSUME` of its module. These give the
constants their kinds; `NoAnswerAssumption` says that no cache entry is the
value that stands for none, and `GraphMergeAssumption` that the nodes are
finitely many and that the code's `null` is no number. Assumptions on the
environment or `Faults` are stated in the theorem or the property;
everything else that may fail in the model may fail in it.

| Theorem | Module | Assumes |
|---|---|---|
| `RunnerTypeCorrect` | `EngineService_proofs` | nothing |
| `ConfigIsKept` | `EngineService_proofs` | the user does not edit over a dead run's residue and has a file; for the part that one of the files holds it, that no backup that was cut short was put back |
| `OwnConfig` | `EngineService_proofs` | nothing |
| `Restored` | `EngineService_proofs` | the service is neither killed nor stopped, no file operation raises, the user has a configuration |
| `Serialized` | `EngineService_proofs` | the service is neither killed nor stopped, its kills succeed |
| `TypeCorrect`, `Refinement` (of `EngineJobStatus`) | `EngineService_proofs` | nothing |
| `CapturesInOrder`, `ResultsOfOwnRun` | `EngineService_proofs` | nothing |
| `OriginsAreGenerated` | `TestSuiteRuns_proofs` | nothing |
| `ResultsBelongToLatestRun`, `CompletedRunsStay` | `TestSuiteRuns_proofs` | run requests for one row do not overlap, the database does not fail |
| `GraphsAreStaleOnlyIfOvertaken`, `RunningRowsAreEmpty` | `DependencyGraphs_proofs` | nothing |
| `InputsAreLists`, `MergeFollowsTheEvidence`, `TheGraphCanBeDrawn` | `DependencyGraphs_proofs` | nothing but the types of the input |
| `PolledIdsAreLive`, `DroppedIsGone` | `SpecGenerations_proofs` | nothing |
| `RowsSound`, `RolesGiven`, `ChangesByRight` | `Memberships_proofs` | nothing |
| `NoLinkWorksAfterItsUse`, `SessionsAreCurrent`, `CodesAreProofs` | `Accounts_proofs` | nothing |
| `CallsPaced`, `EvidenceSound`, `PaidIsKept` | `Reports_proofs` | nothing |
| `WebTypeCorrect`, `NothingOutlivesItsSession`, `PressesAreRefusedForCause`, `WhatTheUserDidShows` | `Frontend_proofs` | nothing |
| `RunsAreOfTheForm` | `Frontend_proofs` | nothing |
| `PageTurnsSoundly`, `OpenRowsSettle`, `RequestsAreMeant`, `RequestsAreShownSoundly` | `Frontend_proofs` | nothing |

The arguments:

- **The user's configuration.** `UserConfigKept` is not inductive: while
  `coreToml` is overwritten the backup must be there, and whether a backup may
  be overwritten depends on the step. `FilesInv` ties `stage` to both files. Its
  heart is that the file may be anything but the user's only while the backup
  is the user's, and that a backup is begun only where there is none and the
  file is the user's (`Handed`: or the torn one that was put over it). A kill
  changes `stage` to `down`, and an operation that raises changes it to `idle`,
  and neither changes a file, which is why the clauses for `idle` and `down`
  must already allow residue, a torn backup beside an intact file included. The
  next run puts that over the file, which is the one way left to lose the
  configuration, and `putBack` its name; the backup stays genuine or torn even
  then. `Restored` is the same invariant where nothing kills the service and
  nothing raises: then `idle` means no backup.
- **The engine's configuration.** `EnginesInv` says that before the spawn the
  current job has no engine, nor has any later job, that from `spawn` to `wait`
  the file holds the current job's configuration, and that whatever the slot
  and the signal handler hold is a job that was started. Orphans of a crashed
  service may read anything.
- **Serialization.** `OnlyCurrentAlive`: an engine that is alive is the
  current job's and the worker is between `Popen` and the end of its wait.
  `EngineTimedOut` keeps it by killing the engine before the worker moves on,
  where the kill succeeds: `_kill_tree` swallows its errors, and then the next
  engine starts beside the last. What an engine the worker waits for has read
  (`OwnConfig`) does not depend on it.
- **The status protocol.** A step of the worker on a job refines `Start` only
  if no registered job is running, so `QueueInv` (a queued job is pending,
  submitted, queued once) and `WorkerInv` (a running job is the worker's) are
  needed. Where writing `status.json` fails after the attribute was set, a job
  goes from completed to failed; the protocol allows that step as `Retract`,
  and the backend modules are checked over a protocol that may do it.
- **Captures.** `CaptureInv`: for every registered job the lines of its file
  ascend, and their numbers are those given out, less those of requests whose
  line failed (`InOrder`). A number is given under the context's lock and used
  up whether or not its line is written (`NextNumber`), so gaps stand for failed
  writes and nothing else; a job that is not submitted has no lines, so a new
  one starts from none.
- **Results.** `ResultInv`: from the moment the worker has cleared it, the
  output directory holds nothing, the current job's report, or one of
  `LostJobs`: the jobs a crash cut off, whose engines may still write. A lost
  job stays lost (`LostStaysLost`), so what is collected is never the report of
  a job somebody else still asks for.
- **Origins.** `OriginInv` adds that a request between `ReplayChecks` and
  `ReplayCreates` holds a row that is, or was before its removal, a generated run.
- **Results.** A completed row shows its job's results because a poller that
  has not yet decided polls for the row's current job and finds it running
  (`PollersOwn`); the same for replay tasks (`ReplaysOwn`); and a run request
  past its check is alone with a row that is not running (`RequestsAlone`).
  This is where both assumptions come in: overlapping requests break
  `RequestsAlone`, a database failure after `persistResults` breaks
  `PollersOwn`.
- **Rows of graphs.** `LatestInv` of `DependencyGraphs_proofs`: whatever is in
  flight, and the graph of the row, is of a specification that is `Accounted`
  for: the one stored last, or one that was replaced with a build of it in
  flight. A replacement takes the row away and marks what is in flight, so that
  both go on holding for the next specification; nothing else changes what a
  build was given.
- **Generations.** `PollingIsLive` is inductive over the types; what the proof
  has to show is that each step that ends a loop takes the id out as well.
  `DroppedStaysDropped` follows from the types alone, for every update is by id.
- **Rows of members and invitations.** `RowsAreSound` is inductive with the
  types of the tables and of what each handler carries: a statement that writes
  a row checks in that same statement that the project and the account exist,
  by its foreign keys, and a deletion takes the rows with it.
- **Roles.** `OfferInv`: an invitation stored (`StoredAsOffered`), and one a
  handler has loaded (`LoadedAsOffered`), carries the terms that were offered
  under its id, whatever was offered since. `JoinsByAccept` shows that a member
  row appears only in an acceptance or with its project, and with which role.
- **Rights.** `RightInv`: ids of invitations are never used twice, and the id
  of a draft not yet written is neither a row's nor revoked. So a loaded
  invitation that was revoked finds no row of its id when it is accepted, and
  a new one for the same person does not stand in for it.
- **Links.** `LinkInv`: a burnt link stays burnt, a request that holds a link
  to set a password with has burnt it, and a new link has a number no other
  request has seen; what a request retires was live when it saw it. `ResetInv`:
  a link that set a password is burnt, so that a request made after it finds it
  so; one that has it in hand was made before the first use. Hence whoever shares
  a link overlapped.
- **Sessions.** `SessionInv`: account numbers are not used again, and for each
  session, and each sign-in under way, either the proved password is still the
  account's or the password changed after it was read. The comparison in whole
  seconds then says the rest.
- **Codes.** `CodeInv`: the code of a pending sign-up was issued for exactly
  the name and password the row holds, no code is issued twice, and it is
  mailed only to the address of its sign-up. A handler that promotes a row
  keeps what it read, so that this survives the row being replaced meanwhile.
  A code that made an account cannot come back, for the row went with it and
  codes are new.
- **Pacing.** `SlotsInv`: the slot that is free next lies beyond the interval
  of every slot claimed, and both come nearer together; a slot is claimed before
  its request waits, so no two waiters read the same. No call starts before its
  slot; one that wakes late starts after it, and may be nearer to the next.
- **Evidence.** `Types` has that an answer in hand is about the row it was
  asked for. `EvidenceInv`: the cases that are there are of the current run,
  and of a complete one, so a report that read the suite first finds no cases
  older than it.
- **Paying.** `PaidInv`: a case that nothing excuses (a second press that finds
  it in the first's hands, a restart, a store that throws) is in the hands of one
  press at most and unpaid until that press sends it; once paid it is stored or
  gone, or its answer is still in that press's hands. So who finds it blank in
  nobody's hands finds it unpaid.
- **Descriptions.** `LogsInv`: until its captured requests are stored a run has
  none, so storing them overwrites no description; and what a second pass
  writes over a description is that same description.
- **Sessions of the browser.** `SessionsInv`: the cache, its copy on disk and
  the answers on their way are each of the session they are kept for, or under a
  key in `late`, put there by a write that outlived its session; what a write
  keeps for its undoing is of the session that pressed it, and only a revoked
  session is answered 401. The property speaks of what is on screen; the copy on
  disk and the undoing are how an older session could come back to it.
- **Offers.** `PressedAsOffered` relates a press on its way to what its page
  showed when it was pressed. The rest is a comparison of two tables, `Offers`
  and `Admits`, for every operation and screen: what the backend asks beyond
  role and status is asked of the operations in `OfferedBlindly` alone.
- **One's own writes.** `OwnWritesInv` has three parts. `TruthInv`: an answer
  that says the operation was obeyed does not lie, but for a guess whose write
  is on its way, and for that one the answer to go back to is kept. `ReadsInv`:
  one read is in flight at a time, and until the write is answered a read of
  what it changes was sent by the page still there or ahead of it, so the
  write's cancellation reaches it. `DoneInv`: once the write is done, a fresh
  answer shows it, and a read on its way that does not will be dropped or
  overtaken. That every operation's hook is enough for this is a fact about the
  table `Effects`, checked row by row (`EffectsAre`); what it is not enough for
  stands in `LeftToAge`, pair by pair.
- **The form of a run.** `ScopeInv`: form, request, stored run and job each
  agree with the rows there are now: an id names the operation it named, for ids
  are never given out again, and an id unticked whose row stands was listed.
  `RowsMove` shows that every change of the rows keeps this, the document
  replaced, a row added or removed; after it each step hands on what it read.
  `NamesOfRows` bounds the headers sent by the rows entered, of which the last
  of a name counts.
- **The requests page.** `ListInv`: an answer kept under a key is of that key,
  of a run that was browsed, and its rows are empty only behind the last page;
  and a page but the first was turned to from one whose answer says it exists.
  `PanelInv`: the open row's details are awaited, came, or failed, and a spinner
  turns only while something is awaited. `SendsInv`: a row is `loading` exactly
  while one request of it, sent from the page as it is open (`here`), is on its
  way, and the row in the dialog is not; leaving the page takes `here` from all.
- **Induction.** The library's induction theorems cannot be instantiated, but
  over a set they can be done without: `LeastOfSome` takes the least number of
  a set from the theorem that `<` on `Nat` is well-founded, `AllOfThem` is
  induction for membership in a set, and `Unrolls` says that a recursion over
  the prefixes of a sequence has a solution, so that a recursive function
  evaluated by `CHOOSE` has the values its equation says. `AskedIsAList`, what
  a list is asked for, is done this way. A fold is a `CHOOSE` over the sets of
  a list's indices; `FoldRuns` makes of it a recursion over the prefixes, and
  each fold of the merge gets a lemma that unrolls it once (`WinnersUnroll`,
  `MatchesUnroll`, `DiscoveredUnroll`, `PickedUnroll`, `SortedUnroll`).
- **The merge.** Its state is its input, so `GraphTypeOK` is the invariant and
  the rest is about the functions. `WinnerIsBest`: `Better` compares five
  numbers in turn, so that who is not better than the best so far is not better
  than who beats it (`BetterOrders`). `ResolveSays`: the edges are one for each
  pair of the winners and say what their matches come to (`Says`), sorting and
  cutting apart. `DiscoveredQs`: a candidate's Q is the first of its field in
  the table. Two winners of one parameter in two orders tie in `Better`, and
  ties are alike in all that is drawn (`TiesAreAlike`), the Q included, because
  it is of the same field; so a rebuild is the same, but for the sign of an
  edge's strongest Q, which `strongestQ` takes from the first of two opposites. `CutKeeps`: what comes
  before an edge that was learned comes before each that is only predicted, so
  the first cannot be cut while the second stays. `PlacesDiffer`: `Before` with
  the list's order is a total order, no two edges share a place, so the ceiling
  holds.

Only model-checked: the liveness properties (`ConfigComesBack`,
`NoJobStarves`, `RunsEnd`, `BuildEnds`, `GenerationEnds`, `PressEnds`,
`RunsAreWatched`), because liveness under fairness is not in the prover's
reach; and, of the page
modules, three that are about functions of data:

- `RunFiguresAgree` compares sums over a run's requests, computed by folds and
  filters in the code's various ways. Each fold could be unrolled as those of
  the merge are, but `SelectSeq` is defined by a recursion inside its own body,
  which the provers do not unfold, and each figure has a filter of its own.
- `GraphAndViewAreSoundHere` is proved in two of its parts, that the graph can
  be laid out and that its figures add up (`TheGraphCanBeDrawn`). The others,
  a stored graph brought forward and the view, put sets in a list by
  `SetToSeq` and `SetToSortSeq`, a `CHOOSE` among the permutations, and the
  latter by a comparison that is not an order where weights tie.
- `DetailsAreTheDocuments` follows references with a `RECURSIVE` operator, and
  no theorem can stand in a module that reaches one.

## Where the code departs from its documentation

One departure is a run of its own that ends in a counterexample, `suites_mixture`: the row
is completed before the captured requests are stored, so the suite can be run
again while the first poller inserts: the row ends with requests of both runs,
which `documentation/TEST_REPORT.md:1013` excludes.

The others are what the models allow and the properties' exceptions name.

Runs, graphs, generations, engine:

- "best-effort; not fatal to the run" (`test-suites.service.ts:1049`), but an
  exception from storing the requests is not caught before `poll`'s own catch:
  the completed run is polled and persisted again, and marked failed on the
  last attempt. `CompletedStays` holds where the database does not fail.
- A build of a replaced specification fills the row of the next build, against
  `schema.prisma:396-397` and the comment at `specs.service.ts:124-127`: the
  poller of the overtaken build writes by project id. The model has it;
  `StaleOnlyIfOvertaken` says that there is no other way to a stale graph.
- A run is completed before its captured requests are fetched, and stays so
  without any when the fetch fails (`test-suites.service.ts:1072-1077`), its
  report, which is the engine's own count, beside an empty list.
- A read that saw the row running attaches a loop after `markFailed` took the
  id out of the set. `upsert` keeps the row id, so that loop stores the old
  job's document in the next generation, against `spec-generation.service.ts:139-140`.
- SIGTERM between `Popen` and the assignment of the slot leaves the engine
  behind (`EngineRunner`, `Register`), which `wsgi.py:18-30` means to prevent.
- When `_fail` cannot write `status.json`, the worker thread ends
  (`EngineJobs`, `pc = "dead"`) in spite of "record and keep serving"
  (`jobs.py:167`).
- Rows left `running` by a restart of the backend stay so: no start-up code
  looks for test runs or builds, and both refuse to start while running. The
  graph poller's `persist` and `markFailed` swallow database errors, with the
  same effect.
- `copy2` empties the backup before it fills it. When it raises in between (a
  full disk, fault `ioFail`), or the service is killed there (`copyCrash`), the
  next run moves half a configuration over the intact file: what a backup found
  on disk holds is not always "the genuine user config" (`runner.py:637-638`).
  An edit over a dead run's residue, and a missing `configurations.toml`, cost
  the user's file or leave a job's in its place (`lateEdit`, `delete`).
- `_kill_tree` is best-effort (`runner.py:489-507`): an engine that survives it
  runs beside the next one (`killFail`), which reads its own configuration
  still.
- `record_request` numbers a request before it writes it (`jobs.py:141-145`): a
  write that raises leaves a gap in the numbers, one that raises half-way a line
  that makes the whole file unreadable.
- An engine that outlives a crash can leave its report where the next run of
  the specification collects it (`EngineJobs`, `OrphanEnds`).
- Two run requests for one suite that overlap start two jobs. `run` does not
  reset `TestSuite.dependencyGraph`. Removing the specification leaves its
  graph. `apply` deletes the generation by project, not by row.
- The comment on `executeReplay` (`test-suites.service.ts:1185-1191`), "no 5xx =
  pass" like `endpointOutcome()`, describes
  another verdict than its code at 1296-1298, which passes an endpoint whose
  most frequent answer is below 500, whatever 5xx came beside it.

Accounts and members:

- A wrong guess that overlaps another writes a count that was read before it
  (`signup.service.ts:139-142`): guesses can outnumber `MAX_VERIFY_ATTEMPTS`.
- "The token is single-use" (`documentation/API.md:224`), but it is looked up
  and marked in two statements (`tokens.service.ts:107-131`): two requests with
  one link that overlap both set a password. `LinksEndWithUse` says that it
  takes that overlap.
- Overlapping requests for a link can leave two live ones (`tokens.service.ts:80`),
  and a login in flight during a password change gives a session that stays.
- Overlapping decline, accept and re-invite act on rows read before; the owner's
  member row can be demoted; a pending invitation may exist for a member.

Reports and settings:

- The fallback text of a failed LLM call is stored like an explanation and never
  retried (`reports.service.ts:183-192`). Cases stored with a text, of server
  errors and replays, are never explained.
- Describe pressed between completion and the storing of the requests reports
  nothing left to do. A press that is given up goes on, and the next one pays
  for the same rows, against "Reuse what is already stored rather than paying
  for it again" (`reports.service.ts:163`); so does a press after one whose
  explanation was bought and could not be stored (line 189). Overlapping settings updates lose one
  (`llm-settings.service.ts:123-143`). Pacing is forgotten at a restart.

What the pages show:

- Graph: two strongest Q-values of one edge that differ in sign only make it
  confirmed or penalized by the order they come in, though the keys are ordered
  so that a rebuild gives "the same picture" (`graph-merge.ts:231-234`);
  a learned Q-value is found by field name only (`graph-merge.ts:356-360`);
  edges to operations not listed are dropped after they won their slot
  (506-511); `hasLearned` ignores discovered edges; an endpoint with 4xx answers
  is amber there even where it succeeded.
- Figures: a replayed endpoint that never answered is labelled "Client error";
  one mostly unanswered with some 2xx is a failure "returned a 5xx" while the
  page says Successful; the CSV of a replay says "no" to server errors; 5xx of
  unmatched requests do not count in the "No faults" banner.
- Requests page: the loading and error state of the details is shared by all
  rows; a page beyond the end after a re-run hides the pager; truncated requests
  offer Run and the backend refuses; requests in flight go on when the page is
  left for another endpoint and are forgotten by it, so that coming back one can
  be sent while the first is on its way (`requests/[endpointId]/page.tsx:340-341`).
- Run form: unticked endpoints are ids. After a row is removed or the
  specification uploaded again (`endpoints.service.ts:107`, `specs.service.ts:130`)
  they name nothing, and the operation is tested, also by re-runs of old
  suites (`test-suites.service.ts:403-409`); the badge counts them still.
  Operations behind a path-level `$ref` have no row though the details page
  follows it; HEAD, OPTIONS and TRACE cannot be unticked; a removed endpoint is
  still tested; of two header rows with one name the last wins; names with
  illegal characters pass the form and are refused by the backend.
- Details: `security: [{}]` is shown as required.
- Cache: signing in or up does not clear the cache though the comments
  (`auth-provider.tsx:67-69`) count on it, a write that answers after the
  sign-out fills it again, and a reload within the second in which the copy is
  written restores answers from before the write. An answer set by a mutation is
  overwritten by a read that was under way; a first read under way is not
  cancelled by an invalidation, and a prefetch clears one. The lists of suites
  and projects and the history do not poll. What is left to age after one's own
  write (`LeftToAge`): the endpoint count beside the specification when an
  endpoint is added or deleted; the reports and requests of earlier runs when
  endpoints or the specification go, and the requests and history of the run
  that is started again; the replays a deleted run takes with it and the history
  of its family; the history of the origin when a replay is replayed, which "gains
  a row" only where the button was on the origin itself
  (`test-suites/[suiteId]/page.tsx:203`); and the roles of the open project.
- Offers: a build, a run and a replay are offered without a look at whether there
  is a specification, an endpoint or a captured request, and explaining and
  describing without one at the key, so that a press is refused on a fresh page
  (`OfferedBlindly`). A project's description cannot be cleared.

## Not modelled

- `ENGINE_MODE=mock`, `LLM_MODE=mock`, `render_config_toml`, `collect_outputs`,
  `validate_target_url`: pure, or not part of a deployment.
- Header filtering, truncation and path matching in `proxy.py`; parsing,
  validation and Swagger conversion of specifications: abstracted to their
  outcome. The wording of prompts, mails, documents and labels.
- The files and archive extraction of `generation.py` and `graphs.py`: their
  queue, worker and statuses are the ones of `jobs.py`, and the backend modules
  use them through the same protocol.
- The MARL engine: floating point, random choices and an LLM. `EngineRunner`
  has its lifetime and the one file it shares.
- OOPS: a pipeline without state between runs.
- The sign-in pages, landing page, layout, menus and toasts; responses and
  examples in the details of an operation; rate limits of the controllers.

## Plan

Done, in this order, the most consequential first: the runner, the job
manager with its protocol, test runs and replays, graphs, generations, with
their proofs; then accounts, memberships, reports; then the pages: merged
graphs, figures, requests, forms, details; then the cache that feeds them.

Left, in the order of what they would add:

1. Proofs: the figures of a run (`RunFiguresAgree`) and a stored graph brought
   forward (`UpgradeIsStable`), by the inductions of `Frontend_proofs` and
   `DependencyGraphs_proofs`.
2. Two writes of one tab at once in `WebCache`, and a second tab that shares the
   persisted copy and the token.
3. `generation.py` as a module of its own, for its archive and its `proxy`-less
   worker, in place of taking it for a second `jobs.py`.
4. The bookkeeping of the engine's main loop as pure functions over bounded
   inputs, checked against a reference definition.
