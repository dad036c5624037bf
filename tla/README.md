# Verification of Lightdash's shared state

TLA+ models of the five parts of Lightdash whose state is shared by several
processes or callbacks and changed in steps with awaits in between:

1. the execution of warehouse queries, with their results cache;
2. scheduled deliveries, with their job queue;
3. the refresh of a project, which replaces its explores, tags and parameters and
   rebuilds its catalog;
4. how the rows of a query become a file of results and how the frontend reads it
   page by page;
5. the connections to warehouses: the clients that are kept and the SSH tunnels that
   are opened.

Paths below are relative to `packages/backend/src` of the repository, or start with
`packages/`.

## Inventory

| Component | State | Operations | Talks to |
|---|---|---|---|
| Async query service (`services/AsyncQueryService`) | none of its own | execute, cancel, run in the warehouse, fetch a page, poll and download | query history, cache, storage, job queue |
| Query history (`models/QueryHistoryModel`) | table `query_history` | create, update, get, newest row of a cache key | |
| Results cache (`ee/services/CommercialCacheService`) | none: it reads `query_history` | find a reusable file | query history |
| Results storage (`clients/ResultsFileStorageClients`) | objects in a bucket | open an upload stream, close it, read | |
| Job queue (`scheduler/SchedulerClient`, graphile-worker) | `graphile_worker.jobs` | add, delete by scheduler, run, retry | scheduler model (log) |
| Worker (`scheduler/SchedulerWorker`, `SchedulerJobTimeout`) | tasks in progress | the midnight task, one task per job type, the timeout | everything above |
| Scheduler service and model (`services/SchedulerService`, `models/SchedulerModel`) | tables `scheduler`, `scheduler_*_target`, `scheduler_log` | create, update, enable, disable, delete, log | job queue |
| Delivery tasks (`scheduler/SchedulerTask`) | none of its own | handle a delivery, check thresholds, make the page, queue and send notifications | scheduler service, queries, storage |
| Project service (`services/ProjectService`, `models/ProjectModel`, `TagsModel`, `ProjectParametersModel`) | tables `cached_explore`, `tags`, `project_parameters`; an advisory lock | refresh, update and deploy a project; save explores | job rows, job queue, catalog |
| Compilation jobs (`models/JobModel`) | tables `jobs`, `job_steps` | start, end, fail and skip steps | polled by the frontend and the CLI |
| Catalog (`services/CatalogService`, `models/CatalogModel`) | `catalog_search` and the tables of its tags, icons and edges | index, put marks back, users' edits | project tables, by foreign keys |
| Results pagination (`services/ProjectService/resultsPagination.ts`) and pivoting (`runQueryAndTransformRows`) | the stream of one execution | lines from rows, pages from lines | storage, query history |
| Results hook (`packages/frontend/src/hooks/useQueryResults.ts`) | pages fetched, the page asked for, the query client's cache | poll, append, ask for more, change the query | async query service |
| Warehouse connections (`_getWarehouseClient` of the project service, `packages/warehouses/src/ssh/sshTunnel.ts`) | clients by project and size, open tunnels | connect, take or make a client, disconnect | settings of projects, credentials of users |
| Query builder, explore compiler, drivers of warehouses | pure, or third-party | SQL text, query execution | |
| Content (charts, dashboards, promotion, renaming, validation) | versioned rows | CRUD in transactions | |
| Permissions, enterprise features, rest of frontend and CLI | | clients and rules | |

What is hard:

- **Query rows** are read, and much later written by one unguarded `UPDATE` (only the
  transition to READY checks the status). A request, an executor in another process, a
  cancellation and any number of readers work on one row. Processes crash, database
  answers get lost, and a job that times out loses its place in the queue while its
  promise runs on.
- **Cached results** are shared: a row that hits the cache copies name and expiry of
  another row's file, which may itself be a copy.
- **Schedulers and their jobs** live in unrelated tables, without a transaction over
  both. Each API call deletes jobs, writes the row, reads it back and adds jobs; the
  midnight task adds jobs from a list it read before; a delivery may disable its own
  scheduler.
- **A project's tags, parameters and explores** are replaced by three separate writes.
  Saving the explores cascades to the catalog, whose tags, icons and edges users made by
  hand: they are read before, and put back by another job, which finds rows again by
  name and base table, which several explores share. Refreshes exclude each other by an
  advisory lock; updates, deployments, index jobs and users do not.
- **The results hook** asks for pages, polls, appends and resets in effects of renders,
  while the query on the screen changes and answers come from a cache.
- **Warehouse clients** are kept for ever and never invalidated. Between two uses the
  settings of the project, the user and the local port of the tunnel may change, and a
  port that is closed is given to another tunnel. Tunnels are closed by whoever opened
  them, on some paths only.

What makes them correct: a file that is named is whole; results are written once, never
to a cancelled query, and never outlive their data; the warehouse is asked once;
everything settles when nothing fails; an enabled scheduler keeps its jobs; a deleted
one leaves nothing behind; refreshes do not mix and nobody is locked out; a job that is
done was done; the catalog catches up with the explores and keeps what users put there;
a file has the lines of its query, and what is on the screen is the beginning of it and,
in the end, all that is wanted; a query runs where and as whom the settings say, and
nobody is cut off when another closes a tunnel. `PROJECT.json` lists each hazard at its
line with the properties that watch it.

## Modules

| Module | Contents |
|---|---|
| `AsyncQuery` | calls, rows, executions, jobs, files, readers, clock, faults |
| `QueryResults` | the abstract specification: what a reader may rely on |
| `AsyncQuery_proofs` | theorems about `AsyncQuery` |
| `MCAsyncQuery` | instances for TLC: key assignments, symmetry |
| `ScheduledDelivery` | scheduler rows, jobs, API calls, midnight task, deliveries |
| `ScheduledDelivery_proofs` | theorems about `ScheduledDelivery` |
| `MCScheduledDelivery` | instances for TLC: days of three time units, two crons |
| `ProjectRefresh` | refreshes, updates and deployments, job rows, the lock, explores, tags, the catalog and its index jobs, users |
| `ProjectRefresh_proofs` | theorems about `ProjectRefresh` |
| `ProjectRefreshMarks_proofs` | that marks survive where savers come one at a time |
| `ProjectRefreshCatalog_proofs` | that the catalog is not forgotten |
| `MCProjectRefresh` | instances for TLC: explores of two models, two configurations |
| `QueryRows` | the rows of a query, the lines of its file, its count |
| `ResultsPages` | `QueryRows` composed with the server's pages, the query client and the hook |
| `ResultsPages_proofs` | theorems about both |
| `MCResultsPages` | instances for TLC: kinds of queries, names of groups |
| `WarehouseConnections` | settings of projects, cached clients, tunnels and their ports, uses |
| `WarehouseConnections_proofs` | theorems about `WarehouseConnections` |
| `MCWarehouseConnections` | instance for TLC: two hosts behind a tunnel, one account without |

### AsyncQuery

One atomic action is what runs between two awaits.

- `FindResultsCache`, `Create`, `MarkReadyFromCache`, `RejectMissingParameters`,
  `RunInMainLoop`, `ScheduleTask`, `LogScheduledTask` are `executeAsyncQuery` in
  order; `req[q]` is its local state. The cache is looked up *before* the row
  exists, so what was found may be old when it is used.
- `PickJob`, `JobTimeout` are the queue worker. `Settled` records how a task ended
  unless the timeout has already completed its job.
- `OpenUploadStream`, `RunQueryAndTransformRows`, `CloseStream`, `MarkReady`,
  `ExecutionThrows`, `MarkError` are `runAsyncWarehouseQuery`, in the main loop or
  in a worker; `exec[q]` is its local state. `MarkReadyAnswerLost` and
  `MarkErrorThrows` are the database failing at the two writes.
- `CancelAsyncQuery` writes the row and tells nobody.
- `GetAsyncQueryResults`/`ReturnPage` and `StartPolling`/`PollSettled`/
  `DownloadPolled` are the two ways to read; a reader keeps what it read.
- `Crash(host)` takes an API server or a worker with all it was doing.

Abstractions. Rows carry status, file, expiry and page size; columns, counts and
metadata travel with the file. A file is named by the query whose execution wrote
it, because the code appends a nanoid to the cache key. `lastRow[k]` stands for
`ORDER BY created_at DESC LIMIT 1`. Row contents, pivots and permissions are left
out: every caller is authorised. A reader's page size, parameter checks and
failures are free choices.

`QueryResults` has statuses, results and uploads only: pending queries are given
results once, in the step that makes them ready, either their own complete upload
or a result of a query with the same key, expiry included; failure and
cancellation may strike at any time, results stay. `AsyncQuery` implements it with
`status`, `result` and `uploaded` read off `rows` and `store`.

### ScheduledDelivery

- `CreateScheduler` or `StartCall`, then `DeleteScheduledJobs`, `WriteRow`,
  `ReadRow`, `GenerateDailyJobsForScheduler` are the calls of `SchedulerService`
  (and the creation in the chart and dashboard services). `WriteRow` follows what
  each statement writes: an update leaves `enabled`, enabling leaves the rest.
- The jobs of one generation are inserted concurrently: `adding` holds those on
  their way, `AddScheduledDeliveryJob` inserts one.
- `GenerateDailyJobs`, `GenerateFor`, `EndGeneration` are the midnight task, with
  the list it read and three attempts.
- `PickDelivery`, `ReadScheduler`, `CheckThreshold`, `HandlerDeletesJobs`,
  `HandlerDisables`, `GetNotificationPageData`, `QueueNotification`, `EndDelivery`,
  `Fail` are `handleScheduledDelivery`.
- `SendNotification` is any of the senders; sent or not, its job has one attempt.
- `SetOwnerActive` deactivates or activates the owner of a scheduler. The midnight task
  reads the enabled schedulers of active owners (`getAllSchedulers`); `gen.skipped` are
  the enabled ones that it left out. Deliveries do not ask whether the owner is active,
  and activating him gives his schedulers no jobs before the next midnight or edit.

Abstractions. Jobs are counted by scheduler, time and retries left. A cron is the
set of times it matches. The outcome of a threshold and of making the page is a
free choice among those the code distinguishes (fires, does not fire, too few
results, an error that disables, any other error). `deleteScheduledJobs` selects
ids and completes them in two statements; the comment at `DropJobs` says why one
step is enough. After a failed attempt of the midnight task, what it had started
finishes before the queue's back-off ends. A crash releases jobs at once instead
of after hours, which only adds interleavings.

### ProjectRefresh

`run[j]` is the local state of a saver: a refresh (`compileProject`), an update of the
connection (`testAndCompileProject`) or a deployment (the three requests of the CLI).

- `ScheduleCompileProject`, `UpdateAndScheduleAsyncWork`, `AddCompileJob` create the
  job row and queue the task. `TryAcquireProjectLock` starts a refresh or refuses it,
  `TestAndCompileProject` starts an update, without a lock.
- `MarkRunning`, `StartJobStep`, `TestProjectAdapter`, `CompileAllExplores`,
  `JobStepDone`, `JobStepFailed`, `Finish`, `FinishFailed` are the job with its steps:
  `tryJobStep`, `updateJobStep` and what the callers write themselves.
- `ReplaceYamlTags`, `ReplaceProjectParameters`, `ReadTags`, `ReadIcons`, `ReadEdges`,
  `SaveExploresToCache`, `QueueIndexCatalog` are what all savers share. Deleting tags
  and explores cascades as the migrations declare (`WithoutTags`, `WithoutRows`).
- `ReadExplores`, `ReadYamlTags`, `DeleteRows`, `InsertRows`, `ReadRows`,
  `MigrateCatalogItemTags`, `MigrateCatalogItemIcons`, `MigrateMetricsTreeEdges` are
  the index job. Its transaction reads at its `DELETE` and writes at its commit, when
  foreign keys are checked (`ReferencesHold`).
- `TagCatalogItem` to `DeleteVirtualView` are the users; `Crash` takes one task and, with
  its connection, its lock.
- `Throws` is a failed call, at each place where the code handles it differently:
  `RunThrows` in a run, `UpdateThrows` before an update has its job, `IndexThrows` in the
  transaction of the index, whose error is only logged. A call that fails may have been
  committed and only its answer lost: `PartlyWritten` says which rows of the job it leaves
  behind, so that the catch block may write ERROR over a DONE. The lost answer of any other
  write is the same as a failure of the call that follows it.

Explores that do not compile (`broken`) are saved as errors, like the others, and never
indexed: the catalog owes rows to `Explored` only, and an explore that breaks loses the
marks on it. A save is refused ("No explores to save") when there is no explore at all.

Several explores of one dbt model have the same metrics, and the migrations know a metric
by its name, base table and type only: `MetricOf` gives explores that share a model the
same metric, `Firsts` picks the row that is found first. What follows is in the model, and
therefore in the properties, which are about metrics and not about rows: every explore of
a metric gets the tags of the first that had any, and the tags of the others are lost;
every explore gets the icon that one of them had; an edge moves to the first explore; and
two edges that joined the same metrics in different explores make the whole INSERT fail.

Abstractions. An item is an explore together with one metric of it that is marked. A
configuration is what a compilation finds: its explores, those that do not compile, the
tags it defines and the metrics it puts in them. An icon is there or not, whichever it is.
A uuid is the saver, or the edit, that generated it, for each saver saves and
indexes once. Names and colours of tags, changed explores of a view (which keep its
uuid), chart usage, search, creating a project and the semantic layer upload are left
out.

### QueryRows and ResultsPages

`QueryRows` is `runQueryAndTransformRows`: `WarehouseRow` hands one row to the
callback, `WarehouseDone` ends the stream. A pivot collects the cells of one index in
`stream[q].line` and writes the line when the next index comes (`Flushed`); the order
of its rows is that of the SQL of `applyPivotToSqlQuery` (`NextRows`). A cell is the
number of the row it shows. A pivot that groups by nothing writes its rows as they
are and counts none.

`ResultsPages` is a screen that shows them:

- `PageCount`, `ValidPage`, `HasNextPage`, `LinesOfPage` are the server's pagination.
- `Answered`, `RequestFails`, `PollAgain` are `queryFn`: an answer, an error, the sleep
  that ends in an invalidation. `Observed` and `Forget` are the query client (external):
  answers never go stale, requests are not retried, unused ones are dropped.
- `ChangeQuery`, `ScrollToEnd`, `Cancel` are the users, `Render` is a render of
  `useInfiniteQueryResults` with its effects in their order. Effects see the state of
  the render; what they set is seen by the next one.

Abstractions. Pivots are downloaded whole by the frontend (`executeQuery.ts`), so that
only plain queries are `Shown`. The answer to a request is one step: the row and the
file do not change between its reads, which `AsyncQuery` shows. Columns of a pivot,
paging in the warehouse, and a change of the project are left out.

### WarehouseConnections

`use[u]` is one piece of work that needs the warehouse of a project: an execution of
`AsyncQueryService`, another query, or a test or compilation with an adapter.

- `Start` reads the credentials: the project's, or the user's own where the project
  requires them. `GetWarehouseClient` is the rest of `_getWarehouseClient`, which awaits
  nothing once the tunnel is up; `GetAdapter` is `testProjectAdapter` and
  `buildAdapter`, which use no cache; `ConnectFails` is a tunnel that is refused.
  `ClientFails` is a client that cannot be made once the tunnel is up: the error leaves
  `_getWarehouseClient` before its caller has the tunnel (in an execution, before
  `sshTunnel` is assigned, so that the `finally` block has nothing to close), and the tunnel
  stays open.
- The cached client is compared with the credentials behind the tunnel, *before* the
  size (Snowflake warehouse, Databricks compute) that the explore asks for is put in;
  the key of the cache has that size.
- `Succeeds` disconnects. `ThrowsGuarded` does so in a `finally` block, which
  executions and compilations have. `ThrowsUnguarded` and `ReturnsConnected` are the
  paths that skip it.
- `TunnelBreaks` is an error of the SSH client or of the local server, which close each
  other; the port is free again. `UpdateProject` saves other settings.

Abstractions. An address is a host and a port, which is what a tunnel overrides; all
other credentials are one user. A Postgres client makes a pool for each query, so that
a cached client connects to whoever listens on its port now. Left out: tokens that are
refreshed, computes that a Databricks connection does not list, and other processes,
whose caches and ports are their own.

## Runs

| Run | Instance | Shows |
|---|---|---|
| `faults` | 2 calls of one key, 1 reader, both hosts, 1 fault, clock 0..1 | types; named files are whole; READY only from PENDING; results written once; warehouse asked once; the refinement of `QueryResults` |
| `cache` | 2 calls of one key, stale time 8, buffer 2, clock 0..9 | copies keep their expiry; a hit outlives the buffer |
| `live` | 2 calls, 1 reader, no storage, no faults, fairness | pending queries are owned, settle, and polls end |
| `timeout` (violation) | 1 call | a timed-out task runs on |
| `alerts` | 1 ONCE alert, 2 API calls at a time, an owner who comes and goes, 1 delivery, two days | types; an enabled scheduler that the midnight task did not skip has its jobs |
| `drain` | 1 image delivery, 1 call, 1 delivery, 1 fault, fairness | a deleted scheduler's jobs and notifications run out |
| `disabled` (violation) | 1 scheduler, 1 call at a time, the midnight task | a disabled scheduler can be left with jobs |
| `once` (violation) | 1 ONCE alert | a fired alert can disable itself and send nothing |
| `refresh` | 2 refreshes, 3 explores of 2 models, 2 configurations, no faults, fairness | types and keys; the lock; configurations are whole; jobs tell the truth and end; rows that are missing are owed, and the catalog catches up |
| `marks` | 1 update, 1 deployment, 3 explores of 2 models and a view, 1 edit or 1 fault, one at a time | jobs tell the truth and stay ended, through failures and lost answers; tags, icons and edges of metrics survive |
| `pages` | 2 queries of up to 3 rows, pages of 2, 2 changes or cancellations, 1 failed request, fairness | files have their lines; pages in order, all of them, none too many; nothing is waited for that nobody asked for; the rows come |
| `connections` | 1 project with 3 possible settings, 2 users, 2 uses, 2 ports | types; clients from the cache ask the right warehouse; closing a tunnel cuts nobody else off |

Bounds: `MaxTime` stops the clock, `MaxFaults` limits crashes and lost answers. Two
calls suffice for every race on a row or a key: copies of copies and other keys are
covered by the proofs, which speak of all calls and keys. One fault suffices to separate
any two steps of one call; the second fault only repeats the first on another row, and
rows interact through the cache alone. The proofs need none of these bounds. For
schedulers, which do not interact, one is enough; two calls and a delivery that disables
the scheduler give the pairs of operations that delete and add its jobs, and two days
give one midnight in the middle of them. `CHECK_DEADLOCK` is off everywhere: an instance
stops when its calls, its clock and its faults are used up.

For projects, two savers give every pair of steps that interleave. In `refresh` both are
refreshes, whose index jobs overlap although the lock keeps them apart (267 000 states).
The two configurations differ in an explore, a tag and a category, so that going from
one to the other adds or deletes each, and in an explore that compiles in one of them
only; two explores share a model. `marks` has the savers without a lock, and two action
constraints that state when marks are safe: `OneAtATime` (nobody saves or edits while
another saves and indexes) and `OwnTags` (users leave the tags of `lightdash.config.yml`
to it); `CarefulSpec` is the specification with both. Without either, TLC loses a mark
in a few steps, as the hazards list; the code calls the migration "best effort". Its
state constraint `EditOrFault` takes either an edit or a fault (708 000 states): jobs
know nothing of marks, and the survival of marks says nothing of runs with faults, so
that no property needs both. In `pages`, three rows make a full page and one that is
not; two changes leave a query and come back to it. Its queries are both shown, or one
is a pivot and the other an ungrouped one.

In `connections`, two uses and two ports are enough for a port to be given away again
while the cache still has the client of its last use, under other settings too, and for
leaked tunnels to hold every port; sizes and personal credentials need no tunnel.

The instances are small where the property lets them be: `alerts` has no targets and one
cron, calls are symmetric, and the constraint `JobsToCome` ends it when no job can be
still to come; the proofs speak of all crons.

### Disagreements with the documentation

- `timeout`: `scheduler/README.md` says a task that takes too long is killed.
  `tryJobOrTimeout` races it and stops waiting; the task keeps running.
- `disabled`: `SchedulerTask.ts:2780` says a disabled scheduler's job "should not
  happen" because its jobs are removed. The midnight task, holding a list read
  before, adds them after they have been removed. The delivery then throws, so the
  effect is a failed job, not a message.
- `once`: `SchedulerTask.ts:2840` says the alert "will get sent once this time".
  The scheduler is disabled before the image or file is made; if that fails,
  nothing is sent and a retry finds the scheduler disabled.

Three more, that no run shows as a violation. `ProjectService.ts:840` says a cached
client is never found if a tunnel was connected; it is when the system gives a port away
a second time, which is sound (`QueriesReachTheirWarehouse`). `ProjectService.ts:829`
says the user of a tunnel needs to close it; a query that throws, a client that cannot
be made once the tunnel is up, a value from the autocomplete cache, a page of results
that are not stored and the columns of a virtual view leave it open, and only a broken
SSH connection or the end of the process closes it. A tunnel that breaks while a query
is prepared may have its port taken by the tunnel of another warehouse: this is the
exception `Broken` of `QueriesReachTheirWarehouse`.

### Fairness

`AsyncQuery!FairSpec`: weak fairness of each request, each execution, each read and of
the queue handing out each job. This is what an event loop that resumes awaited
promises, a warehouse that eventually answers or fails, and a polling worker give.
Cancelling, timing out, time and faults are never fair. `PendingIsOwned` and
`PendingSettles` say nothing about runs with faults: the code has no recovery of rows
left PENDING by a crash, and a request that throws after `Create` leaves such a row too.

`ScheduledDelivery!FairSpec`: weak fairness of started work and of the clock
(jobs of later times must come due), strong fairness of taking each job: with all
handlers busy a job is not takeable, but the queue serves by time, so no job is
passed over for ever.

`ProjectRefresh!FairSpec`: weak fairness, for each saver, of its task and of its index
job; being asked to refresh, deploying, editing and failing are not fair. A refresh
that does not get the lock throws, its error is only logged, and its job stays
STARTED: `JobsEnd` names this exception. A job that is DONE may turn to ERROR when the
answer to the write of DONE was lost; `EndedJobsStayEnded` names that one, and a poller that
stopped at DONE does not notice.

`ResultsPages!FairSpec`: weak fairness of the warehouse, of answers, of the end of each
sleep and of rendering what was set. Users owe nothing, so `RowsCome` promises a
table its first page and only a chart all rows.

`WarehouseConnections` states no fairness: its properties are about safety.

## Proofs

`AsyncQuery_proofs` proves, for all sets of calls, keys, readers and page sizes,
for all times and any number of faults, from the named assumptions of `AsyncQuery`
alone:

- `Invariance`: `Spec => []IInv`;
- `TypeCorrect`, `NamedFilesComplete`, `FilesKeepTheirExpiry`, `HitsOutliveBuffer`:
  the four state invariants the runs check;
- `ReadyOnlyFromPending`, `ResultsNeverReplaced`, `AskedOnce`: the action properties;
- `Refinement`: `Spec => Abstract!Spec`.

The invariants are not inductive by themselves. `NamedFilesAreComplete` is broken by
a step from an unreachable state in which, say, a request
holds a cache hit on a file nobody finished. `IInv` adds what rules this out:

- `OneExecution`: before a request is dispatched there is neither a job nor an
  execution, and a job whose query has an execution has used its attempt;
- `UploadProgress`: the file of an execution is as far as the execution's phase;
- `ResultsTrue`: a result that a row or a hit carries is a complete file of the same
  key with the expiry of its execution, so a copy of it is one too;
- `LatestRows`: `lastRow[k]`, when there is one, is a row of key `k`;
- `RowLife`, `HitsHaveSource`, `HitsExecuteNothing`: which rows may be pending, that
  a hit was found at a time when the buffer held, and that it runs no execution.

`NextIInv` goes action by action; each conjunct has its own lemmas for the actions
that disturb it. The refinement maps each action to an abstract step or a stutter,
using `IInv`.

`PendingHasOwner` (`PendingIsOwned`) has an invariant of its own, `Owned`: while
nothing has failed, a pending row has an execution, a queued job, or a request in one
of the two phases that still decide about it.

`ScheduledDelivery_proofs`, for any schedulers, crons, calls, handlers, targets, length
of the day and number of days:

- `TypeCorrect`, from `TInv`: calls and the midnight task that are about to generate
  jobs have a cron, and the day they generated is not in the future;
- `SchedulersKeepTheirJobs` (`EnabledSchedulersHaveJobs`), from `JobsOwed`: for each
  time of the cron of an enabled scheduler that is still to come today, the job is in
  the queue or on its way, or someone owes it: a call that has yet to write, to read or
  to generate with the row's present cron, a handler about to disable the scheduler, or
  the midnight task. `EnabledSchedulersHaveJobs` is `JobsOwed` where nobody can owe
  anything; the schedulers that the last midnight task skipped because of their owners
  (`gen.skipped`) are the exception of both, until the next midnight. The interesting
  steps are deletions, whose author owes the jobs that go, and writes, which change what
  is owed: an update that overtakes another makes the other's cron an old one, and owes
  the new one itself.

The crons' times are assumed to lie within the clock's bound.

`ProjectRefresh_proofs`, for any savers, items, views, tags, configurations and bounds:

- `TypeCorrect` includes the foreign and primary keys. `TInv` adds that the tags of the
  configuration exist, that a saver indexes once (`IndexedOnce`), and that its rows are
  not there before (`FreshRows`);
- `NobodyIsLockedOut` (`LockIsHeld`) is inductive with `TInv`;
- `DoneTellsTheTruth`, `EndedIsTheLastWord` rest on `JobTruth`: what the rows of the
  steps say at each phase of the run, for a step is clean at the end because each one
  begins only after the one before was done. A job that is DONE while its run is in the
  catch block has all its work behind it (`Fine`), and faults never decrease (`FaultsGrow`),
  which is what the exception for lost answers rests on;
- `RefreshesDoNotMix` (`ConfigurationIsWhole`) rests on `WholeInv`: how much of the
  configuration the holder of the lock has replaced at each of its phases.

`ProjectRefreshMarks_proofs` is about `CarefulSpec`, whose conditions are the action
constraints of the run `marks`: `TagsAndIconsAreKept` (`TagsAndIconsSurvive`) and
`MetricsTreeIsKept` (`MetricsTreeSurvives`), for any number of savers, items and edits.
Until something fails, `MarkInv` holds:

- `OneBusy`: one saver at a time saves and indexes;
- `TablesRight`: rows are those of explores that compiled, and users' tags are not the
  configuration's;
- `Prepared`: what was read for the marks is what is there when the explores, and with
  them the catalog, are deleted;
- `Carried`: what is carried over names tags that still exist;
- `IndexRight`: the catalog is as the phase of the index job left it, with one row for each
  explore that compiled, so that the migrations find every metric that is kept and no
  reference refuses them.

Every other step leaves the marks where they are or moves all of them to the saver that
carries them (`SameTags`, `SameIcons`, `SameEdges`); only the three migrations change rows,
and theirs are the lemmas that speak of the first explore of a metric. That the initial
catalog has rows of compiled explores only needs `MetricsAssumption`.

`ProjectRefreshCatalog_proofs` proves `CatalogIsNotForgotten` (`CatalogIsOwed`) of `Spec`
itself: savers may overlap, with the lock or without. It is the part of
`CatalogCatchesUp` that is about safety: whenever an explore has no rows, somebody is
still going to insert them. Its invariant, `OwedInv`, follows the *owner*, the saver that
made the explores that exist (the rows that are owed are those of `Explored`). There is one
(`OneOwner`), for all explores are replaced
at once; what an index job has read is what exists, or all of it was replaced
(`Snapshots`), so that an insert puts everything in or is refused by the foreign key as
a whole; the tags the owner's index has read are stale only while somebody replaces them
who goes on to save (`TagsKnown`). Each condition of `CatalogIsOwed` is needed. A saver
that fails after replacing the tags leaves an index job with tags that are gone, and so
does one that found no explore at all, whose save is refused ("No explores to save"); a user
who deletes a view leaves one with an explore that is gone. The catalog then stays
empty until the next refresh.

`ResultsPages_proofs`, for any queries, groups, names, rows, page sizes and bounds:

- `FilesAreRight` (`FileIsRight`), from `RowInv`: while rows come, the lines written and
  the one being made show all rows so far, each with its own cells;
- `TypeCorrect`, `RowsInOrder` (`RowsAreAPrefix`), `NoPageIsRejected`
  (`OnlyPagesThatExist`), from `Inv`: what is cached as ready is final (`CacheInv`), the
  n-th page kept is page n of the query of the last render (`PagesInv`), the page asked
  for is the next one or one the next render does not append again (`ArgsInv`), and
  the last render saw the pages there are, those of another query, or all but the one
  it appended (`ShownInv`);
- `AllRowsWhenItSaysSo` (`AllRowsAreThere`): when the hook says that it has fetched all
  rows, its pages joined are the whole file. `CompleteInv` adds that a page in the cache
  belongs to a file that no longer grows. The pages are joined by `FlattenSeq`, a
  recursive function: that it is the one function with its equation is proved from the
  least argument at which two such functions would differ;
- `NothingIsForgotten` (`ScreenIsNotStuck`), the part of `RowsCome` that is about safety:
  with everything rendered and nothing on its way, the rows are there or the page
  failed. `MoveInv` says who moves next: a pending page has a sleep or is stale
  (`Polled`), the page a render looked at is on its way (`Looked`) or appended
  (`WasAppended`), a chart that has not asked for all rows is rendered again
  (`WillWantAll`), and a render that wanted them asked for the next page
  (`AskedForMore`).

`WarehouseConnections_proofs`, for any projects, users, uses, settings and ports:

- `TypeCorrect`, from `TInv`: what is under way has credentials whose address is one of
  a warehouse;
- `QueriesReachTheirs` (`QueriesReachTheirWarehouse`), from `IInv`: the client of a use
  has the user, the size and the address of its credentials (`Furnished`), the ports
  that are held lead where their holders want and nobody shares one (`PortsHeld`), and
  a cached client has the size of its key (`ClientsFit`). A client from the cache has
  the address of the tunnel just opened, so it does not matter where that port led when
  the client was made;
- `NobodyIsCutOff` (`ClosingCutsNobodyOff`), from `Furnished` and `PortsHeld`: whoever works
  through a tunnel has its port in his client's address and, unless that tunnel broke,
  holds it; no two hold one port, so that the one who closes it is he.

Model-checked only: liveness under fairness, which this prover does not reach
(`PendingSettles`, `PollingEnds`, `DeletedSchedulersDrain`, `JobsEnd`,
`CatalogCatchesUp`, `RowsCome`). Of `PendingSettles`, `CatalogCatchesUp` and `RowsCome`
the proofs give the safety they rest on: `PendingIsOwned`, `CatalogIsOwed`,
`ScreenIsNotStuck`.

## Not modelled

Query building and compilation of explores are pure functions with large data and no
shared state; the columns of a pivot are metadata of a file. The drivers of warehouses, S3,
Slack and mail are third-party: they succeed, fail or do not answer. Charts,
dashboards, promotion, renaming, content as code and validation rewrite rows in single
transactions. Permissions are rules without state. The rest of the frontend and the CLI
appear as callers and pollers. `sendScheduler` (deliver now) creates one unsaved
delivery that no row is tied to. Job kinds other than warehouse queries, deliveries,
notifications, compilations and indexing share one wrapper and no state with these.
The code covered is a small share of the repository, most of which is user
interface, generated routes, types, tests' data and CRUD in single transactions.

## Plan

1. `SchedulerLog`: log entries and their statuses (SCHEDULED to COMPLETED or
   ERROR) with timeouts, entries written without being awaited, and `sortLogs`; what
   a reader of the log may conclude.
2. `DeliveryResults`: the abstract specification of a delivery (each target is
   notified for each fired time, unless the scheduler was edited meanwhile), and
   `ScheduledDelivery` refined to it; duplicates and notifications dropped by
   `deleteScheduledJobs` as its stated exceptions.
3. `Thresholds`: percentage changes from zero and missing numbers, as operators
   against a reference definition.
4. Target tables: the update of targets, MS Teams included.
5. The creation of a project and the semantic layer upload as further savers of
   `ProjectRefresh`; chart usage in the index job.
6. Proofs: a specification of the screen (rows that only grow, then all of them, for the
   query shown) that `ResultsPages` implements; the safety under `JobsEnd` and
   `DeletedSchedulersDrain`.
