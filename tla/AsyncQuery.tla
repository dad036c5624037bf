----------------------------- MODULE AsyncQuery -----------------------------
(***************************************************************************)
(* The life of an asynchronous warehouse query: executeAsyncQuery creates  *)
(* a query_history row, answers it from the results cache or hands it to   *)
(* an executor (the API's main loop or a queue worker), the executor       *)
(* streams rows to S3 and publishes the row, and readers fetch pages or    *)
(* files through the row.  The rows are shared and unlocked: every handler *)
(* reads a row, awaits, and later issues one UPDATE.                       *)
(*                                                                         *)
(* A results file is named by the query whose execution produced it (the   *)
(* code appends a nanoid to the cache key, so no two executions share a    *)
(* name).  Time advances in abstract units.                                *)
(***************************************************************************)
EXTENDS Integers

CONSTANTS
    Queries,        \* calls of executeAsyncQuery, each with its query_uuid
    Keys,           \* cache keys: hashes of project, SQL and time zone
    KeyOf,          \* the cache key of each call
    Readers,        \* concurrent readers of results
    PageSizes,      \* page sizes a reader may ask for
    Hosts,          \* where queries may run: the feature flag's outcomes
    StorageEnabled, \* is the results bucket configured
    CacheEnabled,   \* RESULTS_CACHE_ENABLED
    StaleTime,      \* CACHE_STALE_TIME_SECONDS
    DefaultBuffer,  \* DEFAULT_CACHE_EXPIRY_BUFFER_MS
    MaxTime,        \* bound: the clock stops here
    MaxFaults,      \* bound: crashes and failed database writes
    NoQuery,        \* null, for a file or a row
    NoSize          \* null, for default_page_size

ASSUME QueriesAssumption == NoQuery \notin Queries
ASSUME KeysAssumption == KeyOf \in [Queries -> Keys]
ASSUME HostsAssumption == Hosts \subseteq {"main", "worker"}
ASSUME SizesAssumption == NoSize \notin PageSizes
ASSUME FlagsAssumption == StorageEnabled \in BOOLEAN /\ CacheEnabled \in BOOLEAN
ASSUME TimeAssumption ==
    /\ StaleTime \in Nat /\ DefaultBuffer \in Nat /\ MaxTime \in Nat
    /\ MaxFaults \in Nat

VARIABLES
    rows,     \* the query_history table
    lastRow,  \* the most recently created row of each cache key
    req,      \* calls of executeAsyncQuery in progress
    exec,     \* executions of runAsyncWarehouseQuery
    job,      \* RUN_ASYNC_WAREHOUSE_QUERY jobs of the queue
    store,    \* results files in S3
    reader,   \* reads in progress
    now,
    faults

vars == <<rows, lastRow, req, exec, job, store, reader, now, faults>>

NoTime == -1
Times == 0 .. MaxTime
Expiries == Nat

Statuses == {"absent", "pending", "ready", "error", "cancelled"}

Rows == [status: Statuses,
         file: Queries \cup {NoQuery},
         expiresAt: Expiries \cup {NoTime},
         pageSize: PageSizes \cup {NoSize}]

Requests == [phase: {"new", "create", "hit", "dispatch", "log", "returned", "threw"},
             file: Queries \cup {NoQuery},
             expiresAt: Expiries \cup {NoTime},
             lookedUpAt: Times \cup {NoTime}]

Executions == [phase: {"idle", "connect", "query", "close", "update", "catch",
                       "done", "lost"},
               host: {"main", "worker"},
               createdAt: Times \cup {NoTime}]

Jobs == [state: {"none", "queued", "running", "completed", "failed", "abandoned"},
         attempts: Nat]

FileStates == {"none", "writing", "partial", "complete"}

Reads == [phase: {"idle", "page", "polling", "download", "file"},
          query: Queries \cup {NoQuery},
          file: Queries \cup {NoQuery},
          pageSize: PageSizes \cup {NoSize}]

TypeOK ==
    /\ rows \in [Queries -> Rows]
    /\ lastRow \in [Keys -> Queries \cup {NoQuery}]
    /\ req \in [Queries -> Requests]
    /\ exec \in [Queries -> Executions]
    /\ job \in [Queries -> Jobs]
    /\ store \in [Queries -> FileStates]
    /\ reader \in [Readers -> Reads]
    /\ \A r \in Readers : reader[r].phase # "idle" => reader[r].query # NoQuery
    /\ now \in Times
    /\ faults \in 0 .. MaxFaults

NoRow == [status |-> "absent", file |-> NoQuery, expiresAt |-> NoTime,
          pageSize |-> NoSize]

PendingRow == [status |-> "pending", file |-> NoQuery, expiresAt |-> NoTime,
               pageSize |-> NoSize]

IdleRead == [phase |-> "idle", query |-> NoQuery, file |-> NoQuery,
             pageSize |-> NoSize]

Init ==
    /\ rows = [q \in Queries |-> NoRow]
    /\ lastRow = [k \in Keys |-> NoQuery]
    /\ req = [q \in Queries |-> [phase |-> "new", file |-> NoQuery,
                                 expiresAt |-> NoTime, lookedUpAt |-> NoTime]]
    /\ exec = [q \in Queries |-> [phase |-> "idle", host |-> "main",
                                  createdAt |-> NoTime]]
    /\ job = [q \in Queries |-> [state |-> "none", attempts |-> 0]]
    /\ store = [q \in Queries |-> "none"]
    /\ reader = [r \in Readers |-> IdleRead]
    /\ now = 0
    /\ faults = 0

-----------------------------------------------------------------------------
(* The results cache. *)

\* Mutant: the task may be retried.
MaxAttemptsTwo == 2

\* scheduleTask's retries argument is not given for this task.
MaxAttempts == 1

\* How long a cached file must still be valid to be reused.
expiryBuffer ==
    IF StaleTime > DefaultBuffer * 4 THEN DefaultBuffer ELSE StaleTime \div 4

\* Mutant: the stale time is subtracted.
getCacheExpiresAtEarlier(baseDate) == baseDate - StaleTime

getCacheExpiresAt(baseDate) == baseDate + StaleTime

\* Mutant: any unexpired file is a hit.
findCachedResultsFileNoBuffer(k) ==
    LET latest == rows[lastRow[k]] IN
    IF /\ CacheEnabled
       /\ lastRow[k] # NoQuery
       /\ latest.file # NoQuery
       /\ latest.expiresAt > now
    THEN [file |-> latest.file, expiresAt |-> latest.expiresAt]
    ELSE [file |-> NoQuery, expiresAt |-> NoTime]

\* Mutant: a reused file is given a fresh lifetime.
findCachedResultsFileRenewed(k) ==
    LET latest == rows[lastRow[k]] IN
    IF /\ CacheEnabled
       /\ lastRow[k] # NoQuery
       /\ latest.file # NoQuery
       /\ latest.expiresAt > now + expiryBuffer
    THEN [file |-> latest.file, expiresAt |-> getCacheExpiresAt(now)]
    ELSE [file |-> NoQuery, expiresAt |-> NoTime]

\* Only the newest row of the key is looked at, whatever its status: a newer
\* pending or failed row hides an older file that is still valid.
findCachedResultsFile(k) ==
    LET latest == rows[lastRow[k]] IN
    IF /\ CacheEnabled
       /\ lastRow[k] # NoQuery
       /\ latest.file # NoQuery
       /\ latest.expiresAt > now + expiryBuffer
    THEN [file |-> latest.file, expiresAt |-> latest.expiresAt]
    ELSE [file |-> NoQuery, expiresAt |-> NoTime]

-----------------------------------------------------------------------------
(* Writes of QueryHistoryModel.update: one UPDATE statement each. *)

\* Mutant: the WHERE status = PENDING clause is missing.
ReadyRowUnguarded(row, file, expiresAt) ==
    [row EXCEPT !.status = "ready", !.file = file, !.expiresAt = expiresAt]

\* A transition to READY carries the results and applies to pending rows only.
ReadyRow(row, file, expiresAt) ==
    IF row.status = "pending"
    THEN [row EXCEPT !.status = "ready", !.file = file, !.expiresAt = expiresAt]
    ELSE row

\* Mutant: a failure forgets the results.
ErrorRowCleared(row) == [row EXCEPT !.status = "error", !.file = NoQuery]

\* Any other transition is unconditional and leaves the results as they are.
ErrorRow(row) == [row EXCEPT !.status = "error"]
CancelledRow(row) == [row EXCEPT !.status = "cancelled"]

-----------------------------------------------------------------------------
(* executeAsyncQuery. *)

FindResultsCache(q) ==
    /\ req[q].phase = "new"
    /\ \E invalidateCache \in BOOLEAN :
         LET cache == IF invalidateCache
                      THEN [file |-> NoQuery, expiresAt |-> NoTime]
                      ELSE findCachedResultsFile(KeyOf[q])
         IN req' = [req EXCEPT ![q] = [phase |-> "create", file |-> cache.file,
                                       expiresAt |-> cache.expiresAt,
                                       lookedUpAt |-> now]]
    /\ UNCHANGED <<rows, lastRow, exec, job, store, reader, now, faults>>

Create(q) ==
    /\ req[q].phase = "create"
    /\ rows' = [rows EXCEPT ![q] = PendingRow]
    /\ lastRow' = [lastRow EXCEPT ![KeyOf[q]] = q]
    /\ req' = [req EXCEPT ![q].phase = IF req[q].file # NoQuery THEN "hit"
                                       ELSE "dispatch"]
    /\ UNCHANGED <<exec, job, store, reader, now, faults>>

MarkReadyFromCache(q) ==
    /\ req[q].phase = "hit"
    /\ rows' = [rows EXCEPT ![q] = ReadyRow(@, req[q].file, req[q].expiresAt)]
    /\ req' = [req EXCEPT ![q].phase = "returned"]
    /\ UNCHANGED <<lastRow, exec, job, store, reader, now, faults>>

RejectMissingParameters(q) ==
    /\ req[q].phase = "dispatch"
    /\ rows' = [rows EXCEPT ![q] = ErrorRow(@)]
    /\ req' = [req EXCEPT ![q].phase = "returned"]
    /\ UNCHANGED <<lastRow, exec, job, store, reader, now, faults>>

\* The execution is started without being awaited.
RunInMainLoop(q) ==
    /\ req[q].phase = "dispatch"
    /\ "main" \in Hosts
    /\ exec' = [exec EXCEPT ![q] = [phase |-> "connect", host |-> "main",
                                    createdAt |-> NoTime]]
    /\ req' = [req EXCEPT ![q].phase = "returned"]
    /\ UNCHANGED <<rows, lastRow, job, store, reader, now, faults>>

ScheduleTask(q) ==
    /\ req[q].phase = "dispatch"
    /\ "worker" \in Hosts
    /\ job' = [job EXCEPT ![q].state = "queued"]
    /\ req' = [req EXCEPT ![q].phase = "log"]
    /\ UNCHANGED <<rows, lastRow, exec, store, reader, now, faults>>

\* scheduleTask logs the job after queuing it, and only then returns.
LogScheduledTask(q) ==
    /\ req[q].phase = "log"
    /\ req' = [req EXCEPT ![q].phase = "returned"]
    /\ UNCHANGED <<rows, lastRow, exec, job, store, reader, now, faults>>

\* A database or queue call of the request throws.  Nothing undoes the row.
RequestThrows(q) ==
    /\ req[q].phase \in {"create", "hit", "dispatch", "log"}
    /\ faults < MaxFaults
    /\ faults' = faults + 1
    /\ req' = [req EXCEPT ![q].phase = "threw"]
    /\ UNCHANGED <<rows, lastRow, exec, job, store, reader, now>>

\* The caller learns the query_uuid when the request returns.
Known(q) == req[q].phase = "returned"

\* The row is read only to authorise the caller; the UPDATE has no guard and
\* neither the execution nor the upload is told.
CancelAsyncQuery(q) ==
    /\ Known(q)
    /\ rows' = [rows EXCEPT ![q] = CancelledRow(@)]
    /\ UNCHANGED <<lastRow, req, exec, job, store, reader, now, faults>>

-----------------------------------------------------------------------------
(* The queue and its worker (graphile-worker), one task. *)

PickJob(q) ==
    /\ job[q].state \in {"queued", "failed", "abandoned"}
    /\ job[q].attempts < MaxAttempts
    /\ job' = [job EXCEPT ![q] = [state |-> "running", attempts |-> @.attempts + 1]]
    /\ exec' = [exec EXCEPT ![q] = [phase |-> "connect", host |-> "worker",
                                    createdAt |-> NoTime]]
    /\ UNCHANGED <<rows, lastRow, req, store, reader, now, faults>>

\* Mutant: a timeout kills the execution.
JobTimeoutKills(q) ==
    /\ job[q].state = "running"
    /\ job' = [job EXCEPT ![q].state = "completed"]
    /\ exec' = [exec EXCEPT ![q].phase = "lost"]
    /\ UNCHANGED <<rows, lastRow, req, store, reader, now, faults>>

\* tryJobOrTimeout: the race is lost, the timeout is logged and the job counts
\* as completed.  The execution goes on: nothing cancels its promise.
JobTimeout(q) ==
    /\ job[q].state = "running"
    /\ job' = [job EXCEPT ![q].state = "completed"]
    /\ UNCHANGED <<rows, lastRow, req, exec, store, reader, now, faults>>

\* What the queue records when the task's promise settles; a job that timed
\* out is completed already.
Settled(q, outcome) ==
    job' = [job EXCEPT ![q].state = IF @ = "running" THEN outcome ELSE @]

-----------------------------------------------------------------------------
(* runAsyncWarehouseQuery. *)

\* Credentials and client, then the upload stream; the expiry is counted from
\* here, before the warehouse has run anything.
OpenUploadStream(q) ==
    /\ exec[q].phase = "connect"
    /\ exec' = [exec EXCEPT ![q] = [phase |-> "query", host |-> @.host,
                                    createdAt |-> now]]
    /\ store' = [store EXCEPT ![q] = IF StorageEnabled THEN "writing" ELSE @]
    /\ UNCHANGED <<rows, lastRow, req, job, reader, now, faults>>

\* Mutant: the row is published before the upload has ended.
RunQueryWithoutClosing(q) ==
    /\ exec[q].phase = "query"
    /\ exec' = [exec EXCEPT ![q].phase = "update"]
    /\ UNCHANGED <<rows, lastRow, req, job, store, reader, now, faults>>

RunQueryAndTransformRows(q) ==
    /\ exec[q].phase = "query"
    /\ exec' = [exec EXCEPT ![q].phase = IF StorageEnabled THEN "close" ELSE "update"]
    /\ UNCHANGED <<rows, lastRow, req, job, store, reader, now, faults>>

CloseStream(q) ==
    /\ exec[q].phase = "close"
    /\ exec' = [exec EXCEPT ![q].phase = "update"]
    /\ store' = [store EXCEPT ![q] = "complete"]
    /\ UNCHANGED <<rows, lastRow, req, job, reader, now, faults>>

\* The row as the executor publishes it.
Published(q) ==
    IF StorageEnabled
    THEN ReadyRow(rows[q], q, getCacheExpiresAt(exec[q].createdAt))
    ELSE ReadyRow(rows[q], NoQuery, NoTime)

MarkReady(q) ==
    /\ exec[q].phase = "update"
    /\ rows' = [rows EXCEPT ![q] = Published(q)]
    /\ exec' = [exec EXCEPT ![q].phase = "done"]
    /\ Settled(q, "completed")
    /\ UNCHANGED <<lastRow, req, store, reader, now, faults>>

\* The UPDATE is committed but its answer is lost: the catch block follows.
MarkReadyAnswerLost(q) ==
    /\ exec[q].phase = "update"
    /\ faults < MaxFaults
    /\ faults' = faults + 1
    /\ rows' = [rows EXCEPT ![q] = Published(q)]
    /\ exec' = [exec EXCEPT ![q].phase = "catch"]
    /\ UNCHANGED <<lastRow, req, job, store, reader, now>>

\* Connecting, querying, uploading or updating throws.  A failed upload leaves
\* no object.
ExecutionThrows(q) ==
    /\ exec[q].phase \in {"connect", "query", "close", "update"}
    /\ exec' = [exec EXCEPT ![q].phase = "catch"]
    /\ store' = [store EXCEPT ![q] = IF exec[q].phase = "close" THEN "none" ELSE @]
    /\ UNCHANGED <<rows, lastRow, req, job, reader, now, faults>>

\* The finally block closes a stream that is still open: the rows written so
\* far become an object that no row names.
CloseOpenStream(q) ==
    store' = [store EXCEPT ![q] = IF @ = "writing" THEN "partial" ELSE @]

\* The catch block overwrites any status; the task itself succeeds.
MarkError(q) ==
    /\ exec[q].phase = "catch"
    /\ rows' = [rows EXCEPT ![q] = ErrorRow(@)]
    /\ exec' = [exec EXCEPT ![q].phase = "done"]
    /\ CloseOpenStream(q)
    /\ Settled(q, "completed")
    /\ UNCHANGED <<lastRow, req, reader, now, faults>>

MarkErrorThrows(q) ==
    /\ exec[q].phase = "catch"
    /\ faults < MaxFaults
    /\ faults' = faults + 1
    /\ exec' = [exec EXCEPT ![q].phase = "done"]
    /\ CloseOpenStream(q)
    /\ Settled(q, "failed")
    /\ UNCHANGED <<rows, lastRow, req, reader, now>>

Running(q) == exec[q].phase \notin {"idle", "done", "lost"}

-----------------------------------------------------------------------------
(* Readers. *)

\* getAsyncQueryResults up to its first await after the checks: a READY row
\* that has not expired is captured.  Every other status is reported as it is
\* and an expired row throws, changing nothing.
GetAsyncQueryResults(r, q) ==
    /\ reader[r].phase = "idle"
    /\ Known(q)
    /\ rows[q].status = "ready"
    /\ ~ (rows[q].expiresAt # NoTime /\ rows[q].expiresAt < now)
    /\ reader' = [reader EXCEPT ![r] = [phase |-> "page", query |-> q,
                                        file |-> rows[q].file,
                                        pageSize |-> rows[q].pageSize]]
    /\ UNCHANGED <<rows, lastRow, req, exec, job, store, now, faults>>

\* The page comes from the captured file, or from the warehouse when there is
\* no storage.  The page size is recorded when the captured row had none.
ReturnPage(r) ==
    LET q == reader[r].query IN
    /\ reader[r].phase = "page"
    /\ IF StorageEnabled \/ CacheEnabled
       THEN /\ StorageEnabled
            /\ reader[r].file # NoQuery
            /\ store[reader[r].file] \in {"partial", "complete"}
       ELSE TRUE
    /\ \E size \in PageSizes :
         rows' = [rows EXCEPT ![q].pageSize =
                    IF reader[r].pageSize = NoSize THEN size ELSE @]
    /\ reader' = [reader EXCEPT ![r] = IdleRead]
    /\ UNCHANGED <<lastRow, req, exec, job, store, now, faults>>

\* downloadSyncQueryResults, for scheduled deliveries: poll until settled.
StartPolling(r, q) ==
    /\ reader[r].phase = "idle"
    /\ Known(q)
    /\ reader' = [reader EXCEPT ![r] = [IdleRead EXCEPT !.phase = "polling",
                                                        !.query = q]]
    /\ UNCHANGED <<rows, lastRow, req, exec, job, store, now, faults>>

\* A pending row is polled again after a pause, without end.
PollSettled(r) ==
    LET q == reader[r].query IN
    /\ reader[r].phase = "polling"
    /\ rows[q].status # "pending"
    /\ reader' = [reader EXCEPT ![r] = IF rows[q].status = "ready"
                                       THEN [@ EXCEPT !.phase = "download"]
                                       ELSE IdleRead]
    /\ UNCHANGED <<rows, lastRow, req, exec, job, store, now, faults>>

\* A READY row names its file; there is no expiry check on this path.
DownloadOf(r, q) ==
    reader' = [reader EXCEPT ![r] =
                 IF rows[q].status = "ready" /\ rows[q].file # NoQuery
                 THEN [IdleRead EXCEPT !.phase = "file", !.query = q,
                                       !.file = rows[q].file]
                 ELSE IdleRead]

\* After polling, the row is read a second time.
DownloadPolled(r) ==
    /\ reader[r].phase = "download"
    /\ DownloadOf(r, reader[r].query)
    /\ UNCHANGED <<rows, lastRow, req, exec, job, store, now, faults>>

\* download and getResultsStream start here.
DownloadAsyncQueryResults(r, q) ==
    /\ reader[r].phase = "idle"
    /\ Known(q)
    /\ rows[q].status = "ready"
    /\ DownloadOf(r, q)
    /\ UNCHANGED <<rows, lastRow, req, exec, job, store, now, faults>>

\* The file has been streamed, or the page or file could not be read.
EndRead(r) ==
    /\ reader[r].phase \in {"page", "file"}
    /\ reader' = [reader EXCEPT ![r] = IdleRead]
    /\ UNCHANGED <<rows, lastRow, req, exec, job, store, now, faults>>

-----------------------------------------------------------------------------
(* Time and crashes. *)

Tick ==
    /\ now < MaxTime
    /\ now' = now + 1
    /\ UNCHANGED <<rows, lastRow, req, exec, job, store, reader, faults>>

\* An API server dies with its requests and its main-loop executions; a worker
\* dies with its executions, and its jobs stay locked until the queue gives up
\* the lock.  Either takes the reads it serves with it.
Crash(host) ==
    /\ faults < MaxFaults
    /\ faults' = faults + 1
    /\ exec' = [q \in Queries |->
                  IF Running(q) /\ exec[q].host = host
                  THEN [exec[q] EXCEPT !.phase = "lost"] ELSE exec[q]]
    /\ req' = [q \in Queries |->
                 IF host = "main"
                    /\ req[q].phase \in {"create", "hit", "dispatch", "log"}
                 THEN [req[q] EXCEPT !.phase = "threw"] ELSE req[q]]
    /\ job' = [q \in Queries |->
                 IF host = "worker" /\ job[q].state = "running"
                 THEN [job[q] EXCEPT !.state = "abandoned"] ELSE job[q]]
    /\ \E served \in SUBSET Readers :
         reader' = [r \in Readers |-> IF r \in served THEN IdleRead ELSE reader[r]]
    /\ UNCHANGED <<rows, lastRow, store, now>>

-----------------------------------------------------------------------------
RequestStep(q) ==
    \/ FindResultsCache(q) \/ Create(q) \/ MarkReadyFromCache(q)
    \/ RejectMissingParameters(q) \/ RunInMainLoop(q) \/ ScheduleTask(q)
    \/ LogScheduledTask(q)

ExecutionStep(q) ==
    \/ OpenUploadStream(q) \/ RunQueryAndTransformRows(q) \/ CloseStream(q)
    \/ MarkReady(q) \/ ExecutionThrows(q) \/ MarkError(q)

ReadStep(r) ==
    \/ ReturnPage(r) \/ PollSettled(r) \/ DownloadPolled(r) \/ EndRead(r)

Next ==
    \/ \E q \in Queries :
         \/ RequestStep(q) \/ RequestThrows(q) \/ CancelAsyncQuery(q)
         \/ PickJob(q) \/ JobTimeout(q)
         \/ ExecutionStep(q) \/ MarkReadyAnswerLost(q) \/ MarkErrorThrows(q)
    \/ \E r \in Readers :
         \/ ReadStep(r)
         \/ \E q \in Queries : \/ GetAsyncQueryResults(r, q)
                               \/ StartPolling(r, q)
                               \/ DownloadAsyncQueryResults(r, q)
    \/ Tick
    \/ \E host \in {"main", "worker"} : Crash(host)

Spec == Init /\ [][Next]_vars

\* The event loop resumes whatever is awaited and the queue hands out jobs;
\* clients, time and faults owe nothing.
Fairness ==
    /\ \A q \in Queries : /\ WF_vars(RequestStep(q))
                          /\ WF_vars(ExecutionStep(q))
                          /\ WF_vars(PickJob(q))
    /\ \A r \in Readers : WF_vars(ReadStep(r))

FairSpec == Spec /\ Fairness
-----------------------------------------------------------------------------
(* Correctness. *)

\* A file that a row, a pending cache hit or a reader names has been uploaded
\* whole, whatever became of the row's status since: stream.close() is awaited
\* before the row is published, and the cache copies names of published files.
NamedFiles == {rows[q].file : q \in Queries} \cup {req[q].file : q \in Queries}
                \cup {reader[r].file : r \in Readers}

NamedFilesAreComplete ==
    \A f \in NamedFiles \ {NoQuery} : store[f] = "complete"

\* Reuse never extends the life of data or crosses cache keys: however many
\* times a file was copied from row to row, every row naming it expires
\* StaleTime after the execution that produced the file began.
FilesExpireWithTheirData ==
    \A q \in Queries :
      LET f == rows[q].file IN
      f # NoQuery =>
        /\ KeyOf[f] = KeyOf[q]
        /\ exec[f].createdAt # NoTime
        /\ rows[q].expiresAt = exec[f].createdAt + StaleTime

\* A query answered from the cache can be paged through for the whole expiry
\* buffer after the cache was looked up (the promise of CommercialCacheService:
\* results do not expire during pagination requests).
CacheHitsOutliveBuffer ==
    \A q \in Queries :
      /\ req[q].file # NoQuery
      /\ rows[q].status = "ready"
      /\ now <= req[q].lookedUpAt + expiryBuffer
      => rows[q].expiresAt >= now

\* A row becomes READY from PENDING only, so a query that its user cancelled,
\* or that failed, never turns up with results later, although neither stops
\* the execution (QueryHistoryModel.update).
OnlyPendingBecomesReady ==
    [][\A q \in Queries :
         rows'[q].status = "ready" => rows[q].status \in {"pending", "ready"}]_vars

\* The results of a row are written once: a client that pages through a query
\* reads one file under one expiry, through cancellation, errors and retries.
ResultsWrittenOnce ==
    [][\A q \in Queries :
         rows[q].file # NoQuery =>
           /\ rows'[q].file = rows[q].file
           /\ rows'[q].expiresAt = rows[q].expiresAt]_vars

\* The warehouse is asked at most once for each query, whatever crashes, times
\* out or fails: no execution starts where one has been.
WarehouseAskedOnce ==
    [][\A q \in Queries :
         exec[q].phase \notin {"idle", "connect"} => exec'[q].phase # "connect"]_vars

\* Without crashes and database failures, a pending query that was returned to
\* its caller has a job waiting or an execution that will settle it; a job
\* timeout does not take that away.
PendingIsOwned ==
    \A q \in Queries :
      faults = 0 /\ Known(q) /\ rows[q].status = "pending" =>
        Running(q) \/ job[q].state = "queued"

\* A task whose time is up is over ("a tryOrTimeout method that will kill the
\* Promise and unlock the worker", scheduler/README.md).
TimedOutTasksStop ==
    \A q \in Queries : job[q].state = "completed" => ~Running(q)

\* Under the same condition every query settles and every poll ends.
PendingSettles ==
    \A q \in Queries :
      Known(q) /\ rows[q].status = "pending" ~> rows[q].status # "pending"

PollingEnds ==
    \A r \in Readers : reader[r].phase = "polling" ~> reader[r].phase # "polling"

(* The abstract specification of what readers may rely on. *)
Abstract == INSTANCE QueryResults WITH
    status <- [q \in Queries |-> rows[q].status],
    result <- [q \in Queries |-> [file |-> rows[q].file,
                                  expiresAt |-> rows[q].expiresAt]],
    uploaded <- {q \in Queries : store[q] = "complete"}

\* Rows, uploads and the clock change as the abstract specification of query
\* results allows, whatever requests, executors and the cache do.
ImplementsQueryResults == Abstract!Spec
=============================================================================
