--------------------------- MODULE AsyncQuery_proofs ---------------------------
(***************************************************************************)
(* Proofs about AsyncQuery for every set of calls, readers and page sizes, *)
(* every assignment of cache keys, every stale time and every bound.       *)
(***************************************************************************)
EXTENDS AsyncQuery, TLAPS

USE QueriesAssumption, KeysAssumption, HostsAssumption, SizesAssumption,
    FlagsAssumption, TimeAssumption

-----------------------------------------------------------------------------
(* The inductive invariant, in parts.  NamedFilesAreComplete alone is not    *)
(* inductive: what keeps a named file complete is that no second execution  *)
(* can reopen it, and what makes a cache hit true is that the row it was     *)
(* copied from was.                                                          *)

\* A query is dispatched once, and a job that was picked has no attempts left:
\* where an execution has been, neither path can start another.
OneExecution ==
    \A q \in Queries :
      /\ req[q].phase \in {"new", "create", "hit", "dispatch"} =>
           job[q].state = "none" /\ exec[q].phase = "idle"
      /\ job[q].state # "none" /\ exec[q].phase # "idle" => job[q].attempts >= 1

\* An object is complete only once its execution has passed the closing of the
\* stream, and stays so; the expiry base was fixed before.
UploadProgress ==
    \A q \in Queries :
      /\ exec[q].phase \in {"query", "close", "update"} => exec[q].createdAt # NoTime
      /\ exec[q].createdAt # NoTime => exec[q].createdAt <= now
      /\ exec[q].phase = "update" /\ StorageEnabled => store[q] = "complete"
      /\ store[q] = "complete" =>
           /\ exec[q].phase \in {"update", "catch", "done", "lost"}
           /\ exec[q].createdAt # NoTime

\* What a row or a cache hit says of a file is true of the file.
TrueOf(q, file, expiresAt) ==
    file # NoQuery =>
      /\ store[file] = "complete"
      /\ KeyOf[file] = KeyOf[q]
      /\ expiresAt = exec[file].createdAt + StaleTime

ResultsTrue ==
    /\ \A q \in Queries : /\ TrueOf(q, rows[q].file, rows[q].expiresAt)
                          /\ TrueOf(q, req[q].file, req[q].expiresAt)
    /\ \A r \in Readers :
         reader[r].file # NoQuery => store[reader[r].file] = "complete"

LatestRows == \A k \in Keys : lastRow[k] # NoQuery => KeyOf[lastRow[k]] = k

\* A row exists from Create on and has no results before it is ready, and a
\* request makes its own row ready only with a file from the cache.
RowLife ==
    \A q \in Queries :
      /\ req[q].phase \in {"new", "create"} => rows[q].status = "absent"
      /\ req[q].phase = "hit" => req[q].file # NoQuery
      /\ rows[q].status \in {"absent", "pending"} =>
           rows[q].file = NoQuery /\ rows[q].expiresAt = NoTime
      /\ rows[q].status = "absent" =>
           /\ req[q].phase \in {"new", "create", "threw"}
           /\ exec[q].phase = "idle"
           /\ job[q].state = "none"

\* A cache hit was copied from a row that still says the same, at a time far
\* enough from its expiry.
HitsHaveSource ==
    \A q \in Queries : req[q].file # NoQuery =>
      /\ \E p \in Queries : /\ rows[p].file = req[q].file
                            /\ rows[p].expiresAt = req[q].expiresAt
                            /\ KeyOf[p] = KeyOf[q]
      /\ req[q].expiresAt > req[q].lookedUpAt + expiryBuffer

\* A call that hit the cache executes nothing: the hit is the only source of
\* its row's results.
HitsExecuteNothing ==
    \A q \in Queries : req[q].file # NoQuery =>
      /\ req[q].phase \notin {"new", "dispatch", "log"}
      /\ exec[q].phase = "idle"
      /\ job[q].state = "none"
      /\ rows[q].status = "ready" => rows[q].expiresAt = req[q].expiresAt

IInv ==
    /\ TypeOK
    /\ OneExecution
    /\ UploadProgress
    /\ ResultsTrue
    /\ LatestRows
    /\ RowLife
    /\ HitsHaveSource
    /\ HitsExecuteNothing

-----------------------------------------------------------------------------
(* Type correctness. *)

LEMMA BufferType == expiryBuffer \in Nat
  BY DEF expiryBuffer

LEMMA ReadyRowType ==
  ASSUME NEW row \in Rows,
         NEW file \in Queries \cup {NoQuery},
         NEW expiresAt \in Expiries \cup {NoTime}
  PROVE  ReadyRow(row, file, expiresAt) \in Rows
  BY DEF ReadyRow, Rows, Statuses

LEMMA ErrorRowType == ASSUME NEW row \in Rows PROVE ErrorRow(row) \in Rows
  BY DEF ErrorRow, Rows, Statuses

LEMMA PublishedType ==
  ASSUME NEW q \in Queries, rows[q] \in Rows, exec[q] \in Executions
  PROVE  Published(q) \in Rows
<1>1. getCacheExpiresAt(exec[q].createdAt) \in Expiries \cup {NoTime}
  BY DEF getCacheExpiresAt, Executions, Expiries, Times, NoTime
<1>2. NoTime \in Expiries \cup {NoTime}
  OBVIOUS
<1> QED
  BY <1>1, <1>2, ReadyRowType DEF Published

\* The part of TypeOK about readers.
ReadersOK ==
    /\ reader \in [Readers -> Reads]
    /\ \A r \in Readers : reader[r].phase # "idle" => reader[r].query # NoQuery

LEMMA InitType == Init => TypeOK
  BY DEF Init, TypeOK, Rows, Statuses, Requests, Executions, Jobs, FileStates,
         Reads, Times, Expiries, NoTime, NoRow, IdleRead

LEMMA NextType ==
  ASSUME TypeOK, [Next]_vars
  PROVE  TypeOK'
<1>1. ASSUME NEW q \in Queries, FindResultsCache(q)
      PROVE  TypeOK'
  BY <1>1 DEF TypeOK, FindResultsCache, Requests, Rows, findCachedResultsFile,
         Expiries, NoTime
<1>2. ASSUME NEW q \in Queries, Create(q)
      PROVE  TypeOK'
  <2>1. rows' \in [Queries -> Rows]
    BY <1>2 DEF TypeOK, Create, Rows, Statuses, PendingRow, NoTime
  <2>2. lastRow' \in [Keys -> Queries \cup {NoQuery}]
    BY <1>2 DEF TypeOK, Create
  <2>3. req' \in [Queries -> Requests]
    <3>1. req[q] \in Requests
      BY DEF TypeOK
    <3>2. [req[q] EXCEPT !.phase = "hit"] \in Requests
      BY <3>1 DEF Requests
    <3>3. [req[q] EXCEPT !.phase = "dispatch"] \in Requests
      BY <3>1 DEF Requests
    <3> QED
      BY <1>2, <3>2, <3>3 DEF TypeOK, Create
  <2> QED
    BY <1>2, <2>1, <2>2, <2>3 DEF TypeOK, Create
<1>3. ASSUME NEW q \in Queries, MarkReadyFromCache(q)
      PROVE  TypeOK'
  <2>1. rows' \in [Queries -> Rows]
    <3>1. ReadyRow(rows[q], req[q].file, req[q].expiresAt) \in Rows
      BY ReadyRowType DEF TypeOK, Requests
    <3> QED
      BY <1>3, <3>1 DEF TypeOK, MarkReadyFromCache
  <2>2. req' \in [Queries -> Requests]
    BY <1>3 DEF TypeOK, MarkReadyFromCache, Requests
  <2> QED
    BY <1>3, <2>1, <2>2 DEF TypeOK, MarkReadyFromCache
<1>4. ASSUME NEW q \in Queries, RejectMissingParameters(q)
      PROVE  TypeOK'
  <2>1. rows' \in [Queries -> Rows]
    <3>1. ErrorRow(rows[q]) \in Rows
      BY ErrorRowType DEF TypeOK
    <3> QED
      BY <1>4, <3>1 DEF TypeOK, RejectMissingParameters
  <2>2. req' \in [Queries -> Requests]
    BY <1>4 DEF TypeOK, RejectMissingParameters, Requests
  <2> QED
    BY <1>4, <2>1, <2>2 DEF TypeOK, RejectMissingParameters
<1>5. ASSUME NEW q \in Queries, RunInMainLoop(q)
      PROVE  TypeOK'
  <2>1. exec' \in [Queries -> Executions]
    BY <1>5 DEF TypeOK, RunInMainLoop, Executions
  <2>2. req' \in [Queries -> Requests]
    BY <1>5 DEF TypeOK, RunInMainLoop, Requests
  <2> QED
    BY <1>5, <2>1, <2>2 DEF TypeOK, RunInMainLoop
<1>6. ASSUME NEW q \in Queries, ScheduleTask(q)
      PROVE  TypeOK'
  <2>1. job' \in [Queries -> Jobs]
    BY <1>6 DEF TypeOK, ScheduleTask, Jobs
  <2>2. req' \in [Queries -> Requests]
    BY <1>6 DEF TypeOK, ScheduleTask, Requests
  <2> QED
    BY <1>6, <2>1, <2>2 DEF TypeOK, ScheduleTask
<1>7. ASSUME NEW q \in Queries, LogScheduledTask(q)
      PROVE  TypeOK'
  BY <1>7 DEF TypeOK, LogScheduledTask, Requests
<1>8. ASSUME NEW q \in Queries, RequestThrows(q)
      PROVE  TypeOK'
  BY <1>8 DEF TypeOK, RequestThrows, Requests
<1>9. ASSUME NEW q \in Queries, CancelAsyncQuery(q)
      PROVE  TypeOK'
  BY <1>9 DEF TypeOK, CancelAsyncQuery, Rows, Statuses, CancelledRow
<1>10. ASSUME NEW q \in Queries, PickJob(q)
      PROVE  TypeOK'
  BY <1>10 DEF TypeOK, PickJob, Jobs, Executions
<1>11. ASSUME NEW q \in Queries, JobTimeout(q)
      PROVE  TypeOK'
  BY <1>11 DEF TypeOK, JobTimeout, Jobs
<1>12. ASSUME NEW q \in Queries, OpenUploadStream(q)
      PROVE  TypeOK'
  <2>1. exec' \in [Queries -> Executions]
    BY <1>12 DEF TypeOK, OpenUploadStream, Executions
  <2>2. store' \in [Queries -> FileStates]
    BY <1>12 DEF TypeOK, OpenUploadStream, FileStates
  <2> QED
    BY <1>12, <2>1, <2>2 DEF TypeOK, OpenUploadStream
<1>13. ASSUME NEW q \in Queries, RunQueryAndTransformRows(q)
      PROVE  TypeOK'
  BY <1>13 DEF TypeOK, RunQueryAndTransformRows, Executions
<1>14. ASSUME NEW q \in Queries, CloseStream(q)
      PROVE  TypeOK'
  BY <1>14 DEF TypeOK, CloseStream, Executions, FileStates
<1>15. ASSUME NEW q \in Queries, MarkReady(q)
      PROVE  TypeOK'
  <2>1. rows' \in [Queries -> Rows]
    <3>1. Published(q) \in Rows
      BY PublishedType DEF TypeOK
    <3> QED
      BY <1>15, <3>1 DEF TypeOK, MarkReady
  <2>2. exec' \in [Queries -> Executions]
    BY <1>15 DEF TypeOK, MarkReady, Executions
  <2>3. job' \in [Queries -> Jobs]
    BY <1>15 DEF TypeOK, MarkReady, Jobs, Settled
  <2> QED
    BY <1>15, <2>1, <2>2, <2>3 DEF TypeOK, MarkReady
<1>16. ASSUME NEW q \in Queries, ExecutionThrows(q)
      PROVE  TypeOK'
  BY <1>16 DEF TypeOK, ExecutionThrows, Executions, FileStates
<1>17. ASSUME NEW q \in Queries, MarkError(q)
      PROVE  TypeOK'
  <2>1. rows' \in [Queries -> Rows]
    <3>1. ErrorRow(rows[q]) \in Rows
      BY ErrorRowType DEF TypeOK
    <3> QED
      BY <1>17, <3>1 DEF TypeOK, MarkError
  <2>2. exec' \in [Queries -> Executions]
    BY <1>17 DEF TypeOK, MarkError, Executions
  <2>3. store' \in [Queries -> FileStates]
    BY <1>17 DEF TypeOK, MarkError, FileStates, CloseOpenStream
  <2>4. job' \in [Queries -> Jobs]
    BY <1>17 DEF TypeOK, MarkError, Jobs, Settled
  <2> QED
    BY <1>17, <2>1, <2>2, <2>3, <2>4 DEF TypeOK, MarkError
<1>18. ASSUME NEW q \in Queries, MarkReadyAnswerLost(q)
      PROVE  TypeOK'
  <2>1. rows' \in [Queries -> Rows]
    <3>1. Published(q) \in Rows
      BY PublishedType DEF TypeOK
    <3> QED
      BY <1>18, <3>1 DEF TypeOK, MarkReadyAnswerLost
  <2>2. exec' \in [Queries -> Executions]
    <3>1. [exec[q] EXCEPT !.phase = "catch"] \in Executions
      BY DEF TypeOK, Executions
    <3> QED
      BY <1>18, <3>1 DEF TypeOK, MarkReadyAnswerLost
  <2>3. faults' \in 0 .. MaxFaults
    BY <1>18 DEF TypeOK, MarkReadyAnswerLost
  <2> QED
    BY <1>18, <2>1, <2>2, <2>3 DEF TypeOK, MarkReadyAnswerLost
<1>19. ASSUME NEW q \in Queries, MarkErrorThrows(q)
      PROVE  TypeOK'
  <2>1. exec' \in [Queries -> Executions]
    BY <1>19 DEF TypeOK, MarkErrorThrows, Executions
  <2>2. store' \in [Queries -> FileStates]
    BY <1>19 DEF TypeOK, MarkErrorThrows, FileStates, CloseOpenStream
  <2>3. job' \in [Queries -> Jobs]
    BY <1>19 DEF TypeOK, MarkErrorThrows, Jobs, Settled
  <2>4. faults' \in 0 .. MaxFaults
    BY <1>19 DEF TypeOK, MarkErrorThrows
  <2> QED
    BY <1>19, <2>1, <2>2, <2>3, <2>4 DEF TypeOK, MarkErrorThrows
<1>20. ASSUME NEW r \in Readers, ReturnPage(r)
       PROVE  TypeOK'
  <2> DEFINE q == reader[r].query
  <2>1. PICK size \in PageSizes :
          rows' = [rows EXCEPT ![q].pageSize =
                     IF reader[r].pageSize = NoSize THEN size ELSE @]
    BY <1>20, Zenon DEF ReturnPage
  <2>2. q \in Queries /\ rows[q] \in Rows
    BY <1>20 DEF TypeOK, ReturnPage, Reads
  <2>3. [rows[q] EXCEPT !.pageSize =
           IF reader[r].pageSize = NoSize THEN size ELSE @] \in Rows
    BY <2>2 DEF Rows
  <2>4. rows' = [rows EXCEPT ![q] = [rows[q] EXCEPT !.pageSize =
                   IF reader[r].pageSize = NoSize THEN size ELSE @]]
    BY <2>1
  <2>5. ReadersOK'
    BY <1>20 DEF TypeOK, ReturnPage, ReadersOK, Reads, IdleRead
  <2> HIDE DEF q
  <2>6. rows' \in [Queries -> Rows]
    BY <2>2, <2>3, <2>4 DEF TypeOK
  <2> QED
    BY <1>20, <2>5, <2>6 DEF TypeOK, ReturnPage, ReadersOK
<1>21. ASSUME NEW r \in Readers, PollSettled(r)
       PROVE  TypeOK'
  <2>1. reader[r] \in Reads /\ reader[r].query \in Queries
    BY <1>21 DEF TypeOK, PollSettled, Reads
  <2>2. ReadersOK'
    BY <1>21, <2>1 DEF TypeOK, PollSettled, Reads, IdleRead, ReadersOK
  <2> QED
    BY <1>21, <2>2 DEF TypeOK, PollSettled, ReadersOK
<1>22. ASSUME NEW r \in Readers, DownloadPolled(r)
       PROVE  TypeOK'
  <2>1. reader[r] \in Reads /\ reader[r].query \in Queries
    BY <1>22 DEF TypeOK, DownloadPolled, Reads
  <2>2. rows[reader[r].query].file \in Queries \cup {NoQuery}
    BY <2>1 DEF TypeOK, Rows
  <2>3. ReadersOK'
    BY <1>22, <2>1, <2>2 DEF TypeOK, DownloadPolled, DownloadOf, Reads, IdleRead,
                             ReadersOK
  <2> QED
    BY <1>22, <2>3 DEF TypeOK, DownloadPolled, ReadersOK
<1>23. ASSUME NEW r \in Readers, EndRead(r)
       PROVE  TypeOK'
  BY <1>23 DEF TypeOK, EndRead, Reads, IdleRead
<1>24. ASSUME NEW r \in Readers, NEW q \in Queries, GetAsyncQueryResults(r, q)
       PROVE  TypeOK'
  BY <1>24 DEF TypeOK, GetAsyncQueryResults, Reads, Rows
<1>25. ASSUME NEW r \in Readers, NEW q \in Queries, StartPolling(r, q)
       PROVE  TypeOK'
  BY <1>25 DEF TypeOK, StartPolling, Reads, IdleRead
<1>26. ASSUME NEW r \in Readers, NEW q \in Queries,
              DownloadAsyncQueryResults(r, q)
       PROVE  TypeOK'
  <2>1. ReadersOK'
    BY <1>26 DEF TypeOK, DownloadAsyncQueryResults, DownloadOf, Reads, IdleRead,
                 ReadersOK, Rows
  <2> QED
    BY <1>26, <2>1 DEF TypeOK, DownloadAsyncQueryResults, ReadersOK
<1>27. CASE Tick
  BY <1>27 DEF TypeOK, Tick, Times
<1>28. ASSUME NEW host \in {"main", "worker"}, Crash(host)
       PROVE  TypeOK'
  <2>1. exec' \in [Queries -> Executions]
    <3>1. \A q \in Queries : [exec[q] EXCEPT !.phase = "lost"] \in Executions
      BY DEF TypeOK, Executions
    <3> QED
      BY <1>28, <3>1 DEF TypeOK, Crash
  <2>2. req' \in [Queries -> Requests]
    BY <1>28 DEF TypeOK, Crash, Requests
  <2>3. job' \in [Queries -> Jobs]
    BY <1>28 DEF TypeOK, Crash, Jobs
  <2>4. ReadersOK'
    BY <1>28 DEF TypeOK, Crash, Reads, IdleRead, ReadersOK
  <2> QED
    BY <1>28, <2>1, <2>2, <2>3, <2>4 DEF TypeOK, Crash, ReadersOK
<1>29. CASE UNCHANGED vars
  BY <1>29 DEF vars, TypeOK
<1> QED
  BY <1>1, <1>2, <1>3, <1>4, <1>5, <1>6, <1>7, <1>8, <1>9, <1>10, <1>11, <1>12,
     <1>13, <1>14, <1>15, <1>16, <1>17, <1>18, <1>19, <1>20, <1>21, <1>22,
     <1>23, <1>24, <1>25, <1>26, <1>27, <1>28, <1>29 DEF Next, RequestStep,
         ExecutionStep, ReadStep

-----------------------------------------------------------------------------
(* What steps write: each lemma says of one variable all that the others     *)
(* need to know.                                                             *)

\* A complete object stays complete and keeps its expiry base.
LEMMA FilesStable ==
  ASSUME IInv, [Next]_vars
  PROVE  \A f \in Queries : store[f] = "complete" =>
           /\ store'[f] = "complete"
           /\ exec'[f].createdAt = exec[f].createdAt
<1> DEFINE Goal == \A f \in Queries : store[f] = "complete" =>
                    /\ store'[f] = "complete"
                    /\ exec'[f].createdAt = exec[f].createdAt
<1> SUFFICES Goal
  OBVIOUS
<1>1. ASSUME NEW q \in Queries, RunInMainLoop(q)
      PROVE  Goal
  BY <1>1 DEF IInv, TypeOK, OneExecution, UploadProgress, Executions, Jobs,
         RunInMainLoop
<1>2. ASSUME NEW q \in Queries, PickJob(q)
      PROVE  Goal
  BY <1>2 DEF IInv, TypeOK, OneExecution, UploadProgress, Executions, Jobs,
         PickJob, MaxAttempts
<1>3. ASSUME NEW q \in Queries, OpenUploadStream(q)
      PROVE  Goal
  BY <1>3 DEF IInv, TypeOK, OneExecution, UploadProgress, Executions, Jobs,
         OpenUploadStream
<1>4. ASSUME NEW q \in Queries, RunQueryAndTransformRows(q)
      PROVE  Goal
  BY <1>4 DEF IInv, TypeOK, OneExecution, UploadProgress, Executions, Jobs,
         RunQueryAndTransformRows
<1>5. ASSUME NEW q \in Queries, CloseStream(q)
      PROVE  Goal
  BY <1>5 DEF IInv, TypeOK, OneExecution, UploadProgress, Executions, Jobs,
         CloseStream
<1>6. ASSUME NEW q \in Queries, MarkReady(q)
      PROVE  Goal
  BY <1>6 DEF IInv, TypeOK, OneExecution, UploadProgress, Executions, Jobs,
         MarkReady, Published, ReadyRow, Settled, getCacheExpiresAt
<1>7. ASSUME NEW q \in Queries, ExecutionThrows(q)
      PROVE  Goal
  BY <1>7 DEF IInv, TypeOK, OneExecution, UploadProgress, Executions, Jobs,
         ExecutionThrows
<1>8. ASSUME NEW q \in Queries, MarkError(q)
      PROVE  Goal
  BY <1>8 DEF IInv, TypeOK, OneExecution, UploadProgress, Executions, Jobs,
         MarkError, ErrorRow, Settled, CloseOpenStream
<1>9. ASSUME NEW q \in Queries, MarkReadyAnswerLost(q)
      PROVE  Goal
  BY <1>9 DEF IInv, TypeOK, OneExecution, UploadProgress, Executions, Jobs,
         MarkReadyAnswerLost, Published, ReadyRow, getCacheExpiresAt
<1>10. ASSUME NEW q \in Queries, MarkErrorThrows(q)
      PROVE  Goal
  BY <1>10 DEF IInv, TypeOK, OneExecution, UploadProgress, Executions, Jobs,
         MarkErrorThrows, Settled, CloseOpenStream
<1>11. ASSUME NEW host \in {"main", "worker"}, Crash(host)
      PROVE  Goal
  BY <1>11 DEF IInv, TypeOK, OneExecution, UploadProgress, Executions, Jobs,
         Crash, Running, IdleRead
<1>12. CASE UNCHANGED <<store, exec>>
  BY <1>12 DEF IInv, TypeOK, OneExecution, UploadProgress, Executions, Jobs
<1>13. ASSUME NEW q \in Queries,
             FindResultsCache(q) \/ Create(q) \/ MarkReadyFromCache(q)
             \/ RejectMissingParameters(q) \/ ScheduleTask(q)
             \/ LogScheduledTask(q) \/ RequestThrows(q)
             \/ CancelAsyncQuery(q) \/ JobTimeout(q)
      PROVE  UNCHANGED <<store, exec>>
  BY <1>13 DEF FindResultsCache, Create, MarkReadyFromCache,
         RejectMissingParameters, ScheduleTask, LogScheduledTask,
         RequestThrows, CancelAsyncQuery, JobTimeout
<1>14. ASSUME NEW r \in Readers,
             ReturnPage(r) \/ PollSettled(r) \/ DownloadPolled(r)
             \/ EndRead(r)
      PROVE  UNCHANGED <<store, exec>>
  BY <1>14 DEF ReturnPage, PollSettled, DownloadPolled, EndRead
<1>15. ASSUME NEW r \in Readers, NEW q \in Queries,
             GetAsyncQueryResults(r, q) \/ StartPolling(r, q)
             \/ DownloadAsyncQueryResults(r, q)
      PROVE  UNCHANGED <<store, exec>>
  BY <1>15 DEF GetAsyncQueryResults, StartPolling, DownloadAsyncQueryResults
<1> QED
  BY <1>1, <1>2, <1>3, <1>4, <1>5, <1>6, <1>7, <1>8, <1>9, <1>10, <1>11, <1>12,
     <1>13, <1>14, <1>15 DEF Next, RequestStep, ExecutionStep, ReadStep, vars,
         Tick

\* The results of a row are written once, from its cache hit or from its own
\* complete upload.
LEMMA RowWrites ==
  ASSUME IInv, [Next]_vars
  PROVE  \A p \in Queries :
           \/ /\ rows'[p].file = rows[p].file
              /\ rows'[p].expiresAt = rows[p].expiresAt
           \/ /\ rows[p].file = NoQuery
              /\ \/ rows'[p].file = NoQuery
                 \/ /\ rows'[p].file = req[p].file
                    /\ rows'[p].expiresAt = req[p].expiresAt
                 \/ /\ rows'[p].file = p
                    /\ store[p] = "complete"
                    /\ rows'[p].expiresAt = exec[p].createdAt + StaleTime
<1> DEFINE Goal == \A p \in Queries :
                    \/ /\ rows'[p].file = rows[p].file
                       /\ rows'[p].expiresAt = rows[p].expiresAt
                    \/ /\ rows[p].file = NoQuery
                       /\ \/ rows'[p].file = NoQuery
                          \/ /\ rows'[p].file = req[p].file
                             /\ rows'[p].expiresAt = req[p].expiresAt
                          \/ /\ rows'[p].file = p
                             /\ store[p] = "complete"
                             /\ rows'[p].expiresAt = exec[p].createdAt + StaleTime
<1> SUFFICES Goal
  OBVIOUS
<1>1. ASSUME NEW q \in Queries, Create(q)
      PROVE  Goal
  BY <1>1 DEF IInv, TypeOK, UploadProgress, RowLife, Rows, Create,
         NoRow, PendingRow
<1>2. ASSUME NEW q \in Queries, MarkReadyFromCache(q)
      PROVE  Goal
  BY <1>2 DEF IInv, TypeOK, UploadProgress, RowLife, Rows, MarkReadyFromCache,
         ReadyRow
<1>3. ASSUME NEW q \in Queries, RejectMissingParameters(q)
      PROVE  Goal
  BY <1>3 DEF IInv, TypeOK, UploadProgress, RowLife, Rows,
         RejectMissingParameters, ErrorRow
<1>4. ASSUME NEW q \in Queries, CancelAsyncQuery(q)
      PROVE  Goal
  BY <1>4 DEF IInv, TypeOK, UploadProgress, RowLife, Rows, CancelAsyncQuery,
         CancelledRow, Known
<1>5. ASSUME NEW q \in Queries, MarkReady(q)
      PROVE  Goal
  BY <1>5 DEF IInv, TypeOK, UploadProgress, RowLife, Rows, MarkReady,
         Published, ReadyRow, Settled, getCacheExpiresAt
<1>6. ASSUME NEW q \in Queries, MarkError(q)
      PROVE  Goal
  BY <1>6 DEF IInv, TypeOK, UploadProgress, RowLife, Rows, MarkError,
         ErrorRow, Settled, CloseOpenStream
<1>7. ASSUME NEW q \in Queries, MarkReadyAnswerLost(q)
      PROVE  Goal
  BY <1>7 DEF IInv, TypeOK, UploadProgress, RowLife, Rows, MarkReadyAnswerLost,
         Published, ReadyRow, getCacheExpiresAt
<1>8. ASSUME NEW r \in Readers, ReturnPage(r)
      PROVE  Goal
  BY <1>8 DEF IInv, TypeOK, UploadProgress, RowLife, Rows, ReturnPage,
         IdleRead
<1>9. CASE UNCHANGED <<rows>>
  BY <1>9 DEF IInv, TypeOK, UploadProgress, RowLife, Rows
<1>10. ASSUME NEW q \in Queries,
             FindResultsCache(q) \/ RunInMainLoop(q) \/ ScheduleTask(q)
             \/ LogScheduledTask(q) \/ RequestThrows(q) \/ PickJob(q)
             \/ JobTimeout(q) \/ OpenUploadStream(q)
             \/ RunQueryAndTransformRows(q) \/ CloseStream(q)
             \/ ExecutionThrows(q) \/ MarkErrorThrows(q)
      PROVE  UNCHANGED <<rows>>
  BY <1>10 DEF FindResultsCache, RunInMainLoop, ScheduleTask, LogScheduledTask,
         RequestThrows, PickJob, JobTimeout, OpenUploadStream,
         RunQueryAndTransformRows, CloseStream, ExecutionThrows,
         MarkErrorThrows
<1>11. ASSUME NEW r \in Readers,
             PollSettled(r) \/ DownloadPolled(r) \/ EndRead(r)
      PROVE  UNCHANGED <<rows>>
  BY <1>11 DEF PollSettled, DownloadPolled, EndRead
<1>12. ASSUME NEW r \in Readers, NEW q \in Queries,
             GetAsyncQueryResults(r, q) \/ StartPolling(r, q)
             \/ DownloadAsyncQueryResults(r, q)
      PROVE  UNCHANGED <<rows>>
  BY <1>12 DEF GetAsyncQueryResults, StartPolling, DownloadAsyncQueryResults
<1> QED
  BY <1>1, <1>2, <1>3, <1>4, <1>5, <1>6, <1>7, <1>8, <1>9, <1>10, <1>11, <1>12
     DEF Next, RequestStep, ExecutionStep, ReadStep, vars, Tick, Crash

\* A cache hit is copied from a row of the same key that is not about to expire.
LEMMA RequestWrites ==
  ASSUME IInv, [Next]_vars
  PROVE  \A p \in Queries :
           \/ /\ req'[p].file = req[p].file
              /\ req'[p].expiresAt = req[p].expiresAt
              /\ req'[p].lookedUpAt = req[p].lookedUpAt
           \/ req'[p].file = NoQuery
           \/ \E s \in Queries :
                /\ KeyOf[s] = KeyOf[p]
                /\ req'[p].file = rows[s].file
                /\ req'[p].expiresAt = rows[s].expiresAt
                /\ req'[p].expiresAt > req'[p].lookedUpAt + expiryBuffer
<1> DEFINE Goal == \A p \in Queries :
                    \/ /\ req'[p].file = req[p].file
                       /\ req'[p].expiresAt = req[p].expiresAt
                       /\ req'[p].lookedUpAt = req[p].lookedUpAt
                    \/ req'[p].file = NoQuery
                    \/ \E s \in Queries :
                         /\ KeyOf[s] = KeyOf[p]
                         /\ req'[p].file = rows[s].file
                         /\ req'[p].expiresAt = rows[s].expiresAt
                         /\ req'[p].expiresAt > req'[p].lookedUpAt + expiryBuffer
<1> SUFFICES Goal
  OBVIOUS
<1>1. ASSUME NEW q \in Queries, FindResultsCache(q)
      PROVE  Goal
  BY <1>1 DEF IInv, TypeOK, LatestRows, Requests, FindResultsCache,
         findCachedResultsFile
<1>2. ASSUME NEW q \in Queries, Create(q)
      PROVE  Goal
  BY <1>2 DEF IInv, TypeOK, LatestRows, Requests, Create, NoRow, PendingRow
<1>3. ASSUME NEW q \in Queries, MarkReadyFromCache(q)
      PROVE  Goal
  BY <1>3 DEF IInv, TypeOK, LatestRows, Requests, MarkReadyFromCache, ReadyRow
<1>4. ASSUME NEW q \in Queries, RejectMissingParameters(q)
      PROVE  Goal
  BY <1>4 DEF IInv, TypeOK, LatestRows, Requests, RejectMissingParameters,
         ErrorRow
<1>5. ASSUME NEW q \in Queries, RunInMainLoop(q)
      PROVE  Goal
  BY <1>5 DEF IInv, TypeOK, LatestRows, Requests, RunInMainLoop
<1>6. ASSUME NEW q \in Queries, ScheduleTask(q)
      PROVE  Goal
  BY <1>6 DEF IInv, TypeOK, LatestRows, Requests, ScheduleTask
<1>7. ASSUME NEW q \in Queries, LogScheduledTask(q)
      PROVE  Goal
  BY <1>7 DEF IInv, TypeOK, LatestRows, Requests, LogScheduledTask
<1>8. ASSUME NEW q \in Queries, RequestThrows(q)
      PROVE  Goal
  BY <1>8 DEF IInv, TypeOK, LatestRows, Requests, RequestThrows
<1>9. ASSUME NEW host \in {"main", "worker"}, Crash(host)
      PROVE  Goal
  BY <1>9 DEF IInv, TypeOK, LatestRows, Requests, Crash, Running, IdleRead
<1>10. CASE UNCHANGED <<req>>
  BY <1>10 DEF IInv, TypeOK, LatestRows, Requests
<1>11. ASSUME NEW q \in Queries,
             CancelAsyncQuery(q) \/ PickJob(q) \/ JobTimeout(q)
             \/ OpenUploadStream(q) \/ RunQueryAndTransformRows(q)
             \/ CloseStream(q) \/ MarkReady(q) \/ ExecutionThrows(q)
             \/ MarkError(q) \/ MarkReadyAnswerLost(q)
             \/ MarkErrorThrows(q)
      PROVE  UNCHANGED <<req>>
  BY <1>11 DEF CancelAsyncQuery, PickJob, JobTimeout, OpenUploadStream,
         RunQueryAndTransformRows, CloseStream, MarkReady, ExecutionThrows,
         MarkError, MarkReadyAnswerLost, MarkErrorThrows
<1>12. ASSUME NEW r \in Readers,
             ReturnPage(r) \/ PollSettled(r) \/ DownloadPolled(r)
             \/ EndRead(r)
      PROVE  UNCHANGED <<req>>
  BY <1>12 DEF ReturnPage, PollSettled, DownloadPolled, EndRead
<1>13. ASSUME NEW r \in Readers, NEW q \in Queries,
             GetAsyncQueryResults(r, q) \/ StartPolling(r, q)
             \/ DownloadAsyncQueryResults(r, q)
      PROVE  UNCHANGED <<req>>
  BY <1>13 DEF GetAsyncQueryResults, StartPolling, DownloadAsyncQueryResults
<1> QED
  BY <1>1, <1>2, <1>3, <1>4, <1>5, <1>6, <1>7, <1>8, <1>9, <1>10, <1>11, <1>12,
     <1>13 DEF Next, RequestStep, ExecutionStep, ReadStep, vars, Tick

\* A reader takes the name of its file from a row.
LEMMA ReaderWrites ==
  ASSUME IInv, [Next]_vars
  PROVE  \A x \in Readers :
           \/ reader'[x].file \in {NoQuery, reader[x].file}
           \/ \E p \in Queries : reader'[x].file = rows[p].file
<1> DEFINE Goal == \A x \in Readers :
                    \/ reader'[x].file \in {NoQuery, reader[x].file}
                    \/ \E p \in Queries : reader'[x].file = rows[p].file
<1> SUFFICES Goal
  OBVIOUS
<1>1. ASSUME NEW r \in Readers, ReturnPage(r)
      PROVE  Goal
  BY <1>1 DEF IInv, TypeOK, Reads, ReturnPage, IdleRead
<1>2. ASSUME NEW r \in Readers, PollSettled(r)
      PROVE  Goal
  BY <1>2 DEF IInv, TypeOK, Reads, PollSettled, IdleRead
<1>3. ASSUME NEW r \in Readers, DownloadPolled(r)
      PROVE  Goal
  BY <1>3 DEF IInv, TypeOK, Reads, DownloadPolled, DownloadOf, IdleRead
<1>4. ASSUME NEW r \in Readers, EndRead(r)
      PROVE  Goal
  BY <1>4 DEF IInv, TypeOK, Reads, EndRead, IdleRead
<1>5. ASSUME NEW r \in Readers, NEW q \in Queries, GetAsyncQueryResults(r, q)
      PROVE  Goal
  BY <1>5 DEF IInv, TypeOK, Reads, GetAsyncQueryResults
<1>6. ASSUME NEW r \in Readers, NEW q \in Queries, StartPolling(r, q)
      PROVE  Goal
  BY <1>6 DEF IInv, TypeOK, Reads, StartPolling, IdleRead
<1>7. ASSUME NEW r \in Readers, NEW q \in Queries, DownloadAsyncQueryResults(r, q)
      PROVE  Goal
  BY <1>7 DEF IInv, TypeOK, Reads, DownloadAsyncQueryResults,
         DownloadOf, IdleRead
<1>8. ASSUME NEW host \in {"main", "worker"}, Crash(host)
      PROVE  Goal
  BY <1>8 DEF IInv, TypeOK, Reads, Crash, Running, IdleRead
<1>9. CASE UNCHANGED <<reader>>
  BY <1>9 DEF IInv, TypeOK, Reads
<1>10. ASSUME NEW q \in Queries,
             FindResultsCache(q) \/ Create(q) \/ MarkReadyFromCache(q)
             \/ RejectMissingParameters(q) \/ RunInMainLoop(q)
             \/ ScheduleTask(q) \/ LogScheduledTask(q) \/ RequestThrows(q)
             \/ CancelAsyncQuery(q) \/ PickJob(q) \/ JobTimeout(q)
             \/ OpenUploadStream(q) \/ RunQueryAndTransformRows(q)
             \/ CloseStream(q) \/ MarkReady(q) \/ ExecutionThrows(q)
             \/ MarkError(q) \/ MarkReadyAnswerLost(q)
             \/ MarkErrorThrows(q)
      PROVE  UNCHANGED <<reader>>
  BY <1>10 DEF FindResultsCache, Create, MarkReadyFromCache,
         RejectMissingParameters, RunInMainLoop, ScheduleTask,
         LogScheduledTask, RequestThrows, CancelAsyncQuery, PickJob,
         JobTimeout, OpenUploadStream, RunQueryAndTransformRows, CloseStream,
         MarkReady, ExecutionThrows, MarkError, MarkReadyAnswerLost,
         MarkErrorThrows
<1> QED
  BY <1>1, <1>2, <1>3, <1>4, <1>5, <1>6, <1>7, <1>8, <1>9, <1>10 DEF Next,
         RequestStep, ExecutionStep, ReadStep, vars, Tick

-----------------------------------------------------------------------------
(* Every part of the invariant is preserved. *)

\* OneExecution: a call is dispatched once and a job is picked once.
LEMMA OneExecutionStep ==
  ASSUME IInv, [Next]_vars
  PROVE  OneExecution'
<1>1. ASSUME NEW q \in Queries, FindResultsCache(q)
      PROVE  OneExecution'
  BY <1>1 DEF IInv, TypeOK, OneExecution, Requests, Executions, Jobs,
         FindResultsCache, findCachedResultsFile
<1>2. ASSUME NEW q \in Queries, Create(q)
      PROVE  OneExecution'
  BY <1>2 DEF IInv, TypeOK, OneExecution, Requests, Executions, Jobs, Create,
         NoRow, PendingRow
<1>3. ASSUME NEW q \in Queries, MarkReadyFromCache(q)
      PROVE  OneExecution'
  BY <1>3 DEF IInv, TypeOK, OneExecution, Requests, Executions, Jobs,
         MarkReadyFromCache, ReadyRow
<1>4. ASSUME NEW q \in Queries, RejectMissingParameters(q)
      PROVE  OneExecution'
  BY <1>4 DEF IInv, TypeOK, OneExecution, Requests, Executions, Jobs,
         RejectMissingParameters, ErrorRow
<1>5. ASSUME NEW q \in Queries, RunInMainLoop(q)
      PROVE  OneExecution'
  BY <1>5 DEF IInv, TypeOK, OneExecution, Requests, Executions, Jobs,
         RunInMainLoop
<1>6. ASSUME NEW q \in Queries, ScheduleTask(q)
      PROVE  OneExecution'
  BY <1>6 DEF IInv, TypeOK, OneExecution, Requests, Executions, Jobs,
         ScheduleTask
<1>7. ASSUME NEW q \in Queries, LogScheduledTask(q)
      PROVE  OneExecution'
  BY <1>7 DEF IInv, TypeOK, OneExecution, Requests, Executions, Jobs,
         LogScheduledTask
<1>8. ASSUME NEW q \in Queries, RequestThrows(q)
      PROVE  OneExecution'
  BY <1>8 DEF IInv, TypeOK, OneExecution, Requests, Executions, Jobs,
         RequestThrows
<1>9. ASSUME NEW q \in Queries, PickJob(q)
      PROVE  OneExecution'
  BY <1>9 DEF IInv, TypeOK, OneExecution, Requests, Executions, Jobs, PickJob,
         MaxAttempts
<1>10. ASSUME NEW q \in Queries, JobTimeout(q)
      PROVE  OneExecution'
  BY <1>10 DEF IInv, TypeOK, OneExecution, Requests, Executions, Jobs,
         JobTimeout
<1>11. ASSUME NEW q \in Queries, OpenUploadStream(q)
      PROVE  OneExecution'
  BY <1>11 DEF IInv, TypeOK, OneExecution, Requests, Executions, Jobs,
         OpenUploadStream
<1>12. ASSUME NEW q \in Queries, RunQueryAndTransformRows(q)
      PROVE  OneExecution'
  BY <1>12 DEF IInv, TypeOK, OneExecution, Requests, Executions, Jobs,
         RunQueryAndTransformRows
<1>13. ASSUME NEW q \in Queries, CloseStream(q)
      PROVE  OneExecution'
  BY <1>13 DEF IInv, TypeOK, OneExecution, Requests, Executions, Jobs,
         CloseStream
<1>14. ASSUME NEW q \in Queries, MarkReady(q)
      PROVE  OneExecution'
  BY <1>14 DEF IInv, TypeOK, OneExecution, Requests, Executions, Jobs,
         MarkReady, Published, ReadyRow, Settled, getCacheExpiresAt
<1>15. ASSUME NEW q \in Queries, ExecutionThrows(q)
      PROVE  OneExecution'
  BY <1>15 DEF IInv, TypeOK, OneExecution, Requests, Executions, Jobs,
         ExecutionThrows
<1>16. ASSUME NEW q \in Queries, MarkError(q)
      PROVE  OneExecution'
  BY <1>16 DEF IInv, TypeOK, OneExecution, Requests, Executions, Jobs,
         MarkError, ErrorRow, Settled, CloseOpenStream
<1>17. ASSUME NEW q \in Queries, MarkReadyAnswerLost(q)
      PROVE  OneExecution'
  BY <1>17 DEF IInv, TypeOK, OneExecution, Requests, Executions, Jobs,
         MarkReadyAnswerLost, Published, ReadyRow, getCacheExpiresAt
<1>18. ASSUME NEW q \in Queries, MarkErrorThrows(q)
      PROVE  OneExecution'
  BY <1>18 DEF IInv, TypeOK, OneExecution, Requests, Executions, Jobs,
         MarkErrorThrows, Settled, CloseOpenStream
<1>19. ASSUME NEW host \in {"main", "worker"}, Crash(host)
      PROVE  OneExecution'
  BY <1>19 DEF IInv, TypeOK, OneExecution, Requests, Executions, Jobs, Crash,
         Running, IdleRead
<1>20. CASE UNCHANGED <<req, exec, job>>
  BY <1>20 DEF IInv, TypeOK, OneExecution, Requests, Executions, Jobs
<1>21. ASSUME NEW q \in Queries,
             CancelAsyncQuery(q)
      PROVE  UNCHANGED <<req, exec, job>>
  BY <1>21 DEF CancelAsyncQuery
<1>22. ASSUME NEW r \in Readers,
             ReturnPage(r) \/ PollSettled(r) \/ DownloadPolled(r)
             \/ EndRead(r)
      PROVE  UNCHANGED <<req, exec, job>>
  BY <1>22 DEF ReturnPage, PollSettled, DownloadPolled, EndRead
<1>23. ASSUME NEW r \in Readers, NEW q \in Queries,
             GetAsyncQueryResults(r, q) \/ StartPolling(r, q)
             \/ DownloadAsyncQueryResults(r, q)
      PROVE  UNCHANGED <<req, exec, job>>
  BY <1>23 DEF GetAsyncQueryResults, StartPolling, DownloadAsyncQueryResults
<1> QED
  BY <1>1, <1>2, <1>3, <1>4, <1>5, <1>6, <1>7, <1>8, <1>9, <1>10, <1>11, <1>12,
     <1>13, <1>14, <1>15, <1>16, <1>17, <1>18, <1>19, <1>20, <1>21, <1>22,
     <1>23 DEF Next, RequestStep, ExecutionStep, ReadStep, vars, Tick

\* UploadProgress: the phases of an execution and its object advance together.
LEMMA UploadProgressStep ==
  ASSUME IInv, [Next]_vars
  PROVE  UploadProgress'
<1>1. ASSUME NEW q \in Queries, RunInMainLoop(q)
      PROVE  UploadProgress'
  BY <1>1 DEF IInv, TypeOK, UploadProgress, OneExecution, Executions,
         FileStates, Jobs, Times, NoTime, RunInMainLoop
<1>2. ASSUME NEW q \in Queries, PickJob(q)
      PROVE  UploadProgress'
  BY <1>2 DEF IInv, TypeOK, UploadProgress, OneExecution, Executions,
         FileStates, Jobs, Times, NoTime, PickJob, MaxAttempts
<1>3. ASSUME NEW q \in Queries, OpenUploadStream(q)
      PROVE  UploadProgress'
  BY <1>3 DEF IInv, TypeOK, UploadProgress, OneExecution, Executions,
         FileStates, Jobs, Times, NoTime, OpenUploadStream
<1>4. ASSUME NEW q \in Queries, RunQueryAndTransformRows(q)
      PROVE  UploadProgress'
  BY <1>4 DEF IInv, TypeOK, UploadProgress, OneExecution, Executions,
         FileStates, Jobs, Times, NoTime, RunQueryAndTransformRows
<1>5. ASSUME NEW q \in Queries, CloseStream(q)
      PROVE  UploadProgress'
  BY <1>5 DEF IInv, TypeOK, UploadProgress, OneExecution, Executions,
         FileStates, Jobs, Times, NoTime, CloseStream
<1>6. ASSUME NEW q \in Queries, MarkReady(q)
      PROVE  UploadProgress'
  BY <1>6 DEF IInv, TypeOK, UploadProgress, OneExecution, Executions,
         FileStates, Jobs, Times, NoTime, MarkReady,
         Published, ReadyRow, Settled, getCacheExpiresAt
<1>7. ASSUME NEW q \in Queries, ExecutionThrows(q)
      PROVE  UploadProgress'
  BY <1>7 DEF IInv, TypeOK, UploadProgress, OneExecution, Executions,
         FileStates, Jobs, Times, NoTime, ExecutionThrows
<1>8. ASSUME NEW q \in Queries, MarkError(q)
      PROVE  UploadProgress'
  BY <1>8 DEF IInv, TypeOK, UploadProgress, OneExecution, Executions,
         FileStates, Jobs, Times, NoTime, MarkError,
         ErrorRow, Settled, CloseOpenStream
<1>9. ASSUME NEW q \in Queries, MarkReadyAnswerLost(q)
      PROVE  UploadProgress'
  BY <1>9 DEF IInv, TypeOK, UploadProgress, OneExecution, Executions,
         FileStates, Jobs, Times, NoTime, MarkReadyAnswerLost,
         Published, ReadyRow, getCacheExpiresAt
<1>10. ASSUME NEW q \in Queries, MarkErrorThrows(q)
      PROVE  UploadProgress'
  BY <1>10 DEF IInv, TypeOK, UploadProgress, OneExecution, Executions,
         FileStates, Jobs, Times, NoTime, MarkErrorThrows,
         Settled, CloseOpenStream
<1>11. ASSUME Tick
      PROVE  UploadProgress'
  BY <1>11 DEF IInv, TypeOK, UploadProgress, OneExecution, Executions,
         FileStates, Jobs, Times, NoTime, Tick
<1>12. ASSUME NEW host \in {"main", "worker"}, Crash(host)
      PROVE  UploadProgress'
  BY <1>12 DEF IInv, TypeOK, UploadProgress, OneExecution, Executions,
         FileStates, Jobs, Times, NoTime, Crash, Running, IdleRead
<1>13. CASE UNCHANGED <<exec, store, now>>
  BY <1>13 DEF IInv, TypeOK, UploadProgress, OneExecution, Executions,
         FileStates, Jobs, Times, NoTime
<1>14. ASSUME NEW q \in Queries,
             FindResultsCache(q) \/ Create(q) \/ MarkReadyFromCache(q)
             \/ RejectMissingParameters(q) \/ ScheduleTask(q)
             \/ LogScheduledTask(q) \/ RequestThrows(q)
             \/ CancelAsyncQuery(q) \/ JobTimeout(q)
      PROVE  UNCHANGED <<exec, store, now>>
  BY <1>14 DEF FindResultsCache, Create, MarkReadyFromCache,
         RejectMissingParameters, ScheduleTask, LogScheduledTask,
         RequestThrows, CancelAsyncQuery, JobTimeout
<1>15. ASSUME NEW r \in Readers,
             ReturnPage(r) \/ PollSettled(r) \/ DownloadPolled(r)
             \/ EndRead(r)
      PROVE  UNCHANGED <<exec, store, now>>
  BY <1>15 DEF ReturnPage, PollSettled, DownloadPolled, EndRead
<1>16. ASSUME NEW r \in Readers, NEW q \in Queries,
             GetAsyncQueryResults(r, q) \/ StartPolling(r, q)
             \/ DownloadAsyncQueryResults(r, q)
      PROVE  UNCHANGED <<exec, store, now>>
  BY <1>16 DEF GetAsyncQueryResults, StartPolling, DownloadAsyncQueryResults
<1> QED
  BY <1>1, <1>2, <1>3, <1>4, <1>5, <1>6, <1>7, <1>8, <1>9, <1>10, <1>11, <1>12,
     <1>13, <1>14, <1>15, <1>16 DEF Next, RequestStep, ExecutionStep, ReadStep,
         vars

\* LatestRows: only Create moves the pointer, to a row of its own key.
LEMMA LatestRowsStep ==
  ASSUME IInv, [Next]_vars
  PROVE  LatestRows'
<1>1. ASSUME NEW q \in Queries, Create(q)
      PROVE  LatestRows'
  BY <1>1 DEF IInv, TypeOK, LatestRows, Create, NoRow, PendingRow
<1>2. CASE UNCHANGED <<lastRow>>
  BY <1>2 DEF IInv, TypeOK, LatestRows
<1>3. ASSUME NEW q \in Queries,
             FindResultsCache(q) \/ MarkReadyFromCache(q)
             \/ RejectMissingParameters(q) \/ RunInMainLoop(q)
             \/ ScheduleTask(q) \/ LogScheduledTask(q) \/ RequestThrows(q)
             \/ CancelAsyncQuery(q) \/ PickJob(q) \/ JobTimeout(q)
             \/ OpenUploadStream(q) \/ RunQueryAndTransformRows(q)
             \/ CloseStream(q) \/ MarkReady(q) \/ ExecutionThrows(q)
             \/ MarkError(q) \/ MarkReadyAnswerLost(q)
             \/ MarkErrorThrows(q)
      PROVE  UNCHANGED <<lastRow>>
  BY <1>3 DEF FindResultsCache, MarkReadyFromCache, RejectMissingParameters,
         RunInMainLoop, ScheduleTask, LogScheduledTask, RequestThrows,
         CancelAsyncQuery, PickJob, JobTimeout, OpenUploadStream,
         RunQueryAndTransformRows, CloseStream, MarkReady, ExecutionThrows,
         MarkError, MarkReadyAnswerLost, MarkErrorThrows
<1>4. ASSUME NEW r \in Readers,
             ReturnPage(r) \/ PollSettled(r) \/ DownloadPolled(r)
             \/ EndRead(r)
      PROVE  UNCHANGED <<lastRow>>
  BY <1>4 DEF ReturnPage, PollSettled, DownloadPolled, EndRead
<1>5. ASSUME NEW r \in Readers, NEW q \in Queries,
             GetAsyncQueryResults(r, q) \/ StartPolling(r, q)
             \/ DownloadAsyncQueryResults(r, q)
      PROVE  UNCHANGED <<lastRow>>
  BY <1>5 DEF GetAsyncQueryResults, StartPolling, DownloadAsyncQueryResults
<1> QED
  BY <1>1, <1>2, <1>3, <1>4, <1>5 DEF Next, RequestStep, ExecutionStep,
         ReadStep, vars, Tick, Crash

\* RowLife: a row appears with Create and gets results only when ready.
LEMMA RowLifeStep ==
  ASSUME IInv, [Next]_vars
  PROVE  RowLife'
<1>1. ASSUME NEW q \in Queries, FindResultsCache(q)
      PROVE  RowLife'
  BY <1>1 DEF IInv, TypeOK, RowLife, Rows, Requests, FindResultsCache,
         findCachedResultsFile
<1>2. ASSUME NEW q \in Queries, Create(q)
      PROVE  RowLife'
  BY <1>2 DEF IInv, TypeOK, RowLife, Rows, Requests, Create, NoRow, PendingRow
<1>3. ASSUME NEW q \in Queries, MarkReadyFromCache(q)
      PROVE  RowLife'
  BY <1>3 DEF IInv, TypeOK, RowLife, Rows, Requests, MarkReadyFromCache,
         ReadyRow
<1>4. ASSUME NEW q \in Queries, RejectMissingParameters(q)
      PROVE  RowLife'
  BY <1>4 DEF IInv, TypeOK, RowLife, Rows, Requests, RejectMissingParameters,
         ErrorRow
<1>5. ASSUME NEW q \in Queries, RunInMainLoop(q)
      PROVE  RowLife'
  BY <1>5 DEF IInv, TypeOK, RowLife, Rows, Requests, RunInMainLoop
<1>6. ASSUME NEW q \in Queries, ScheduleTask(q)
      PROVE  RowLife'
  BY <1>6 DEF IInv, TypeOK, RowLife, Rows, Requests, ScheduleTask
<1>7. ASSUME NEW q \in Queries, LogScheduledTask(q)
      PROVE  RowLife'
  BY <1>7 DEF IInv, TypeOK, RowLife, Rows, Requests, LogScheduledTask
<1>8. ASSUME NEW q \in Queries, RequestThrows(q)
      PROVE  RowLife'
  BY <1>8 DEF IInv, TypeOK, RowLife, Rows, Requests, RequestThrows
<1>9. ASSUME NEW q \in Queries, CancelAsyncQuery(q)
      PROVE  RowLife'
  BY <1>9 DEF IInv, TypeOK, RowLife, Rows, Requests, CancelAsyncQuery,
         CancelledRow, Known
<1>10. ASSUME NEW q \in Queries, PickJob(q)
      PROVE  RowLife'
  BY <1>10 DEF IInv, TypeOK, RowLife, Rows, Requests, PickJob, MaxAttempts
<1>11. ASSUME NEW q \in Queries, JobTimeout(q)
      PROVE  RowLife'
  BY <1>11 DEF IInv, TypeOK, RowLife, Rows, Requests, JobTimeout
<1>12. ASSUME NEW q \in Queries, OpenUploadStream(q)
      PROVE  RowLife'
  BY <1>12 DEF IInv, TypeOK, RowLife, Rows, Requests, OpenUploadStream
<1>13. ASSUME NEW q \in Queries, RunQueryAndTransformRows(q)
      PROVE  RowLife'
  BY <1>13 DEF IInv, TypeOK, RowLife, Rows, Requests, RunQueryAndTransformRows
<1>14. ASSUME NEW q \in Queries, CloseStream(q)
      PROVE  RowLife'
  BY <1>14 DEF IInv, TypeOK, RowLife, Rows, Requests, CloseStream
<1>15. ASSUME NEW q \in Queries, MarkReady(q)
      PROVE  RowLife'
  BY <1>15 DEF IInv, TypeOK, RowLife, Rows, Requests, MarkReady,
         Published, ReadyRow, Settled, getCacheExpiresAt
<1>16. ASSUME NEW q \in Queries, ExecutionThrows(q)
      PROVE  RowLife'
  BY <1>16 DEF IInv, TypeOK, RowLife, Rows, Requests, ExecutionThrows
<1>17. ASSUME NEW q \in Queries, MarkError(q)
      PROVE  RowLife'
  BY <1>17 DEF IInv, TypeOK, RowLife, Rows, Requests, MarkError,
         ErrorRow, Settled, CloseOpenStream
<1>18. ASSUME NEW q \in Queries, MarkReadyAnswerLost(q)
      PROVE  RowLife'
  BY <1>18 DEF IInv, TypeOK, RowLife, Rows, Requests, MarkReadyAnswerLost,
         Published, ReadyRow, getCacheExpiresAt
<1>19. ASSUME NEW q \in Queries, MarkErrorThrows(q)
      PROVE  RowLife'
  BY <1>19 DEF IInv, TypeOK, RowLife, Rows, Requests, MarkErrorThrows,
         Settled, CloseOpenStream
<1>20. ASSUME NEW r \in Readers, ReturnPage(r)
      PROVE  RowLife'
  BY <1>20 DEF IInv, TypeOK, RowLife, Rows, Requests, ReturnPage, IdleRead
<1>21. ASSUME NEW host \in {"main", "worker"}, Crash(host)
      PROVE  RowLife'
  BY <1>21 DEF IInv, TypeOK, RowLife, Rows, Requests, Crash, Running, IdleRead
<1>22. CASE UNCHANGED <<rows, req, exec, job>>
  BY <1>22 DEF IInv, TypeOK, RowLife, Rows, Requests
<1>23. ASSUME NEW r \in Readers,
             PollSettled(r) \/ DownloadPolled(r) \/ EndRead(r)
      PROVE  UNCHANGED <<rows, req, exec, job>>
  BY <1>23 DEF PollSettled, DownloadPolled, EndRead
<1>24. ASSUME NEW r \in Readers, NEW q \in Queries,
             GetAsyncQueryResults(r, q) \/ StartPolling(r, q)
             \/ DownloadAsyncQueryResults(r, q)
      PROVE  UNCHANGED <<rows, req, exec, job>>
  BY <1>24 DEF GetAsyncQueryResults, StartPolling, DownloadAsyncQueryResults
<1> QED
  BY <1>1, <1>2, <1>3, <1>4, <1>5, <1>6, <1>7, <1>8, <1>9, <1>10, <1>11, <1>12,
     <1>13, <1>14, <1>15, <1>16, <1>17, <1>18, <1>19, <1>20, <1>21, <1>22,
     <1>23, <1>24 DEF Next, RequestStep, ExecutionStep, ReadStep, vars, Tick

\* HitsExecuteNothing: a call that hit the cache returns without dispatching.
LEMMA HitsExecuteNothingStep ==
  ASSUME IInv, [Next]_vars
  PROVE  HitsExecuteNothing'
<1>1. ASSUME NEW q \in Queries, FindResultsCache(q)
      PROVE  HitsExecuteNothing'
  BY <1>1 DEF IInv, TypeOK, HitsExecuteNothing, OneExecution, RowLife, Rows,
         Requests, FindResultsCache, findCachedResultsFile
<1>2. ASSUME NEW q \in Queries, Create(q)
      PROVE  HitsExecuteNothing'
  BY <1>2 DEF IInv, TypeOK, HitsExecuteNothing, OneExecution, RowLife, Rows,
         Requests, Create, NoRow, PendingRow
<1>3. ASSUME NEW q \in Queries, MarkReadyFromCache(q)
      PROVE  HitsExecuteNothing'
  BY <1>3 DEF IInv, TypeOK, HitsExecuteNothing, OneExecution, RowLife, Rows,
         Requests, MarkReadyFromCache, ReadyRow
<1>4. ASSUME NEW q \in Queries, RejectMissingParameters(q)
      PROVE  HitsExecuteNothing'
  BY <1>4 DEF IInv, TypeOK, HitsExecuteNothing, OneExecution, RowLife, Rows,
         Requests, RejectMissingParameters, ErrorRow
<1>5. ASSUME NEW q \in Queries, RunInMainLoop(q)
      PROVE  HitsExecuteNothing'
  BY <1>5 DEF IInv, TypeOK, HitsExecuteNothing, OneExecution, RowLife, Rows,
         Requests, RunInMainLoop
<1>6. ASSUME NEW q \in Queries, ScheduleTask(q)
      PROVE  HitsExecuteNothing'
  BY <1>6 DEF IInv, TypeOK, HitsExecuteNothing, OneExecution, RowLife, Rows,
         Requests, ScheduleTask
<1>7. ASSUME NEW q \in Queries, LogScheduledTask(q)
      PROVE  HitsExecuteNothing'
  BY <1>7 DEF IInv, TypeOK, HitsExecuteNothing, OneExecution, RowLife, Rows,
         Requests, LogScheduledTask
<1>8. ASSUME NEW q \in Queries, RequestThrows(q)
      PROVE  HitsExecuteNothing'
  BY <1>8 DEF IInv, TypeOK, HitsExecuteNothing, OneExecution, RowLife, Rows,
         Requests, RequestThrows
<1>9. ASSUME NEW q \in Queries, CancelAsyncQuery(q)
      PROVE  HitsExecuteNothing'
  BY <1>9 DEF IInv, TypeOK, HitsExecuteNothing, OneExecution, RowLife, Rows,
         Requests, CancelAsyncQuery, CancelledRow, Known
<1>10. ASSUME NEW q \in Queries, PickJob(q)
      PROVE  HitsExecuteNothing'
  BY <1>10 DEF IInv, TypeOK, HitsExecuteNothing, OneExecution, RowLife, Rows,
         Requests, PickJob, MaxAttempts
<1>11. ASSUME NEW q \in Queries, JobTimeout(q)
      PROVE  HitsExecuteNothing'
  BY <1>11 DEF IInv, TypeOK, HitsExecuteNothing, OneExecution, RowLife, Rows,
         Requests, JobTimeout
<1>12. ASSUME NEW q \in Queries, OpenUploadStream(q)
      PROVE  HitsExecuteNothing'
  BY <1>12 DEF IInv, TypeOK, HitsExecuteNothing, OneExecution, RowLife, Rows,
         Requests, OpenUploadStream
<1>13. ASSUME NEW q \in Queries, RunQueryAndTransformRows(q)
      PROVE  HitsExecuteNothing'
  BY <1>13 DEF IInv, TypeOK, HitsExecuteNothing, OneExecution, RowLife, Rows,
         Requests, RunQueryAndTransformRows
<1>14. ASSUME NEW q \in Queries, CloseStream(q)
      PROVE  HitsExecuteNothing'
  BY <1>14 DEF IInv, TypeOK, HitsExecuteNothing, OneExecution, RowLife, Rows,
         Requests, CloseStream
<1>15. ASSUME NEW q \in Queries, MarkReady(q)
      PROVE  HitsExecuteNothing'
  BY <1>15 DEF IInv, TypeOK, HitsExecuteNothing, OneExecution, RowLife, Rows,
         Requests, MarkReady, Published, ReadyRow, Settled, getCacheExpiresAt
<1>16. ASSUME NEW q \in Queries, ExecutionThrows(q)
      PROVE  HitsExecuteNothing'
  BY <1>16 DEF IInv, TypeOK, HitsExecuteNothing, OneExecution, RowLife, Rows,
         Requests, ExecutionThrows
<1>17. ASSUME NEW q \in Queries, MarkError(q)
      PROVE  HitsExecuteNothing'
  BY <1>17 DEF IInv, TypeOK, HitsExecuteNothing, OneExecution, RowLife, Rows,
         Requests, MarkError, ErrorRow, Settled, CloseOpenStream
<1>18. ASSUME NEW q \in Queries, MarkReadyAnswerLost(q)
      PROVE  HitsExecuteNothing'
  BY <1>18 DEF IInv, TypeOK, HitsExecuteNothing, OneExecution, RowLife, Rows,
         Requests, MarkReadyAnswerLost, Published, ReadyRow, getCacheExpiresAt
<1>19. ASSUME NEW q \in Queries, MarkErrorThrows(q)
      PROVE  HitsExecuteNothing'
  BY <1>19 DEF IInv, TypeOK, HitsExecuteNothing, OneExecution, RowLife, Rows,
         Requests, MarkErrorThrows, Settled, CloseOpenStream
<1>20. ASSUME NEW r \in Readers, ReturnPage(r)
      PROVE  HitsExecuteNothing'
  BY <1>20 DEF IInv, TypeOK, HitsExecuteNothing, OneExecution, RowLife, Rows,
         Requests, ReturnPage, IdleRead
<1>21. ASSUME NEW host \in {"main", "worker"}, Crash(host)
      PROVE  HitsExecuteNothing'
  BY <1>21 DEF IInv, TypeOK, HitsExecuteNothing, OneExecution, RowLife, Rows,
         Requests, Crash, Running, IdleRead
<1>22. CASE UNCHANGED <<rows, req, exec, job>>
  BY <1>22 DEF IInv, TypeOK, HitsExecuteNothing, OneExecution, RowLife, Rows,
         Requests
<1>23. ASSUME NEW r \in Readers,
             PollSettled(r) \/ DownloadPolled(r) \/ EndRead(r)
      PROVE  UNCHANGED <<rows, req, exec, job>>
  BY <1>23 DEF PollSettled, DownloadPolled, EndRead
<1>24. ASSUME NEW r \in Readers, NEW q \in Queries,
             GetAsyncQueryResults(r, q) \/ StartPolling(r, q)
             \/ DownloadAsyncQueryResults(r, q)
      PROVE  UNCHANGED <<rows, req, exec, job>>
  BY <1>24 DEF GetAsyncQueryResults, StartPolling, DownloadAsyncQueryResults
<1> QED
  BY <1>1, <1>2, <1>3, <1>4, <1>5, <1>6, <1>7, <1>8, <1>9, <1>10, <1>11, <1>12,
     <1>13, <1>14, <1>15, <1>16, <1>17, <1>18, <1>19, <1>20, <1>21, <1>22,
     <1>23, <1>24 DEF Next, RequestStep, ExecutionStep, ReadStep, vars, Tick

\* ResultsTrue: names are copied from names that were true, or written by an
\* execution whose upload is complete, and true names stay true.
LEMMA ResultsTrueStep ==
  ASSUME IInv, [Next]_vars
  PROVE  ResultsTrue'
<1>1. ASSUME NEW q \in Queries, NEW f \in Queries, NEW e, TrueOf(q, f, e)
      PROVE  TrueOf(q, f, e)'
  BY <1>1, FilesStable DEF TrueOf
<1>2. \A q \in Queries : /\ rows[q].file \in Queries \cup {NoQuery}
                         /\ req[q].file \in Queries \cup {NoQuery}
  BY DEF IInv, TypeOK, Rows, Requests
<1>3. ASSUME NEW q \in Queries
      PROVE  TrueOf(q, rows[q].file, rows[q].expiresAt)
             /\ TrueOf(q, req[q].file, req[q].expiresAt)
  BY DEF IInv, ResultsTrue
<1>4. ASSUME NEW q \in Queries
      PROVE  TrueOf(q, rows'[q].file, rows'[q].expiresAt)
  BY <1>3, RowWrites DEF TrueOf
<1>5. ASSUME NEW q \in Queries
      PROVE  TrueOf(q, req'[q].file, req'[q].expiresAt)
  BY <1>3, RequestWrites DEF TrueOf
<1>6. ASSUME NEW q \in Queries
      PROVE  /\ rows'[q].file \in Queries \cup {NoQuery}
             /\ req'[q].file \in Queries \cup {NoQuery}
  BY NextType DEF IInv, TypeOK, Rows, Requests
<1>7. \A q \in Queries : TrueOf(q, rows[q].file, rows[q].expiresAt)'
  BY <1>4, <1>6, FilesStable DEF TrueOf
<1>8. \A q \in Queries : TrueOf(q, req[q].file, req[q].expiresAt)'
  BY <1>5, <1>6, FilesStable DEF TrueOf
<1>9. ASSUME NEW r \in Readers, reader'[r].file # NoQuery
      PROVE  store'[reader'[r].file] = "complete"
  <2>1. reader'[r].file \in Queries
    BY <1>9, NextType DEF IInv, TypeOK, Reads
  <2>2. store[reader'[r].file] = "complete"
    BY <1>3, <1>9, ReaderWrites DEF IInv, ResultsTrue, TrueOf
  <2> QED
    BY <2>1, <2>2, FilesStable
<1> QED
  BY <1>7, <1>8, <1>9 DEF ResultsTrue

\* HitsHaveSource: the row a hit was copied from keeps its results.
LEMMA HitsHaveSourceStep ==
  ASSUME IInv, [Next]_vars
  PROVE  HitsHaveSource'
<1> SUFFICES ASSUME NEW q \in Queries, req'[q].file # NoQuery
             PROVE  /\ \E p \in Queries : /\ rows'[p].file = req'[q].file
                                          /\ rows'[p].expiresAt = req'[q].expiresAt
                                          /\ KeyOf[p] = KeyOf[q]
                    /\ req'[q].expiresAt > req'[q].lookedUpAt + expiryBuffer
  BY DEF HitsHaveSource, expiryBuffer
<1>1. \A p \in Queries : rows[p].file # NoQuery =>
        rows'[p].file = rows[p].file /\ rows'[p].expiresAt = rows[p].expiresAt
  BY RowWrites
<1>2. PICK p \in Queries : /\ rows[p].file = req'[q].file
                           /\ rows[p].expiresAt = req'[q].expiresAt
                           /\ KeyOf[p] = KeyOf[q]
                           /\ req'[q].expiresAt > req'[q].lookedUpAt + expiryBuffer
  BY RequestWrites DEF IInv, HitsHaveSource
<1> QED
  BY <1>1, <1>2

THEOREM InitIInv == Init => IInv
<1> SUFFICES ASSUME Init PROVE IInv
  OBVIOUS
<1>1. TypeOK
  BY InitType
<1>2. OneExecution /\ UploadProgress /\ LatestRows /\ RowLife
  BY DEF Init, OneExecution, UploadProgress, LatestRows, RowLife, NoRow, NoTime
<1>3. ResultsTrue /\ HitsHaveSource /\ HitsExecuteNothing
  BY DEF Init, ResultsTrue, TrueOf, HitsHaveSource, HitsExecuteNothing, NoRow,
         IdleRead
<1> QED
  BY <1>1, <1>2, <1>3 DEF IInv

THEOREM NextIInv == IInv /\ [Next]_vars => IInv'
  BY NextType, OneExecutionStep, UploadProgressStep, ResultsTrueStep,
     LatestRowsStep, RowLifeStep, HitsHaveSourceStep, HitsExecuteNothingStep
     DEF IInv

THEOREM Invariance == Spec => []IInv
  BY InitIInv, NextIInv, PTL DEF Spec

-----------------------------------------------------------------------------
(* The properties the runs check on small instances, for every instance. *)

\* Types.
THEOREM TypeCorrect == Spec => []TypeOK
<1>1. IInv => TypeOK
  BY DEF IInv
<1> QED
  BY <1>1, Invariance, PTL

\* No row, cache hit or reader ever names a file that is not whole.
THEOREM NamedFilesComplete == Spec => []NamedFilesAreComplete
<1>1. IInv => NamedFilesAreComplete
  BY DEF IInv, ResultsTrue, TrueOf, NamedFilesAreComplete, NamedFiles
<1> QED
  BY <1>1, Invariance, PTL

\* Through any chain of cache hits a file keeps its first expiry and its key.
THEOREM FilesKeepTheirExpiry == Spec => []FilesExpireWithTheirData
<1>1. IInv => FilesExpireWithTheirData
  <2> SUFFICES ASSUME IInv, NEW q \in Queries, rows[q].file # NoQuery
               PROVE  /\ KeyOf[rows[q].file] = KeyOf[q]
                      /\ exec[rows[q].file].createdAt # NoTime
                      /\ rows[q].expiresAt = exec[rows[q].file].createdAt + StaleTime
    BY DEF FilesExpireWithTheirData
  <2>1. rows[q].file \in Queries
    BY DEF IInv, TypeOK, Rows
  <2>2. TrueOf(q, rows[q].file, rows[q].expiresAt)
    BY DEF IInv, ResultsTrue
  <2> QED
    BY <2>1, <2>2 DEF IInv, UploadProgress, TrueOf
<1> QED
  BY <1>1, Invariance, PTL

\* Results answered from the cache stay readable for the expiry buffer.
THEOREM HitsOutliveBuffer == Spec => []CacheHitsOutliveBuffer
<1>1. IInv => CacheHitsOutliveBuffer
  <2> SUFFICES ASSUME IInv, NEW q \in Queries,
                      req[q].file # NoQuery,
                      rows[q].status = "ready",
                      now <= req[q].lookedUpAt + expiryBuffer
               PROVE  rows[q].expiresAt >= now
    BY DEF CacheHitsOutliveBuffer
  <2>1. /\ rows[q].expiresAt = req[q].expiresAt
        /\ req[q].expiresAt > req[q].lookedUpAt + expiryBuffer
    BY DEF IInv, HitsExecuteNothing, HitsHaveSource
  <2>2. /\ now \in Int /\ expiryBuffer \in Int
        /\ req[q].lookedUpAt \in Int /\ req[q].expiresAt \in Int
    BY BufferType DEF IInv, TypeOK, Requests, Times, Expiries, NoTime
  <2> QED
    BY <2>1, <2>2
<1> QED
  BY <1>1, Invariance, PTL

\* One step makes a row READY from PENDING only.
LEMMA ReadyFromPending ==
  ASSUME IInv, [Next]_vars
  PROVE  \A p \in Queries :
           rows'[p].status = "ready" => rows[p].status \in {"pending", "ready"}
<1> DEFINE Goal == \A p \in Queries :
                    rows'[p].status = "ready" => rows[p].status \in {"pending", "ready"}
<1> SUFFICES Goal
  OBVIOUS
<1>1. ASSUME NEW q \in Queries, Create(q)
      PROVE  Goal
  BY <1>1 DEF IInv, TypeOK, Rows, Create, NoRow, PendingRow
<1>2. ASSUME NEW q \in Queries, MarkReadyFromCache(q)
      PROVE  Goal
  BY <1>2 DEF IInv, TypeOK, Rows, MarkReadyFromCache, ReadyRow
<1>3. ASSUME NEW q \in Queries, RejectMissingParameters(q)
      PROVE  Goal
  BY <1>3 DEF IInv, TypeOK, Rows, RejectMissingParameters, ErrorRow
<1>4. ASSUME NEW q \in Queries, CancelAsyncQuery(q)
      PROVE  Goal
  BY <1>4 DEF IInv, TypeOK, Rows, CancelAsyncQuery, CancelledRow, Known
<1>5. ASSUME NEW q \in Queries, MarkReady(q)
      PROVE  Goal
  BY <1>5 DEF IInv, TypeOK, Rows, MarkReady,
         Published, ReadyRow, Settled, getCacheExpiresAt
<1>6. ASSUME NEW q \in Queries, MarkError(q)
      PROVE  Goal
  BY <1>6 DEF IInv, TypeOK, Rows, MarkError,
         ErrorRow, Settled, CloseOpenStream
<1>7. ASSUME NEW q \in Queries, MarkReadyAnswerLost(q)
      PROVE  Goal
  BY <1>7 DEF IInv, TypeOK, Rows, MarkReadyAnswerLost,
         Published, ReadyRow, getCacheExpiresAt
<1>8. ASSUME NEW r \in Readers, ReturnPage(r)
      PROVE  Goal
  BY <1>8 DEF IInv, TypeOK, Rows, ReturnPage, IdleRead
<1>9. CASE UNCHANGED <<rows>>
  BY <1>9 DEF IInv, TypeOK, Rows
<1>10. ASSUME NEW q \in Queries,
             FindResultsCache(q) \/ RunInMainLoop(q) \/ ScheduleTask(q)
             \/ LogScheduledTask(q) \/ RequestThrows(q) \/ PickJob(q)
             \/ JobTimeout(q) \/ OpenUploadStream(q)
             \/ RunQueryAndTransformRows(q) \/ CloseStream(q)
             \/ ExecutionThrows(q) \/ MarkErrorThrows(q)
      PROVE  UNCHANGED <<rows>>
  BY <1>10 DEF FindResultsCache, RunInMainLoop, ScheduleTask, LogScheduledTask,
         RequestThrows, PickJob, JobTimeout, OpenUploadStream,
         RunQueryAndTransformRows, CloseStream, ExecutionThrows,
         MarkErrorThrows
<1>11. ASSUME NEW r \in Readers,
             PollSettled(r) \/ DownloadPolled(r) \/ EndRead(r)
      PROVE  UNCHANGED <<rows>>
  BY <1>11 DEF PollSettled, DownloadPolled, EndRead
<1>12. ASSUME NEW r \in Readers, NEW q \in Queries,
             GetAsyncQueryResults(r, q) \/ StartPolling(r, q)
             \/ DownloadAsyncQueryResults(r, q)
      PROVE  UNCHANGED <<rows>>
  BY <1>12 DEF GetAsyncQueryResults, StartPolling, DownloadAsyncQueryResults
<1> QED
  BY <1>1, <1>2, <1>3, <1>4, <1>5, <1>6, <1>7, <1>8, <1>9, <1>10, <1>11, <1>12
     DEF Next, RequestStep, ExecutionStep, ReadStep, vars, Tick, Crash

\* A cancelled or failed query never becomes READY.
THEOREM ReadyOnlyFromPending == Spec => OnlyPendingBecomesReady
<1>1. IInv /\ [Next]_vars =>
        [\A q \in Queries :
           rows'[q].status = "ready" => rows[q].status \in {"pending", "ready"}]_vars
  BY ReadyFromPending
<1> QED
  BY <1>1, Invariance, PTL DEF Spec, OnlyPendingBecomesReady

\* The results a client pages through are never replaced.
THEOREM ResultsNeverReplaced == Spec => ResultsWrittenOnce
<1>1. IInv /\ [Next]_vars =>
        [\A q \in Queries :
           rows[q].file # NoQuery =>
             /\ rows'[q].file = rows[q].file
             /\ rows'[q].expiresAt = rows[q].expiresAt]_vars
  BY RowWrites
<1> QED
  BY <1>1, Invariance, PTL DEF Spec, ResultsWrittenOnce

\* One step starts no execution where one has been.
LEMMA NoSecondExecution ==
  ASSUME IInv, [Next]_vars
  PROVE  \A p \in Queries :
           exec[p].phase \notin {"idle", "connect"} => exec'[p].phase # "connect"
<1> DEFINE Goal == \A p \in Queries :
                    exec[p].phase \notin {"idle", "connect"} => exec'[p].phase # "connect"
<1> SUFFICES Goal
  OBVIOUS
<1>1. ASSUME NEW q \in Queries, RunInMainLoop(q)
      PROVE  Goal
  BY <1>1 DEF IInv, TypeOK, OneExecution, Executions, Jobs, RunInMainLoop
<1>2. ASSUME NEW q \in Queries, PickJob(q)
      PROVE  Goal
  BY <1>2 DEF IInv, TypeOK, OneExecution, Executions, Jobs, PickJob,
         MaxAttempts
<1>3. ASSUME NEW q \in Queries, OpenUploadStream(q)
      PROVE  Goal
  BY <1>3 DEF IInv, TypeOK, OneExecution, Executions, Jobs, OpenUploadStream
<1>4. ASSUME NEW q \in Queries, RunQueryAndTransformRows(q)
      PROVE  Goal
  BY <1>4 DEF IInv, TypeOK, OneExecution, Executions, Jobs,
         RunQueryAndTransformRows
<1>5. ASSUME NEW q \in Queries, CloseStream(q)
      PROVE  Goal
  BY <1>5 DEF IInv, TypeOK, OneExecution, Executions, Jobs, CloseStream
<1>6. ASSUME NEW q \in Queries, MarkReady(q)
      PROVE  Goal
  BY <1>6 DEF IInv, TypeOK, OneExecution, Executions, Jobs, MarkReady,
         Published, ReadyRow, Settled, getCacheExpiresAt
<1>7. ASSUME NEW q \in Queries, ExecutionThrows(q)
      PROVE  Goal
  BY <1>7 DEF IInv, TypeOK, OneExecution, Executions, Jobs, ExecutionThrows
<1>8. ASSUME NEW q \in Queries, MarkError(q)
      PROVE  Goal
  BY <1>8 DEF IInv, TypeOK, OneExecution, Executions, Jobs, MarkError,
         ErrorRow, Settled, CloseOpenStream
<1>9. ASSUME NEW q \in Queries, MarkReadyAnswerLost(q)
      PROVE  Goal
  BY <1>9 DEF IInv, TypeOK, OneExecution, Executions, Jobs,
         MarkReadyAnswerLost, Published, ReadyRow, getCacheExpiresAt
<1>10. ASSUME NEW q \in Queries, MarkErrorThrows(q)
      PROVE  Goal
  BY <1>10 DEF IInv, TypeOK, OneExecution, Executions, Jobs, MarkErrorThrows,
         Settled, CloseOpenStream
<1>11. ASSUME NEW host \in {"main", "worker"}, Crash(host)
      PROVE  Goal
  BY <1>11 DEF IInv, TypeOK, OneExecution, Executions, Jobs, Crash,
         Running, IdleRead
<1>12. CASE UNCHANGED <<exec>>
  BY <1>12 DEF IInv, TypeOK, OneExecution, Executions, Jobs
<1>13. ASSUME NEW q \in Queries,
             FindResultsCache(q) \/ Create(q) \/ MarkReadyFromCache(q)
             \/ RejectMissingParameters(q) \/ ScheduleTask(q)
             \/ LogScheduledTask(q) \/ RequestThrows(q)
             \/ CancelAsyncQuery(q) \/ JobTimeout(q)
      PROVE  UNCHANGED <<exec>>
  BY <1>13 DEF FindResultsCache, Create, MarkReadyFromCache,
         RejectMissingParameters, ScheduleTask, LogScheduledTask,
         RequestThrows, CancelAsyncQuery, JobTimeout
<1>14. ASSUME NEW r \in Readers,
             ReturnPage(r) \/ PollSettled(r) \/ DownloadPolled(r)
             \/ EndRead(r)
      PROVE  UNCHANGED <<exec>>
  BY <1>14 DEF ReturnPage, PollSettled, DownloadPolled, EndRead
<1>15. ASSUME NEW r \in Readers, NEW q \in Queries,
             GetAsyncQueryResults(r, q) \/ StartPolling(r, q)
             \/ DownloadAsyncQueryResults(r, q)
      PROVE  UNCHANGED <<exec>>
  BY <1>15 DEF GetAsyncQueryResults, StartPolling, DownloadAsyncQueryResults
<1> QED
  BY <1>1, <1>2, <1>3, <1>4, <1>5, <1>6, <1>7, <1>8, <1>9, <1>10, <1>11, <1>12,
     <1>13, <1>14, <1>15 DEF Next, RequestStep, ExecutionStep, ReadStep, vars,
         Tick

\* The warehouse is asked at most once for each query.
THEOREM AskedOnce == Spec => WarehouseAskedOnce
<1>1. IInv /\ [Next]_vars =>
        [\A q \in Queries :
           exec[q].phase \notin {"idle", "connect"} => exec'[q].phase # "connect"]_vars
  BY NoSecondExecution
<1> QED
  BY <1>1, Invariance, PTL DEF Spec, WarehouseAskedOnce

-----------------------------------------------------------------------------
(* AsyncQuery implements QueryResults: every step is a step of it, or leaves *)
(* statuses, results, uploads and the clock alone.                           *)

\* The refinement mapping, named.
statusOf == [q \in Queries |-> rows[q].status]
resultOf == [q \in Queries |-> [file |-> rows[q].file,
                                expiresAt |-> rows[q].expiresAt]]
uploadedOf == {q \in Queries : store[q] = "complete"}

\* What an update of one row is in the abstract state.
LEMMA RowUpdate ==
  ASSUME TypeOK, NEW q \in Queries, NEW row,
         rows' = [rows EXCEPT ![q] = row]
  PROVE  /\ statusOf' = [statusOf EXCEPT ![q] = row.status]
         /\ resultOf' = [resultOf EXCEPT ![q] = [file |-> row.file,
                                                expiresAt |-> row.expiresAt]]
  BY DEF TypeOK, statusOf, resultOf

LEMMA StatusUpdate ==
  ASSUME TypeOK, NEW q \in Queries, NEW row,
         rows' = [rows EXCEPT ![q] = row],
         row.file = rows[q].file, row.expiresAt = rows[q].expiresAt
  PROVE  /\ statusOf' = [statusOf EXCEPT ![q] = row.status]
         /\ UNCHANGED resultOf
  BY DEF TypeOK, statusOf, resultOf

LEMMA AbstractInit == Init => Abstract!Init
  BY DEF Init, Abstract!Init, Abstract!NoResult, NoRow

LEMMA CreateSubmits ==
  ASSUME IInv, NEW q \in Queries, Create(q)
  PROVE  Abstract!Submit(q)
<1>1. /\ TypeOK
      /\ rows' = [rows EXCEPT ![q] = PendingRow]
      /\ rows[q].status = "absent"
      /\ rows[q].file = NoQuery /\ rows[q].expiresAt = NoTime
      /\ UNCHANGED <<store, now>>
  BY DEF IInv, RowLife, Create
<1>2. /\ PendingRow.status = "pending"
      /\ PendingRow.file = rows[q].file /\ PendingRow.expiresAt = rows[q].expiresAt
  BY <1>1 DEF PendingRow
<1> DEFINE row == PendingRow
<1>3. /\ TypeOK
      /\ rows' = [rows EXCEPT ![q] = row]
      /\ row.file = rows[q].file /\ row.expiresAt = rows[q].expiresAt
      /\ row.status = "pending"
  BY <1>1, <1>2
<1> HIDE DEF row
<1>4. statusOf' = [statusOf EXCEPT ![q] = row.status] /\ UNCHANGED resultOf
  BY <1>3, StatusUpdate
<1>5. statusOf' = [statusOf EXCEPT ![q] = "pending"] /\ UNCHANGED resultOf
  BY <1>3, <1>4
<1>6. statusOf[q] = "absent"
  BY <1>1 DEF statusOf
<1> QED
  BY <1>1, <1>5, <1>6 DEF Abstract!Submit, statusOf, resultOf

\* Failures and cancellations of an existing row.
LEMMA Stops ==
  ASSUME IInv, NEW q \in Queries, NEW s \in {"error", "cancelled"},
         rows[q].status # "absent",
         rows' = [rows EXCEPT ![q] = [rows[q] EXCEPT !.status = s]],
         UNCHANGED <<uploadedOf, now>>
  PROVE  Abstract!Stop(q)
<1> DEFINE row == [rows[q] EXCEPT !.status = s]
<1>1. /\ row.status = s
      /\ row.file = rows[q].file /\ row.expiresAt = rows[q].expiresAt
  BY DEF IInv, TypeOK, Rows
<1>2. rows' = [rows EXCEPT ![q] = row]
  OBVIOUS
<1> HIDE DEF row
<1>3. statusOf' = [statusOf EXCEPT ![q] = s] /\ UNCHANGED resultOf
  BY <1>1, <1>2, StatusUpdate DEF IInv
<1>4. statusOf[q] # "absent"
  BY DEF statusOf
<1> QED
  BY <1>3, <1>4 DEF Abstract!Stop, statusOf, resultOf, uploadedOf

\* A row that becomes READY.
LEMMA Readies ==
  ASSUME IInv, NEW q \in Queries, NEW f \in Queries \cup {NoQuery}, NEW e,
         rows[q].status = "pending",
         rows' = [rows EXCEPT ![q] = ReadyRow(rows[q], f, e)],
         UNCHANGED store
  PROVE  /\ statusOf[q] = "pending"
         /\ statusOf' = [statusOf EXCEPT ![q] = "ready"]
         /\ resultOf' = [resultOf EXCEPT ![q] = [file |-> f, expiresAt |-> e]]
         /\ UNCHANGED uploadedOf
<1> DEFINE row == ReadyRow(rows[q], f, e)
<1>1. row.status = "ready" /\ row.file = f /\ row.expiresAt = e
  BY DEF IInv, TypeOK, Rows, ReadyRow
<1>2. TypeOK /\ rows' = [rows EXCEPT ![q] = row]
  BY DEF IInv
<1> HIDE DEF row
<1>3. /\ statusOf' = [statusOf EXCEPT ![q] = row.status]
      /\ resultOf' = [resultOf EXCEPT ![q] = [file |-> row.file,
                                             expiresAt |-> row.expiresAt]]
  BY <1>2, RowUpdate
<1>4. statusOf[q] = "pending" /\ UNCHANGED uploadedOf
  BY DEF statusOf, uploadedOf
<1> QED
  BY <1>1, <1>3, <1>4

\* A row that is not pending is left alone by an UPDATE to READY.
LEMMA LateReadyIgnored ==
  ASSUME IInv, NEW q \in Queries, NEW f, NEW e,
         rows[q].status # "pending",
         rows' = [rows EXCEPT ![q] = ReadyRow(rows[q], f, e)],
         UNCHANGED <<store, now>>
  PROVE  UNCHANGED Abstract!vars
<1>1. UNCHANGED rows
  BY DEF IInv, TypeOK, ReadyRow
<1> QED
  BY <1>1 DEF Abstract!vars

\* An execution that publishes its row, answered or not.
LEMMA Publishes ==
  ASSUME IInv, NEW q \in Queries, exec[q].phase = "update",
         rows' = [rows EXCEPT ![q] = Published(q)],
         UNCHANGED <<store, now>>
  PROVE  Abstract!PublishOwn(q) \/ Abstract!PublishUnstored(q)
         \/ UNCHANGED Abstract!vars
<1>1. CASE rows[q].status # "pending"
  BY <1>1, LateReadyIgnored DEF Published
<1>2. CASE rows[q].status = "pending" /\ StorageEnabled
  <2> DEFINE t == exec[q].createdAt
             e == t + StaleTime
  <2>1. q \in uploadedOf /\ t \in 0 .. now
    BY <1>2 DEF IInv, UploadProgress, TypeOK, Executions, Times, NoTime, uploadedOf
  <2>2. rows' = [rows EXCEPT ![q] = ReadyRow(rows[q], q, e)]
    BY <1>2 DEF Published, getCacheExpiresAt
  <2> HIDE DEF t, e
  <2>3. /\ statusOf[q] = "pending"
        /\ statusOf' = [statusOf EXCEPT ![q] = "ready"]
        /\ resultOf' = [resultOf EXCEPT ![q] = [file |-> q, expiresAt |-> e]]
        /\ UNCHANGED uploadedOf
    BY <1>2, <2>2, Readies
  <2> QED
    BY <1>2, <2>1, <2>3 DEF Abstract!PublishOwn, Abstract!BecomeReady, e,
       statusOf, resultOf, uploadedOf
<1>3. CASE rows[q].status = "pending" /\ ~StorageEnabled
  <2>1. rows' = [rows EXCEPT ![q] = ReadyRow(rows[q], NoQuery, NoTime)]
    BY <1>3 DEF Published
  <2>2. /\ statusOf[q] = "pending"
        /\ statusOf' = [statusOf EXCEPT ![q] = "ready"]
        /\ resultOf' = [resultOf EXCEPT ![q] = [file |-> NoQuery,
                                               expiresAt |-> NoTime]]
        /\ UNCHANGED uploadedOf
    BY <1>3, <2>1, Readies
  <2> QED
    BY <1>3, <2>2 DEF Abstract!PublishUnstored, Abstract!BecomeReady,
       Abstract!NoResult, statusOf, resultOf, uploadedOf
<1> QED
  BY <1>1, <1>2, <1>3

\* A cache hit is an abstract reuse of the row it was copied from.
LEMMA HitReuses ==
  ASSUME IInv, NEW q \in Queries, MarkReadyFromCache(q), req[q].file # NoQuery
  PROVE  Abstract!Reuse(q) \/ UNCHANGED Abstract!vars
<1>1. /\ rows' = [rows EXCEPT ![q] = ReadyRow(rows[q], req[q].file, req[q].expiresAt)]
      /\ UNCHANGED <<store, now>>
  BY DEF MarkReadyFromCache
<1>2. CASE rows[q].status # "pending"
  BY <1>1, <1>2, LateReadyIgnored
<1>3. CASE rows[q].status = "pending"
  <2>1. PICK p \in Queries : /\ rows[p].file = req[q].file
                             /\ rows[p].expiresAt = req[q].expiresAt
                             /\ KeyOf[p] = KeyOf[q]
    BY DEF IInv, HitsHaveSource
  <2>2. req[q].file \in Queries \cup {NoQuery}
    BY DEF IInv, TypeOK, Requests
  <2>3. /\ statusOf[q] = "pending"
        /\ statusOf' = [statusOf EXCEPT ![q] = "ready"]
        /\ resultOf' = [resultOf EXCEPT ![q] = [file |-> req[q].file,
                                               expiresAt |-> req[q].expiresAt]]
        /\ UNCHANGED uploadedOf
    BY <1>1, <1>3, <2>2, Readies
  <2>4. /\ resultOf[p] = [file |-> req[q].file, expiresAt |-> req[q].expiresAt]
        /\ resultOf[p].file # NoQuery
    BY <2>1 DEF resultOf
  <2>5. resultOf' = [resultOf EXCEPT ![q] = resultOf[p]]
    BY <2>3, <2>4
  <2> QED
    BY <1>1, <2>1, <2>3, <2>4, <2>5 DEF Abstract!Reuse, Abstract!BecomeReady,
       statusOf, resultOf, uploadedOf
<1> QED
  BY <1>2, <1>3

\* What each action is in the abstract state.
LEMMA StepSimulation ==
  ASSUME IInv, [Next]_vars
  PROVE  [Abstract!Next]_(Abstract!vars)
<1> DEFINE Goal == [Abstract!Next]_(Abstract!vars)
<1> SUFFICES Goal
  OBVIOUS
<1>1. ASSUME NEW q \in Queries, Create(q)
      PROVE  Goal
  BY <1>1, CreateSubmits DEF Abstract!Next
<1>2. ASSUME NEW q \in Queries, MarkReadyFromCache(q)
      PROVE  Goal
  BY <1>2, HitReuses DEF IInv, RowLife, MarkReadyFromCache, Abstract!Next
<1>3. ASSUME NEW q \in Queries, RejectMissingParameters(q)
      PROVE  Goal
  <2>1. /\ rows' = [rows EXCEPT ![q] = [rows[q] EXCEPT !.status = "error"]]
        /\ UNCHANGED <<uploadedOf, now>>
    BY <1>3 DEF RejectMissingParameters, ErrorRow, uploadedOf
  <2>2. rows[q].status # "absent"
    BY <1>3 DEF IInv, RowLife, RejectMissingParameters
  <2> QED
    BY <2>1, <2>2, Stops DEF Abstract!Next
<1>4. ASSUME NEW q \in Queries, CancelAsyncQuery(q)
      PROVE  Goal
  <2>1. /\ rows' = [rows EXCEPT ![q] = [rows[q] EXCEPT !.status = "cancelled"]]
        /\ UNCHANGED <<uploadedOf, now>>
    BY <1>4 DEF CancelAsyncQuery, CancelledRow, uploadedOf
  <2>2. rows[q].status # "absent"
    BY <1>4 DEF IInv, RowLife, CancelAsyncQuery, Known
  <2> QED
    BY <2>1, <2>2, Stops DEF Abstract!Next
<1>5. ASSUME NEW q \in Queries, OpenUploadStream(q)
      PROVE  Goal
  BY <1>5 DEF IInv, TypeOK, UploadProgress, OpenUploadStream, Abstract!vars
<1>6. ASSUME NEW q \in Queries, CloseStream(q)
      PROVE  Goal
  BY <1>6 DEF IInv, TypeOK, UploadProgress, CloseStream, Abstract!Next,
         Abstract!Upload
<1>7. ASSUME NEW q \in Queries, MarkReady(q)
      PROVE  Goal
  BY <1>7, Publishes DEF MarkReady, Abstract!Next
<1>8. ASSUME NEW q \in Queries, MarkReadyAnswerLost(q)
      PROVE  Goal
  BY <1>8, Publishes DEF MarkReadyAnswerLost, Abstract!Next
<1>9. ASSUME NEW q \in Queries, ExecutionThrows(q)
      PROVE  Goal
  BY <1>9 DEF IInv, TypeOK, UploadProgress, ExecutionThrows, Abstract!vars
<1>10. ASSUME NEW q \in Queries, MarkError(q)
      PROVE  Goal
  <2>1. /\ rows' = [rows EXCEPT ![q] = [rows[q] EXCEPT !.status = "error"]]
        /\ UNCHANGED <<uploadedOf, now>>
    BY <1>10 DEF IInv, TypeOK, MarkError, ErrorRow, CloseOpenStream, uploadedOf
  <2>2. rows[q].status # "absent"
    BY <1>10 DEF IInv, RowLife, MarkError
  <2> QED
    BY <2>1, <2>2, Stops DEF Abstract!Next
<1>11. ASSUME NEW q \in Queries, MarkErrorThrows(q)
      PROVE  Goal
  BY <1>11 DEF IInv, TypeOK, MarkErrorThrows, CloseOpenStream, Abstract!vars
<1>12. ASSUME NEW r \in Readers, ReturnPage(r)
      PROVE  Goal
  BY <1>12 DEF IInv, TypeOK, Rows, ReturnPage, Abstract!vars
<1>13. ASSUME Tick
      PROVE  Goal
  BY <1>13 DEF Tick, Abstract!Next, Abstract!Tick
<1>14. ASSUME NEW q \in Queries,
             FindResultsCache(q) \/ RunInMainLoop(q) \/ ScheduleTask(q)
             \/ LogScheduledTask(q) \/ RequestThrows(q) \/ PickJob(q)
             \/ JobTimeout(q) \/ RunQueryAndTransformRows(q)
      PROVE  Goal
  BY <1>14 DEF FindResultsCache, RunInMainLoop, ScheduleTask, LogScheduledTask,
         RequestThrows, PickJob, JobTimeout, RunQueryAndTransformRows,
         Abstract!vars
<1>15. ASSUME NEW r \in Readers,
             PollSettled(r) \/ DownloadPolled(r) \/ EndRead(r)
      PROVE  Goal
  BY <1>15 DEF PollSettled, DownloadPolled, EndRead, Abstract!vars
<1>16. ASSUME NEW r \in Readers, NEW q \in Queries,
             GetAsyncQueryResults(r, q) \/ StartPolling(r, q)
             \/ DownloadAsyncQueryResults(r, q)
      PROVE  Goal
  BY <1>16 DEF GetAsyncQueryResults, StartPolling, DownloadAsyncQueryResults,
         Abstract!vars
<1>17. ASSUME NEW host \in {"main", "worker"}, Crash(host)
      PROVE  Goal
  BY <1>17 DEF Crash, Abstract!vars
<1>18. CASE UNCHANGED vars
  BY <1>18 DEF vars, Abstract!vars
<1> HIDE DEF Goal
<1> QED
  BY <1>1, <1>2, <1>3, <1>4, <1>5, <1>6, <1>7, <1>8, <1>9, <1>10, <1>11, <1>12,
     <1>13, <1>14, <1>15, <1>16, <1>17, <1>18 DEF Next, RequestStep,
         ExecutionStep, ReadStep

\* The asynchronous query service implements the abstract specification of
\* query results.
THEOREM Refinement == Spec => ImplementsQueryResults
<1>1. Init => Abstract!Init
  BY AbstractInit
<1>2. IInv /\ [Next]_vars => [Abstract!Next]_(Abstract!vars)
  BY StepSimulation
<1> QED
  BY <1>1, <1>2, Invariance, PTL DEF Spec, ImplementsQueryResults, Abstract!Spec
-----------------------------------------------------------------------------
(* Pending queries are owned.                                              *)

\* Who still has to do with a pending row: its execution, its job, or the request
\* that is about to answer it from the cache or to dispatch it.
Owner(q) ==
    Running(q) \/ job[q].state = "queued" \/ req[q].phase \in {"hit", "dispatch"}

Owned == faults = 0 => \A q \in Queries : rows[q].status = "pending" => Owner(q)

\* Faults are counted and never forgotten.
LEMMA FaultsStay ==
  ASSUME [Next]_vars, faults \in Nat, faults' = 0
  PROVE  faults = 0
<1> DEFINE Grown == UNCHANGED faults \/ faults' = faults + 1
<1> SUFFICES Grown
  OBVIOUS
<1>1. ASSUME NEW q \in Queries,
             RequestStep(q) \/ RequestThrows(q) \/ CancelAsyncQuery(q) \/ PickJob(q)
             \/ JobTimeout(q)
      PROVE  Grown
  BY <1>1 DEF RequestStep, FindResultsCache, Create, MarkReadyFromCache,
         RejectMissingParameters, RunInMainLoop, ScheduleTask, LogScheduledTask,
         RequestThrows, CancelAsyncQuery, PickJob, JobTimeout
<1>2. ASSUME NEW q \in Queries,
             ExecutionStep(q) \/ MarkReadyAnswerLost(q) \/ MarkErrorThrows(q)
      PROVE  Grown
  BY <1>2 DEF ExecutionStep, OpenUploadStream, RunQueryAndTransformRows, CloseStream,
         MarkReady, ExecutionThrows, MarkError, MarkReadyAnswerLost, MarkErrorThrows
<1>3. ASSUME NEW r \in Readers, ReadStep(r)
      PROVE  Grown
  BY <1>3 DEF ReadStep, ReturnPage, PollSettled, DownloadPolled, EndRead
<1>4. ASSUME NEW r \in Readers, NEW q \in Queries,
             GetAsyncQueryResults(r, q) \/ StartPolling(r, q)
             \/ DownloadAsyncQueryResults(r, q)
      PROVE  Grown
  BY <1>4 DEF GetAsyncQueryResults, StartPolling, DownloadAsyncQueryResults
<1>5. ASSUME NEW host \in {"main", "worker"}, Crash(host)
      PROVE  Grown
  BY <1>5 DEF Crash
<1>6. CASE Tick \/ UNCHANGED vars
  BY <1>6 DEF Tick, vars
<1> HIDE DEF Grown
<1> QED
  BY <1>1, <1>2, <1>3, <1>4, <1>5, <1>6 DEF Next

\* A step that keeps a row pending, or makes it so, leaves it an owner.
LEMMA OwnedStep ==
  ASSUME TypeOK, Owned, [Next]_vars
  PROVE  Owned'
<1> SUFFICES ASSUME faults' = 0, NEW q \in Queries, rows'[q].status = "pending"
             PROVE  Owner(q)'
  BY DEF Owned
<1>1. faults = 0
  BY FaultsStay DEF TypeOK
<1>2. rows[q].status = "pending" => Owner(q)
  BY <1>1 DEF Owned
<1> USE DEF TypeOK, Owner, Running
<1>3. ASSUME NEW p \in Queries, FindResultsCache(p)
      PROVE  Owner(q)'
  BY <1>2, <1>3 DEF FindResultsCache
<1>4. ASSUME NEW p \in Queries, Create(p)
      PROVE  Owner(q)'
  BY <1>2, <1>4 DEF Create, Requests
<1>5. ASSUME NEW p \in Queries, MarkReadyFromCache(p)
      PROVE  Owner(q)'
  BY <1>2, <1>5 DEF MarkReadyFromCache, ReadyRow, Rows, Requests
<1>6. ASSUME NEW p \in Queries, RejectMissingParameters(p)
      PROVE  Owner(q)'
  BY <1>2, <1>6 DEF RejectMissingParameters, ErrorRow, Rows, Requests
<1>7. ASSUME NEW p \in Queries, RunInMainLoop(p)
      PROVE  Owner(q)'
  BY <1>2, <1>7 DEF RunInMainLoop, Requests
<1>8. ASSUME NEW p \in Queries, ScheduleTask(p)
      PROVE  Owner(q)'
  BY <1>2, <1>8 DEF ScheduleTask, Requests, Jobs
<1>9. ASSUME NEW p \in Queries, LogScheduledTask(p)
      PROVE  Owner(q)'
  BY <1>2, <1>9 DEF LogScheduledTask, Requests
<1>10. ASSUME NEW p \in Queries, CancelAsyncQuery(p)
       PROVE  Owner(q)'
  BY <1>2, <1>10 DEF CancelAsyncQuery, CancelledRow, Rows
<1>11. ASSUME NEW p \in Queries, PickJob(p)
       PROVE  Owner(q)'
  BY <1>2, <1>11 DEF PickJob, Executions, Jobs
<1>12. ASSUME NEW p \in Queries, JobTimeout(p)
       PROVE  Owner(q)'
  BY <1>2, <1>12 DEF JobTimeout, Jobs
<1>13. ASSUME NEW p \in Queries,
              OpenUploadStream(p) \/ RunQueryAndTransformRows(p) \/ CloseStream(p)
              \/ ExecutionThrows(p)
       PROVE  Owner(q)'
  <2>1. /\ UNCHANGED <<rows, req, job>>
        /\ exec[p].phase \in {"connect", "query", "close", "update"}
        /\ exec'[p].phase \in {"query", "close", "update", "catch"}
        /\ p # q => exec'[q] = exec[q]
    <3>1. CASE OpenUploadStream(p)
      BY <3>1 DEF OpenUploadStream
    <3>2. CASE RunQueryAndTransformRows(p)
      BY <3>2 DEF RunQueryAndTransformRows, Executions
    <3>3. CASE CloseStream(p)
      BY <3>3 DEF CloseStream, Executions
    <3>4. CASE ExecutionThrows(p)
      BY <3>4 DEF ExecutionThrows, Executions
    <3> QED
      BY <1>13, <3>1, <3>2, <3>3, <3>4
  <2> QED
    BY <1>2, <2>1
<1>14. ASSUME NEW p \in Queries, MarkReady(p)
       PROVE  Owner(q)'
  BY <1>2, <1>14 DEF MarkReady, Settled, Published, ReadyRow, Executions, Jobs, Rows
<1>15. ASSUME NEW p \in Queries, MarkError(p)
       PROVE  Owner(q)'
  BY <1>2, <1>15 DEF MarkError, Settled, ErrorRow, Executions, Jobs, Rows
<1>16. ASSUME NEW p \in Queries,
              RequestThrows(p) \/ MarkReadyAnswerLost(p) \/ MarkErrorThrows(p)
       PROVE  Owner(q)'
  BY <1>1, <1>16 DEF RequestThrows, MarkReadyAnswerLost, MarkErrorThrows
<1>17. ASSUME NEW r \in Readers, ReturnPage(r)
       PROVE  Owner(q)'
  BY <1>2, <1>17 DEF ReturnPage, Rows
<1>18. ASSUME NEW r \in Readers, PollSettled(r) \/ DownloadPolled(r) \/ EndRead(r)
       PROVE  Owner(q)'
  BY <1>2, <1>18 DEF PollSettled, DownloadPolled, EndRead
<1>19. ASSUME NEW r \in Readers, NEW p \in Queries,
              GetAsyncQueryResults(r, p) \/ StartPolling(r, p)
              \/ DownloadAsyncQueryResults(r, p)
       PROVE  Owner(q)'
  BY <1>2, <1>19 DEF GetAsyncQueryResults, StartPolling, DownloadAsyncQueryResults
<1>20. ASSUME NEW host \in {"main", "worker"}, Crash(host)
       PROVE  Owner(q)'
  BY <1>1, <1>20 DEF Crash
<1>21. CASE Tick
  BY <1>2, <1>21 DEF Tick
<1>22. CASE UNCHANGED vars
  BY <1>2, <1>22 DEF vars
<1> HIDE DEF Owner
<1> QED
  BY <1>3, <1>4, <1>5, <1>6, <1>7, <1>8, <1>9, <1>10, <1>11, <1>12, <1>13, <1>14,
     <1>15, <1>16, <1>17, <1>18, <1>19, <1>20, <1>21, <1>22
     DEF Next, RequestStep, ExecutionStep, ReadStep

\* Where nothing failed, every pending query that was returned to its caller has
\* an execution or a job that will settle it, timeouts of jobs included.
THEOREM PendingHasOwner == Spec => []PendingIsOwned
<1>1. Init => Owned
  BY DEF Init, Owned, NoRow
<1>2. TypeOK /\ Owned /\ [Next]_vars => Owned'
  BY OwnedStep
<1>3. Owned => PendingIsOwned
  BY DEF Owned, Owner, PendingIsOwned, Known
<1> QED
  BY <1>1, <1>2, <1>3, TypeCorrect, PTL DEF Spec
=============================================================================
