---------------------------- MODULE QueryResults ----------------------------
(***************************************************************************)
(* What the asynchronous query API promises about results, without         *)
(* requests, queues, executors or the cache's bookkeeping: a pending query *)
(* is given its results once, whole, in the step that makes it ready; they *)
(* are its own upload or those of another query with the same cache key,   *)
(* expiry included; afterwards only the status may change.                 *)
(***************************************************************************)
EXTENDS Integers

CONSTANTS Queries, Keys, KeyOf, StorageEnabled, StaleTime, NoQuery, NoTime

VARIABLES
    status,    \* of each query
    result,    \* the file each query serves and when it expires
    uploaded,  \* the queries whose own file is complete
    now

vars == <<status, result, uploaded, now>>

NoResult == [file |-> NoQuery, expiresAt |-> NoTime]

Init ==
    /\ status = [q \in Queries |-> "absent"]
    /\ result = [q \in Queries |-> NoResult]
    /\ uploaded = {}
    /\ now = 0

Submit(q) ==
    /\ status[q] = "absent"
    /\ status' = [status EXCEPT ![q] = "pending"]
    /\ UNCHANGED <<result, uploaded, now>>

\* An upload may end after its query was cancelled.
Upload(q) ==
    /\ q \notin uploaded
    /\ uploaded' = uploaded \cup {q}
    /\ UNCHANGED <<status, result, now>>

BecomeReady(q, r) ==
    /\ status[q] = "pending"
    /\ status' = [status EXCEPT ![q] = "ready"]
    /\ result' = [result EXCEPT ![q] = r]
    /\ UNCHANGED <<uploaded, now>>

PublishOwn(q) ==
    /\ StorageEnabled
    /\ q \in uploaded
    /\ \E t \in 0 .. now :
         BecomeReady(q, [file |-> q, expiresAt |-> t + StaleTime])

PublishUnstored(q) ==
    /\ ~StorageEnabled
    /\ BecomeReady(q, NoResult)

Reuse(q) ==
    \E p \in Queries :
      /\ result[p].file # NoQuery
      /\ KeyOf[p] = KeyOf[q]
      /\ BecomeReady(q, result[p])

\* Failure and cancellation may come at any time, also after READY.
Stop(q) ==
    /\ status[q] # "absent"
    /\ \E s \in {"error", "cancelled"} : status' = [status EXCEPT ![q] = s]
    /\ UNCHANGED <<result, uploaded, now>>

Tick ==
    /\ now' = now + 1
    /\ UNCHANGED <<status, result, uploaded>>

Next ==
    \/ \E q \in Queries :
         \/ Submit(q) \/ Upload(q) \/ PublishOwn(q) \/ PublishUnstored(q)
         \/ Reuse(q) \/ Stop(q)
    \/ Tick

Spec == Init /\ [][Next]_vars
=============================================================================
