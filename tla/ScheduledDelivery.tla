------------------------- MODULE ScheduledDelivery -------------------------
(***************************************************************************)
(* Scheduled deliveries: users create, edit, enable, disable and delete    *)
(* schedulers; each of these, and a task that runs at midnight, fills the  *)
(* queue with one job per cron time left in the day; workers run the jobs  *)
(* and queue a notification for every target.  Nothing locks a scheduler   *)
(* or ties its row to its jobs: each operation deletes jobs, updates the   *)
(* row, reads it back and adds jobs, with awaits in between.               *)
(*                                                                         *)
(* Jobs are counted, not named: two jobs of one scheduler for one time     *)
(* differ in nothing but their id.                                         *)
(***************************************************************************)
EXTENDS Integers

CONSTANTS
    Schedulers,
    Crons,        \* cron expressions, with their time zone
    RunsAt,       \* the times each of them matches, up to the bound
    Alerts,       \* schedulers with a threshold
    OnceAlerts,   \* of these, the ones with notification frequency ONCE
    Images,       \* schedulers that send a dashboard as an image
    Targets,      \* where a delivery is sent: channels and recipients
    Requests,     \* API calls that may be in progress together
    Handlers,     \* deliveries that may be in progress together
    DayLength,
    MaxTime,      \* bound: the clock stops here
    MaxFaults,    \* bound: crashes and failed database writes
    NoScheduler,
    NoCron,
    Daily         \* the midnight task, among those that add jobs

ASSUME CronsAssumption ==
    RunsAt \in [Crons -> SUBSET (0 .. MaxTime)] /\ NoCron \notin Crons
ASSUME SchedulersAssumption == NoScheduler \notin Schedulers
ASSUME AlertsAssumption ==
    OnceAlerts \subseteq Alerts /\ Alerts \subseteq Schedulers
ASSUME DailyAssumption == Daily \notin Requests
ASSUME BoundsAssumption ==
    DayLength \in Nat \ {0} /\ MaxTime \in Nat /\ MaxFaults \in Nat

VARIABLES
    rows,     \* the scheduler table
    waiting,  \* handleScheduledDelivery jobs, by time and retries left
    notices,  \* notification jobs
    adding,   \* jobs on their way to the queue: who adds them, for what, when
    req,      \* API calls in progress
    gen,      \* the generateDailyJobs task
    handler,  \* deliveries in progress
    now,
    faults

vars == <<rows, waiting, notices, adding, req, gen, handler, now, faults>>

Times == 0 .. MaxTime
Day(t) == t \div DayLength

\* A scheduler, joined with the user who created it: an administrator may deactivate
\* that user, and activate him again.
Rows == [status: {"absent", "enabled", "disabled", "deleted"}, cron: Crons, active: BOOLEAN]

Calls == [phase: {"idle", "deleteJobs", "write", "read", "generate"},
          op: {"none", "create", "update", "enable", "disable", "delete"},
          scheduler: Schedulers \cup {NoScheduler},
          cron: Crons \cup {NoCron},
          enabled: BOOLEAN]

Generations == [phase: {"idle", "schedule"},
                day: -1 .. Day(MaxTime),
                attempt: 0 .. 3,
                todo: SUBSET Schedulers,
                cron: [Schedulers -> Crons \cup {NoCron}],
                skipped: SUBSET Schedulers,   \* enabled, but not in the list
                failed: BOOLEAN]

Deliveries == [phase: {"idle", "read", "check", "deleteJobs", "disable", "page",
                       "targets"},
               scheduler: Schedulers \cup {NoScheduler},
               at: Times,
               retries: 0 .. 1,
               fired: BOOLEAN,
               todo: SUBSET Targets]

TypeOK ==
    /\ rows \in [Schedulers -> Rows]
    /\ waiting \in [Schedulers -> [Times \X (0 .. 1) -> Nat]]
    /\ notices \in [Schedulers -> [Targets -> Nat]]
    /\ adding \subseteq (Requests \cup {Daily}) \X Schedulers \X Times
    /\ req \in [Requests -> Calls]
    /\ \A p \in Requests : req[p].phase # "idle" => req[p].scheduler # NoScheduler
    /\ gen \in Generations
    /\ handler \in [Handlers -> Deliveries]
    /\ \A h \in Handlers :
         handler[h].phase # "idle" => handler[h].scheduler # NoScheduler
    /\ now \in Times
    /\ faults \in 0 .. MaxFaults

NoJobs == [j \in Times \X (0 .. 1) |-> 0]
NoNotices == [t \in Targets |-> 0]

IdleCall == [phase |-> "idle", op |-> "none", scheduler |-> NoScheduler,
             cron |-> NoCron, enabled |-> FALSE]

IdleDelivery == [phase |-> "idle", scheduler |-> NoScheduler, at |-> 0,
                 retries |-> 0, fired |-> FALSE, todo |-> {}]

\* Midnight of the first day, before its jobs have been generated.
Init ==
    /\ rows \in [Schedulers -> [status: {"absent", "enabled"}, cron: Crons, active: {TRUE}]]
    /\ waiting = [s \in Schedulers |-> NoJobs]
    /\ notices = [s \in Schedulers |-> NoNotices]
    /\ adding = {}
    /\ req = [p \in Requests |-> IdleCall]
    /\ gen = [phase |-> "idle", day |-> -1, attempt |-> 0, todo |-> {},
              cron |-> [s \in Schedulers |-> NoCron], skipped |-> {}, failed |-> FALSE]
    /\ handler = [h \in Handlers |-> IdleDelivery]
    /\ now = 0
    /\ faults = 0

-----------------------------------------------------------------------------
(* The queue, as the scheduler client uses it. *)

\* The cron's times from the minute of when to the end of that day.
getDailyDatesFromCron(cron, when) ==
    {t \in RunsAt[cron] : t >= when /\ Day(t) = Day(when)}

\* A dashboard image may be tried twice, anything else once.
Retries(s) == IF s \in Images THEN 1 ELSE 0

\* deleteScheduledJobs: every unlocked job whose payload names the scheduler,
\* notifications of deliveries under way included.  The code selects their ids
\* and then completes them; a job added or taken in between is one that was
\* added after, or taken before, a single step.
DropJobs(s) ==
    /\ waiting' = [waiting EXCEPT ![s] = NoJobs]
    /\ notices' = [notices EXCEPT ![s] = NoNotices]

\* One of the inserts that generateDailyJobsForScheduler runs together.
AddScheduledDeliveryJob(a) ==
    /\ a \in adding
    /\ adding' = adding \ {a}
    /\ waiting' = [waiting EXCEPT ![a[2]][<<a[3], Retries(a[2])>>] = @ + 1]
    /\ UNCHANGED <<rows, notices, req, gen, handler, now, faults>>

-----------------------------------------------------------------------------
(* SchedulerService, and the creation of a scheduler. *)

InProgress(p) == req[p].phase # "idle" \/ \E a \in adding : a[1] = p

Exists(s) == rows[s].status \in {"enabled", "disabled"}

\* A chart or a dashboard gets a scheduler; it starts out enabled.
CreateScheduler(p, s, cron) ==
    /\ ~InProgress(p)
    /\ rows[s].status = "absent"
    /\ rows' = [rows EXCEPT ![s] = [status |-> "enabled", cron |-> cron,
                                       active |-> TRUE]]
    /\ req' = [req EXCEPT ![p] = [IdleCall EXCEPT !.phase = "read", !.op = "create",
                                                  !.scheduler = s]]
    /\ UNCHANGED <<waiting, notices, adding, gen, handler, now, faults>>

\* The row is read to authorise the caller; nothing of it is kept.
StartCall(p, op, s, cron) ==
    /\ ~InProgress(p)
    /\ Exists(s)
    /\ req' = [req EXCEPT ![p] = [IdleCall EXCEPT !.phase = "deleteJobs", !.op = op,
                                                  !.scheduler = s, !.cron = cron]]
    /\ UNCHANGED <<rows, waiting, notices, adding, gen, handler, now, faults>>

DeleteScheduledJobs(p) ==
    /\ req[p].phase = "deleteJobs"
    /\ DropJobs(req[p].scheduler)
    /\ req' = [req EXCEPT ![p].phase = "write"]
    /\ UNCHANGED <<rows, adding, gen, handler, now, faults>>

\* updateScheduler writes every column but enabled, setSchedulerEnabled writes
\* only that one; neither has a row to write once it has been deleted.
Written(row, op, cron) ==
    CASE row.status \notin {"enabled", "disabled"} -> row
      [] op = "update"  -> [row EXCEPT !.cron = cron]
      [] op = "enable"  -> [row EXCEPT !.status = "enabled"]
      [] op = "disable" -> [row EXCEPT !.status = "disabled"]
      [] op = "delete"  -> [row EXCEPT !.status = "deleted"]
      [] OTHER -> row

WriteRow(p) ==
    LET s == req[p].scheduler IN
    /\ req[p].phase = "write"
    /\ rows' = [rows EXCEPT ![s] = Written(@, req[p].op, req[p].cron)]
    /\ req' = [req EXCEPT ![p] = IF @.op = "delete" THEN IdleCall
                                 ELSE [@ EXCEPT !.phase = "read"]]
    /\ UNCHANGED <<waiting, notices, adding, gen, handler, now, faults>>

\* getSchedulerAndTargets: the row as it is now, which another call may have
\* written since.  Disabling ends here, and so does a call whose row is gone.
ReadRow(p) ==
    LET s == req[p].scheduler IN
    /\ req[p].phase = "read"
    /\ req' = [req EXCEPT ![p] =
                 IF Exists(s) /\ @.op # "disable"
                 THEN [@ EXCEPT !.phase = "generate", !.cron = rows[s].cron,
                                !.enabled = (rows[s].status = "enabled")]
                 ELSE IdleCall]
    /\ UNCHANGED <<rows, waiting, notices, adding, gen, handler, now, faults>>

\* generateDailyJobsForScheduler, with the row that was read.
GenerateDailyJobsForScheduler(p) ==
    LET dates == IF req[p].enabled THEN getDailyDatesFromCron(req[p].cron, now)
                 ELSE {}
    IN
    /\ req[p].phase = "generate"
    /\ adding' = adding \cup {<<p, req[p].scheduler, t>> : t \in dates}
    /\ req' = [req EXCEPT ![p] = IdleCall]
    /\ UNCHANGED <<rows, waiting, notices, gen, handler, now, faults>>

\* An administrator, or SCIM, deactivates the user who created a scheduler, or activates
\* him; neither touches his schedulers or their jobs.
SetOwnerActive(s, active) ==
    /\ Exists(s) /\ rows[s].active # active
    /\ rows' = [rows EXCEPT ![s].active = active]
    /\ UNCHANGED <<waiting, notices, adding, req, gen, handler, now, faults>>

\* A database or queue call throws: what has been done stays done.
CallThrows(p) ==
    /\ InProgress(p)
    /\ faults < MaxFaults
    /\ faults' = faults + 1
    /\ req' = [req EXCEPT ![p] = IdleCall]
    /\ adding' = {a \in adding : a[1] # p}
    /\ UNCHANGED <<rows, waiting, notices, gen, handler, now>>

-----------------------------------------------------------------------------
(* The midnight task: generateDailyJobs, up to three attempts. *)

\* The enabled schedulers of active users are read at once, each attempt anew.
StartGeneration(attempt) ==
    LET enabled == {s \in Schedulers : rows[s].status = "enabled"}
        all     == {s \in enabled : rows[s].active}
    IN  gen' = [phase |-> "schedule", day |-> Day(now), attempt |-> attempt,
                todo |-> all, cron |-> [s \in Schedulers |-> rows[s].cron],
                skipped |-> enabled \ all, failed |-> FALSE]

\* Midnight, or up to half a day later when no worker was running.
GenerateDailyJobs ==
    /\ gen.phase = "idle"
    /\ gen.day < Day(now)
    /\ StartGeneration(1)
    /\ UNCHANGED <<rows, waiting, notices, adding, req, handler, now, faults>>

\* One scheduler of the list, with the cron it had then; the project's time
\* zone is looked up first, and that fails once the row is gone.
GenerateFor(s) ==
    LET dates == getDailyDatesFromCron(gen.cron[s], gen.day * DayLength) IN
    /\ s \in gen.todo
    /\ gen' = [gen EXCEPT !.todo = @ \ {s}, !.failed = @ \/ ~Exists(s)]
    /\ adding' = IF Exists(s) THEN adding \cup {<<Daily, s, t>> : t \in dates}
                 ELSE adding
    /\ UNCHANGED <<rows, waiting, notices, req, handler, now, faults>>

\* One failure fails the task, and its next attempt does all of it again.  The
\* queue backs off before that, long enough for the inserts that Promise.all
\* no longer waits for.
EndGeneration ==
    /\ gen.phase = "schedule"
    /\ gen.todo = {}
    /\ \A a \in adding : a[1] # Daily
    /\ IF gen.failed /\ gen.attempt < 3
       THEN StartGeneration(gen.attempt + 1)
       ELSE gen' = [gen EXCEPT !.phase = "idle", !.attempt = 0, !.failed = FALSE,
                               !.cron = [s \in Schedulers |-> NoCron]]
    /\ UNCHANGED <<rows, waiting, notices, adding, req, handler, now, faults>>

AddingForGenerationFails ==
    /\ gen.phase = "schedule"
    /\ faults < MaxFaults
    /\ faults' = faults + 1
    /\ \E lost \in adding : lost[1] = Daily /\ adding' = adding \ {lost}
    /\ gen' = [gen EXCEPT !.failed = TRUE]
    /\ UNCHANGED <<rows, waiting, notices, req, handler, now>>

-----------------------------------------------------------------------------
(* handleScheduledDelivery. *)

\* Mutant: a worker starts what the cron says, whether the job is still there or not.
PickDeliveryByCron(h, s, t, retries) ==
    /\ handler[h].phase = "idle"
    /\ Exists(s) /\ t \in RunsAt[rows[s].cron]
    /\ t <= now
    /\ waiting' = [waiting EXCEPT ![s][<<t, retries>>] = @ - 1]
    /\ handler' = [handler EXCEPT ![h] =
                     [IdleDelivery EXCEPT !.phase = "read", !.scheduler = s,
                                          !.at = t, !.retries = retries]]
    /\ UNCHANGED <<rows, notices, adding, req, gen, now, faults>>

\* A worker takes a job whose time has come.
PickDelivery(h, s, t, retries) ==
    /\ handler[h].phase = "idle"
    /\ waiting[s][<<t, retries>>] > 0
    /\ t <= now
    /\ waiting' = [waiting EXCEPT ![s][<<t, retries>>] = @ - 1]
    /\ handler' = [handler EXCEPT ![h] =
                     [IdleDelivery EXCEPT !.phase = "read", !.scheduler = s,
                                          !.at = t, !.retries = retries]]
    /\ UNCHANGED <<rows, notices, adding, req, gen, now, faults>>

\* Mutant: a failed job keeps its attempts.
FailAgain(h) ==
    LET d == handler[h] IN
    /\ waiting' = [waiting EXCEPT ![d.scheduler][<<d.at, d.retries>>] = @ + 1]
    /\ handler' = [handler EXCEPT ![h] = IdleDelivery]

\* The task throws: the job is queued again if it has an attempt left.
Fail(h) ==
    LET d == handler[h] IN
    /\ waiting' = IF d.retries = 0 THEN waiting
                  ELSE [waiting EXCEPT ![d.scheduler][<<d.at, d.retries - 1>>] = @ + 1]
    /\ handler' = [handler EXCEPT ![h] = IdleDelivery]

Proceed(h, phase) == handler' = [handler EXCEPT ![h].phase = phase]

End(h) == handler' = [handler EXCEPT ![h] = IdleDelivery]

\* A disabled or deleted scheduler throws.
ReadScheduler(h) ==
    /\ handler[h].phase = "read"
    /\ \/ /\ rows[handler[h].scheduler].status = "enabled"
          /\ Proceed(h, "check")
          /\ UNCHANGED waiting
       \/ /\ rows[handler[h].scheduler].status # "enabled"
          /\ Fail(h)
    /\ UNCHANGED <<rows, notices, adding, req, gen, now, faults>>

\* Results for the threshold are fetched and compared.  A ONCE alert that fires
\* disables its scheduler before anything is sent; so does an error that no
\* retry can mend.  Too few results end the delivery without an error.
CheckThreshold(h) ==
    /\ handler[h].phase = "check"
    /\ \/ /\ handler[h].scheduler \in Alerts
          /\ handler' = [handler EXCEPT ![h].fired = TRUE,
                           ![h].phase = IF handler[h].scheduler \in OnceAlerts
                                        THEN "deleteJobs" ELSE "page"]
          /\ UNCHANGED waiting
       \/ /\ handler[h].scheduler \in Alerts
          /\ End(h) \/ Proceed(h, "deleteJobs")
          /\ UNCHANGED waiting
       \/ handler[h].scheduler \in Alerts /\ Fail(h)
       \/ /\ handler[h].scheduler \notin Alerts
          /\ Proceed(h, "page")
          /\ UNCHANGED waiting
    /\ UNCHANGED <<rows, notices, adding, req, gen, now, faults>>

\* setSchedulerEnabled(false), called by the delivery itself in the name of the
\* scheduler's owner, who may not be allowed to any more.
HandlerDeletesJobs(h) ==
    /\ handler[h].phase = "deleteJobs"
    /\ \/ /\ Exists(handler[h].scheduler)
          /\ DropJobs(handler[h].scheduler)
          /\ Proceed(h, "disable")
       \/ Fail(h) /\ UNCHANGED notices
    /\ UNCHANGED <<rows, adding, req, gen, now, faults>>

\* Mutant: the jobs are gone but the row stays enabled.
HandlerDisablesNothing(h) ==
    /\ handler[h].phase = "disable"
    /\ IF handler[h].fired THEN Proceed(h, "page") ELSE End(h)
    /\ UNCHANGED <<rows, waiting, notices, adding, req, gen, now, faults>>

HandlerDisables(h) ==
    LET s == handler[h].scheduler IN
    /\ handler[h].phase = "disable"
    /\ rows' = [rows EXCEPT ![s] = Written(@, "disable", NoCron)]
    /\ IF ~Exists(s) THEN Fail(h)
       ELSE /\ IF handler[h].fired THEN Proceed(h, "page") ELSE End(h)
            /\ UNCHANGED waiting
    /\ UNCHANGED <<notices, adding, req, gen, now, faults>>

\* The image or the file that the notifications carry.
GetNotificationPageData(h) ==
    /\ handler[h].phase = "page"
    /\ \/ /\ handler' = [handler EXCEPT ![h].phase = "targets", ![h].todo = Targets]
          /\ UNCHANGED waiting
       \/ /\ handler' = [handler EXCEPT ![h].phase = "deleteJobs", ![h].fired = FALSE]
          /\ UNCHANGED waiting
       \/ Fail(h)
    /\ UNCHANGED <<rows, notices, adding, req, gen, now, faults>>

QueueNotification(h, target) ==
    /\ handler[h].phase = "targets"
    /\ target \in handler[h].todo
    /\ notices' = [notices EXCEPT ![handler[h].scheduler][target] = @ + 1]
    /\ handler' = [handler EXCEPT ![h].todo = @ \ {target}]
    /\ UNCHANGED <<rows, waiting, adding, req, gen, now, faults>>

EndDelivery(h) ==
    /\ handler[h].phase = "targets"
    /\ handler[h].todo = {}
    /\ End(h)
    /\ UNCHANGED <<rows, waiting, notices, adding, req, gen, now, faults>>

\* Queuing or logging a notification throws; the ones queued stay queued.
QueueingThrows(h) ==
    /\ handler[h].phase = "targets"
    /\ faults < MaxFaults
    /\ faults' = faults + 1
    /\ Fail(h)
    /\ UNCHANGED <<rows, notices, adding, req, gen, now>>

\* The job counts as completed while its delivery goes on.
DeliveryTimesOut(h) ==
    /\ handler[h].phase # "idle"
    /\ handler' = [handler EXCEPT ![h].retries = 0]
    /\ UNCHANGED <<rows, waiting, notices, adding, req, gen, now, faults>>

\* sendSlackNotification and its siblings, sent or not: there is one attempt.
SendNotification(s, target) ==
    /\ notices[s][target] > 0
    /\ notices' = [notices EXCEPT ![s][target] = @ - 1]
    /\ UNCHANGED <<rows, waiting, adding, req, gen, handler, now, faults>>

-----------------------------------------------------------------------------
Tick ==
    /\ now < MaxTime
    /\ now' = now + 1
    /\ UNCHANGED <<rows, waiting, notices, adding, req, gen, handler, faults>>

\* The worker dies.  Its jobs are released hours later, to those that have an
\* attempt left; so is the midnight task.
CrashWorker ==
    /\ faults < MaxFaults
    /\ faults' = faults + 1
    /\ handler' = [h \in Handlers |-> IdleDelivery]
    /\ waiting' = [s \in Schedulers |-> [j \in Times \X (0 .. 1) |->
                     IF \E h \in Handlers : /\ handler[h].scheduler = s
                                            /\ handler[h].retries = 1
                                            /\ j = <<handler[h].at, 0>>
                     THEN waiting[s][j] + 1 ELSE waiting[s][j]]]
    /\ adding' = {a \in adding : a[1] # Daily}
    /\ gen' = [gen EXCEPT !.todo = {}, !.failed = (gen.phase = "schedule")]
    /\ UNCHANGED <<rows, notices, req, now>>

-----------------------------------------------------------------------------
CallStep(p) ==
    \/ DeleteScheduledJobs(p) \/ WriteRow(p) \/ ReadRow(p)
    \/ GenerateDailyJobsForScheduler(p)

GenerationStep ==
    \/ GenerateDailyJobs \/ EndGeneration \/ \E s \in Schedulers : GenerateFor(s)

DeliveryStep(h) ==
    \/ ReadScheduler(h) \/ CheckThreshold(h) \/ HandlerDeletesJobs(h)
    \/ HandlerDisables(h) \/ GetNotificationPageData(h) \/ EndDelivery(h)
    \/ \E target \in Targets : QueueNotification(h, target)

Next ==
    \/ \E a \in adding : AddScheduledDeliveryJob(a)
    \/ \E p \in Requests :
         \/ CallStep(p) \/ CallThrows(p)
         \/ \E s \in Schedulers, cron \in Crons :
              \/ CreateScheduler(p, s, cron) \/ StartCall(p, "update", s, cron)
         \/ \E s \in Schedulers, op \in {"enable", "disable", "delete"} :
              StartCall(p, op, s, NoCron)
    \/ \E s \in Schedulers, active \in BOOLEAN : SetOwnerActive(s, active)
    \/ GenerationStep \/ AddingForGenerationFails
    \/ \E h \in Handlers :
         \/ DeliveryStep(h) \/ QueueingThrows(h) \/ DeliveryTimesOut(h)
         \/ \E s \in Schedulers, t \in Times, retries \in 0 .. 1 :
              PickDelivery(h, s, t, retries)
    \/ \E s \in Schedulers, target \in Targets : SendNotification(s, target)
    \/ Tick \/ CrashWorker

Spec == Init /\ [][Next]_vars

\* Started calls, tasks and jobs go on, workers poll the queue, time passes;
\* users and faults owe nothing.
Fairness ==
    /\ WF_vars(\E a \in adding : AddScheduledDeliveryJob(a))
    /\ \A p \in Requests : WF_vars(CallStep(p))
    /\ WF_vars(GenerationStep)
    /\ \A h \in Handlers : WF_vars(DeliveryStep(h))
    /\ \A s \in Schedulers, t \in Times, retries \in 0 .. 1 :
         SF_vars(\E h \in Handlers : PickDelivery(h, s, t, retries))
    /\ \A s \in Schedulers, target \in Targets : WF_vars(SendNotification(s, target))
    /\ WF_vars(Tick)

FairSpec == Spec /\ Fairness

-----------------------------------------------------------------------------
(* Correctness. *)

\* Nothing is under way that deletes or adds jobs, and today's have been
\* generated.
Settled ==
    /\ faults = 0
    /\ adding = {}
    /\ \A p \in Requests : req[p].phase = "idle"
    /\ \A h \in Handlers : handler[h].phase \notin {"deleteJobs", "disable"}
    /\ gen.phase = "idle" /\ gen.day = Day(now)

\* However calls, alerts and the midnight task interleave, an enabled scheduler
\* is left with a job for every cron time that is still to come today: whoever
\* deletes jobs either disables the scheduler or adds its jobs again.  Only a
\* scheduler whose owner was inactive when the midnight task read its list may lack them.
EnabledSchedulersHaveJobs ==
    Settled =>
      \A s \in Schedulers \ gen.skipped : rows[s].status = "enabled" =>
        \A t \in RunsAt[rows[s].cron] :
          t > now /\ Day(t) = Day(now) => waiting[s][<<t, Retries(s)>>] > 0

\* Once everything has settled, a disabled scheduler has no jobs
\* ("if schedulers are not enabled, we should remove the scheduled jobs from
\* the queue").
DisabledSchedulersHaveNoJobs ==
    Settled =>
      \A s \in Schedulers : rows[s].status = "disabled" => waiting[s] = NoJobs

\* Whatever calls, deliveries and crashes were under way when a scheduler was
\* deleted, its jobs and notifications run out and no more appear: a stale job
\* finds no row and is not tried for ever.
DeletedSchedulersDrain ==
    \A s \in Schedulers :
      rows[s].status = "deleted" ~>
        [](waiting[s] = NoJobs /\ notices[s] = NoNotices)

\* An alert that disabled its own scheduler goes on to send its notifications
\* ("disabling scheduler after delivery").
FiredAlertsAreSent ==
    [][\A h \in Handlers :
         handler[h].fired /\ handler[h].phase = "page" =>
           handler'[h].phase \in {"page", "targets"}]_vars
=============================================================================
