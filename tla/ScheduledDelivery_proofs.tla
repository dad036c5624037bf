--------------------- MODULE ScheduledDelivery_proofs ---------------------
(***************************************************************************)
(* Proofs about scheduled deliveries, for any schedulers, crons, calls and *)
(* deliveries, any length of the day and any number of days.               *)
(***************************************************************************)
EXTENDS ScheduledDelivery, TLAPS

-----------------------------------------------------------------------------
(* Days. *)

LEMMA Divided ==
  ASSUME NEW t \in Nat, NEW d \in Nat \ {0}
  PROVE  t \div d \in Nat /\ d * (t \div d) <= t /\ t < d * (t \div d) + d
<1> DEFINE k == t \div d
           r == t % d
<1>1. k \in Int /\ r \in 0 .. d - 1 /\ t = d * k + r
  BY SMT
<1> HIDE DEF k, r
<1>2. k >= 0
  BY <1>1, SMT
<1>3. d * k <= t /\ t < d * k + d
  BY <1>1, <1>2, SMT
<1> QED BY <1>1, <1>2, <1>3 DEF k

LEMMA DayOf ==
  ASSUME NEW t \in Nat
  PROVE  Day(t) \in Nat /\ DayLength * Day(t) <= t /\ t < DayLength * Day(t) + DayLength
BY Divided, BoundsAssumption DEF Day

LEMMA DaysGoOn ==
  ASSUME NEW t \in Nat, NEW u \in Nat, t <= u
  PROVE  Day(t) <= Day(u)
<1> DEFINE d == DayLength
<1>1. d \in Nat \ {0}
  BY BoundsAssumption
<1>2. Day(t) \in Nat /\ Day(u) \in Nat /\ d * Day(t) <= t /\ u < d * Day(u) + d
  BY DayOf
<1> DEFINE x == Day(t)
           y == Day(u)
<1> HIDE DEF d, x, y
<1>3. ASSUME x >= y + 1 PROVE FALSE
  <2>1. d * x >= d * (y + 1)
    BY <1>1, <1>2, <1>3, SMT DEF x, y
  <2>2. d * (y + 1) = d * y + d
    BY <1>1, <1>2, SMT DEF y
  <2>3. d * x <= t /\ u < d * y + d /\ d * x \in Int /\ d * y \in Int
    BY <1>1, <1>2, SMT DEF x, y
  <2> QED BY <1>1, <2>1, <2>2, <2>3, SMT
<1> QED BY <1>2, <1>3, SMT DEF x, y

\* A day begins at a multiple of its length.
LEMMA DayBegins ==
  ASSUME NEW k \in Nat
  PROVE  /\ k * DayLength \in Nat
         /\ Day(k * DayLength) = k
         /\ \A t \in Nat : Day(t) = k => t >= k * DayLength
<1> DEFINE d == DayLength
           t == k * d
<1>1. d \in Nat \ {0}
  BY BoundsAssumption
<1>2. t \in Nat /\ t = d * k
  BY <1>1, SMT
<1>3. Day(t) \in Nat /\ d * Day(t) <= t /\ t < d * Day(t) + d
  BY <1>2, DayOf
<1> DEFINE x == Day(t)
<1> HIDE DEF d, t, x
<1>4. x = k
  <2>1. x \in Nat
    BY <1>3 DEF x
  <2>2. ASSUME x >= k + 1 PROVE FALSE
    <3>1. d * x >= d * (k + 1)
      BY <1>1, <2>1, <2>2, SMT
    <3>2. d * (k + 1) = d * k + d
      BY <1>1, SMT
    <3> QED BY <1>1, <1>2, <1>3, <3>1, <3>2, SMT DEF x
  <2>3. ASSUME k >= x + 1 PROVE FALSE
    <3>1. d * k >= d * (x + 1)
      BY <1>1, <2>1, <2>3, SMT
    <3>2. d * (x + 1) = d * x + d
      BY <1>1, <2>1, SMT
    <3> QED BY <1>1, <1>2, <1>3, <3>1, <3>2, SMT DEF x
  <2> QED BY <2>1, <2>2, <2>3
<1>5. ASSUME NEW u \in Nat, Day(u) = k PROVE u >= t
  BY <1>2, <1>5, DayOf DEF d
<1> QED BY <1>2, <1>4, <1>5 DEF d, t, x

-----------------------------------------------------------------------------
(* Types. *)

LEMMA RunsInTimes ==
  ASSUME NEW cron \in Crons, NEW t \in RunsAt[cron]
  PROVE  t \in Times /\ t \in Nat
BY CronsAssumption, BoundsAssumption DEF Times

LEMMA RetriesType == ASSUME NEW s PROVE Retries(s) \in 0 .. 1
BY DEF Retries

CallOK(c) ==
    /\ c \in Calls
    /\ c.phase # "idle" => c.scheduler # NoScheduler
    /\ \/ c.phase = "generate"
       \/ c.op = "update" /\ c.phase \in {"deleteJobs", "write"}
       => c.cron \in Crons

GenOK ==
    /\ \A s \in gen.todo : gen.phase = "schedule" /\ gen.cron[s] \in Crons
    /\ gen.day <= Day(now)

\* What the types rest on: whoever writes a cron or generates jobs has one.
TInv == TypeOK /\ (\A p \in Requests : CallOK(req[p])) /\ GenOK

LEMMA IdleTypes ==
  /\ CallOK(IdleCall) /\ IdleCall.phase = "idle"
  /\ IdleDelivery \in Deliveries /\ IdleDelivery.phase = "idle"
<1>1. 0 \in Times
  BY BoundsAssumption DEF Times
<1> QED BY <1>1 DEF IdleCall, Calls, CallOK, IdleDelivery, Deliveries

LEMMA InitTypes == Init => TInv
<1> SUFFICES ASSUME Init PROVE TInv
  OBVIOUS
<1> USE DEF Init
<1>1. rows \in [Schedulers -> Rows]
  BY DEF Rows
<1>2. waiting \in [Schedulers -> [Times \X (0 .. 1) -> Nat]]
  BY DEF NoJobs
<1>3. notices \in [Schedulers -> [Targets -> Nat]]
  BY DEF NoNotices
<1>4. 0 \in Times /\ 0 \in 0 .. MaxFaults
  BY BoundsAssumption DEF Times
<1>5. Day(MaxTime) \in Nat /\ Day(0) \in Nat
  BY DayOf, BoundsAssumption
<1>6. gen \in Generations
  <2>1. -1 \in -1 .. Day(MaxTime)
    BY <1>5
  <2> QED BY <2>1 DEF Generations
<1>7. TypeOK
  BY <1>1, <1>2, <1>3, <1>4, <1>6, IdleTypes DEF TypeOK, CallOK
<1>8. GenOK
  BY <1>5 DEF GenOK
<1> QED BY <1>7, <1>8, IdleTypes DEF TInv

\* Calls.
LEMMA CallTypes ==
  ASSUME TInv, NEW p \in Requests,
         \/ CallStep(p) \/ CallThrows(p)
         \/ \E s \in Schedulers, cron \in Crons :
              CreateScheduler(p, s, cron) \/ StartCall(p, "update", s, cron)
         \/ \E s \in Schedulers, op \in {"enable", "disable", "delete"} :
              StartCall(p, op, s, NoCron)
  PROVE  TInv'
<1>1. TypeOK /\ GenOK /\ CallOK(req[p]) /\ \A x \in Requests : CallOK(req[x])
  BY DEF TInv
<1>2. req[p] \in Calls /\ (req[p].phase # "idle" => req[p].scheduler \in Schedulers)
  BY <1>1 DEF Calls, CallOK
\* A call changes to what a call may be, and leaves the other calls alone.
<1>3. ASSUME NEW c, CallOK(c), req' = [req EXCEPT ![p] = c], UNCHANGED <<gen, handler, now>>,
             rows' \in [Schedulers -> Rows],
             waiting' \in [Schedulers -> [Times \X (0 .. 1) -> Nat]],
             notices' \in [Schedulers -> [Targets -> Nat]],
             adding' \subseteq (Requests \cup {Daily}) \X Schedulers \X Times,
             faults' \in 0 .. MaxFaults
      PROVE  TInv'
  <2>1. req' \in [Requests -> Calls] /\ \A x \in Requests : CallOK(req'[x])
    BY <1>1, <1>3 DEF TypeOK, CallOK
  <2>2. \A x \in Requests : req'[x].phase # "idle" => req'[x].scheduler # NoScheduler
    BY <2>1 DEF CallOK
  <2>3. TypeOK'
    BY <1>1, <1>3, <2>1, <2>2 DEF TypeOK
  <2>4. GenOK'
    BY <1>1, <1>3 DEF GenOK
  <2>5. \A x \in Requests : CallOK(req[x])'
    BY <2>1 DEF CallOK
  <2> QED BY <2>3, <2>4, <2>5 DEF TInv
<1>4. ASSUME NEW s \in Schedulers, NEW cron \in Crons, CreateScheduler(p, s, cron)
      PROVE  TInv'
  <2> DEFINE c == [IdleCall EXCEPT !.phase = "read", !.op = "create", !.scheduler = s]
  <2>1. CallOK(c)
    BY SchedulersAssumption DEF IdleCall, Calls, CallOK
  <2>2. req' = [req EXCEPT ![p] = c]
    BY <1>4 DEF CreateScheduler
  <2> HIDE DEF c
  <2>3. rows' \in [Schedulers -> Rows]
    BY <1>1, <1>4 DEF CreateScheduler, Rows, TypeOK
  <2> QED BY <1>1, <1>3, <1>4, <2>1, <2>2, <2>3 DEF CreateScheduler, TypeOK
<1>5. ASSUME NEW s \in Schedulers, NEW cron \in Crons \cup {NoCron},
             NEW op \in {"update", "enable", "disable", "delete"},
             op = "update" => cron \in Crons, StartCall(p, op, s, cron)
      PROVE  TInv'
  <2> DEFINE c == [IdleCall EXCEPT !.phase = "deleteJobs", !.op = op,
                                   !.scheduler = s, !.cron = cron]
  <2>1. CallOK(c)
    BY <1>5, SchedulersAssumption DEF IdleCall, Calls, CallOK
  <2>2. req' = [req EXCEPT ![p] = c]
    BY <1>5 DEF StartCall
  <2> HIDE DEF c
  <2> QED BY <1>1, <1>3, <1>5, <2>1, <2>2 DEF StartCall, TypeOK
<1>6. CASE DeleteScheduledJobs(p)
  <2> DEFINE c == [req[p] EXCEPT !.phase = "write"]
  <2>1. CallOK(c)
    BY <1>1, <1>6, SchedulersAssumption DEF DeleteScheduledJobs, Calls, CallOK
  <2>2. req' = [req EXCEPT ![p] = c]
    BY <1>6 DEF DeleteScheduledJobs
  <2> HIDE DEF c
  <2>3. /\ waiting' \in [Schedulers -> [Times \X (0 .. 1) -> Nat]]
        /\ notices' \in [Schedulers -> [Targets -> Nat]]
    BY <1>1, <1>6 DEF DeleteScheduledJobs, DropJobs, NoJobs, NoNotices, TypeOK
  <2> QED BY <1>1, <1>3, <1>6, <2>1, <2>2, <2>3 DEF DeleteScheduledJobs, TypeOK
<1>7. CASE WriteRow(p)
  <2> DEFINE s == req[p].scheduler
             c == IF req[p].op = "delete" THEN IdleCall ELSE [req[p] EXCEPT !.phase = "read"]
  <2>1. CallOK(c)
    BY <1>1, <1>7, IdleTypes DEF WriteRow, Calls, CallOK
  <2>2. req' = [req EXCEPT ![p] = c]
    BY <1>7 DEF WriteRow
  <2> HIDE DEF c
  <2>3. Written(rows[s], req[p].op, req[p].cron) \in Rows
    <3>1. rows[s] \in Rows /\ (req[p].op = "update" => req[p].cron \in Crons)
      BY <1>1, <1>2, <1>7 DEF WriteRow, CallOK, TypeOK
    <3> QED BY <3>1 DEF Written, Rows
  <2>4. rows' \in [Schedulers -> Rows]
    BY <1>1, <1>7, <2>3 DEF WriteRow, TypeOK
  <2> QED BY <1>1, <1>3, <1>7, <2>1, <2>2, <2>4 DEF WriteRow, TypeOK
<1>8. CASE ReadRow(p)
  <2> DEFINE s == req[p].scheduler
             c == IF Exists(s) /\ req[p].op # "disable"
                  THEN [req[p] EXCEPT !.phase = "generate", !.cron = rows[s].cron,
                                      !.enabled = (rows[s].status = "enabled")]
                  ELSE IdleCall
  <2>1. s \in Schedulers /\ rows[s].cron \in Crons /\ s # NoScheduler
    BY <1>1, <1>2, <1>8, SchedulersAssumption DEF ReadRow, Rows, TypeOK
  <2>2. CallOK(c)
    BY <1>2, <2>1, IdleTypes DEF Calls, CallOK
  <2>3. req' = [req EXCEPT ![p] = c]
    BY <1>8 DEF ReadRow
  <2> HIDE DEF c
  <2> QED BY <1>1, <1>3, <1>8, <2>2, <2>3 DEF ReadRow, TypeOK
<1>9. CASE GenerateDailyJobsForScheduler(p)
  <2> DEFINE s == req[p].scheduler
             dates == IF req[p].enabled THEN getDailyDatesFromCron(req[p].cron, now) ELSE {}
             new == {<<p, s, t>> : t \in dates}
  <2>1. s \in Schedulers /\ req[p].cron \in Crons
    BY <1>1, <1>2, <1>9 DEF GenerateDailyJobsForScheduler, CallOK
  <2>2. dates \subseteq Times
    BY <2>1, RunsInTimes DEF getDailyDatesFromCron
  <2>3. adding' = adding \cup new
    BY <1>9 DEF GenerateDailyJobsForScheduler
  <2>4. new \subseteq (Requests \cup {Daily}) \X Schedulers \X Times
    <3> HIDE DEF dates
    <3> QED BY <2>1, <2>2
  <2> HIDE DEF new
  <2>5. adding' \subseteq (Requests \cup {Daily}) \X Schedulers \X Times
    BY <1>1, <2>3, <2>4 DEF TypeOK
  <2>6. CallOK(IdleCall) /\ req' = [req EXCEPT ![p] = IdleCall]
    BY <1>9, IdleTypes DEF GenerateDailyJobsForScheduler
  <2> QED BY <1>1, <1>3, <1>9, <2>5, <2>6 DEF GenerateDailyJobsForScheduler, TypeOK
<1>10. CASE CallThrows(p)
  <2>1. CallOK(IdleCall) /\ req' = [req EXCEPT ![p] = IdleCall]
    BY <1>10, IdleTypes DEF CallThrows
  <2>2. faults' \in 0 .. MaxFaults
    BY <1>1, <1>10, BoundsAssumption DEF CallThrows, TypeOK
  <2>3. adding' \subseteq adding
    BY <1>10 DEF CallThrows
  <2> QED BY <1>1, <1>3, <1>10, <2>1, <2>2, <2>3 DEF CallThrows, TypeOK
<1> QED BY <1>4, <1>5, <1>6, <1>7, <1>8, <1>9, <1>10 DEF CallStep

\* The midnight task, the queue and the clock.
LEMMA DayInBounds == ASSUME TypeOK PROVE Day(now) \in Nat /\ Day(now) <= Day(MaxTime)
                                         /\ Day(MaxTime) \in Nat
<1>1. now \in Nat /\ MaxTime \in Nat /\ now <= MaxTime
  BY BoundsAssumption DEF TypeOK, Times
<1>2. Day(now) \in Nat
  BY <1>1, DayOf
<1>3. Day(MaxTime) \in Nat
  BY <1>1, DayOf
<1>4. Day(now) <= Day(MaxTime)
  BY <1>1, DaysGoOn
<1> QED BY <1>2, <1>3, <1>4

LEMMA Generated ==
  ASSUME TypeOK, NEW n \in 1 .. 3, StartGeneration(n), now' = now
  PROVE  /\ gen' \in Generations /\ GenOK'
         /\ gen'.phase = "schedule" /\ gen'.day = Day(now)
         /\ \A s \in Schedulers : rows[s].status = "enabled"
                                    => s \in gen'.todo \/ s \in gen'.skipped
         /\ \A s \in Schedulers : gen'.cron[s] = rows[s].cron
<1> DEFINE enabled == {s \in Schedulers : rows[s].status = "enabled"}
           todo == {s \in enabled : rows[s].active}
           skipped == enabled \ todo
           cron == [s \in Schedulers |-> rows[s].cron]
<1>1. gen' = [phase |-> "schedule", day |-> Day(now), attempt |-> n, todo |-> todo,
              cron |-> cron, skipped |-> skipped, failed |-> FALSE]
  BY DEF StartGeneration
<1>2. /\ cron \in [Schedulers -> Crons] /\ todo \subseteq Schedulers
      /\ skipped \subseteq Schedulers
      /\ \A s \in Schedulers : rows[s].status = "enabled" => s \in todo \/ s \in skipped
  BY DEF TypeOK, Rows
<1>3. Day(now) \in -1 .. Day(MaxTime) /\ Day(now) <= Day(now)
  BY DayInBounds
<1>4. \A s \in Schedulers : cron[s] = rows[s].cron /\ cron[s] \in Crons
  BY <1>2
<1> HIDE DEF todo, skipped, cron
<1>5. gen' \in Generations
  BY <1>1, <1>2, <1>3 DEF Generations
<1>6. GenOK'
  BY <1>1, <1>2, <1>3, <1>4 DEF GenOK
<1> QED BY <1>1, <1>2, <1>4, <1>5, <1>6

LEMMA GenerationTypes ==
  ASSUME TInv, GenerationStep \/ AddingForGenerationFails
  PROVE  TInv'
<1>1. TypeOK /\ GenOK /\ \A x \in Requests : CallOK(req[x])
  BY DEF TInv
<1>2. gen \in Generations
  BY <1>1 DEF TypeOK
<1>3. ASSUME gen' \in Generations, GenOK', UNCHANGED <<rows, waiting, notices, req, handler, now>>,
             adding' \subseteq (Requests \cup {Daily}) \X Schedulers \X Times,
             faults' \in 0 .. MaxFaults
      PROVE  TInv'
  BY <1>1, <1>3 DEF TInv, TypeOK, CallOK
<1>4. CASE GenerateDailyJobs
  <2>1. StartGeneration(1) /\ now' = now
    BY <1>4 DEF GenerateDailyJobs
  <2>2. gen' \in Generations /\ GenOK'
    BY <1>1, <2>1, Generated
  <2> QED BY <1>1, <1>3, <1>4, <2>2 DEF GenerateDailyJobs, TypeOK
<1>5. ASSUME NEW s \in Schedulers, GenerateFor(s) PROVE TInv'
  <2> DEFINE dates == getDailyDatesFromCron(gen.cron[s], gen.day * DayLength)
             new == {<<Daily, s, t>> : t \in dates}
  <2>1. /\ s \in gen.todo
        /\ gen' = [gen EXCEPT !.todo = @ \ {s}, !.failed = @ \/ ~Exists(s)]
        /\ adding' = IF Exists(s) THEN adding \cup new ELSE adding
    BY <1>5 DEF GenerateFor
  <2>2. dates \subseteq Times
    BY <1>1, <2>1, RunsInTimes DEF GenOK, getDailyDatesFromCron
  <2>3. new \subseteq (Requests \cup {Daily}) \X Schedulers \X Times
    <3> HIDE DEF dates
    <3> QED BY <2>2
  <2> HIDE DEF new
  <2>4. adding' \subseteq (Requests \cup {Daily}) \X Schedulers \X Times
    BY <1>1, <2>1, <2>3 DEF TypeOK
  <2>5. /\ gen' \in Generations /\ gen'.todo \subseteq gen.todo /\ gen'.day = gen.day
        /\ gen'.phase = gen.phase /\ gen'.cron = gen.cron
    BY <1>2, <2>1 DEF Generations
  <2>6. GenOK'
    BY <1>1, <1>5, <2>5 DEF GenOK, GenerateFor
  <2> QED BY <1>1, <1>3, <1>5, <2>4, <2>5, <2>6 DEF GenerateFor, TypeOK
<1>6. CASE EndGeneration
  <2>1. CASE gen.failed /\ gen.attempt < 3
    <3>1. StartGeneration(gen.attempt + 1) /\ now' = now
      BY <1>6, <2>1 DEF EndGeneration
    <3>2. gen.attempt + 1 \in 1 .. 3
      BY <1>2, <2>1 DEF Generations
    <3>3. gen' \in Generations /\ GenOK'
      BY <1>1, <3>1, <3>2, Generated
    <3> QED BY <1>1, <1>3, <1>6, <3>3 DEF EndGeneration, TypeOK
  <2>2. CASE ~(gen.failed /\ gen.attempt < 3)
    <3>1. gen.todo = {}
          /\ gen' = [gen EXCEPT !.phase = "idle", !.attempt = 0, !.failed = FALSE,
                                !.cron = [s \in Schedulers |-> NoCron]]
      BY <1>6, <2>2 DEF EndGeneration
    <3>2. gen' \in Generations /\ gen'.todo = {} /\ gen'.day = gen.day
      <4> DEFINE none == [s \in Schedulers |-> NoCron]
      <4>1. none \in [Schedulers -> Crons \cup {NoCron}]
        OBVIOUS
      <4>2. gen' = [gen EXCEPT !.phase = "idle", !.attempt = 0, !.failed = FALSE, !.cron = none]
        BY <3>1
      <4> HIDE DEF none
      <4>3. gen' = [phase |-> "idle", day |-> gen.day, attempt |-> 0, todo |-> gen.todo,
                    cron |-> none, skipped |-> gen.skipped, failed |-> FALSE]
        BY <1>2, <4>2 DEF Generations
      <4>4. gen.day \in -1 .. Day(MaxTime) /\ gen.todo \in SUBSET Schedulers
            /\ gen.skipped \in SUBSET Schedulers
        BY <1>2 DEF Generations
      <4> DEFINE day == gen.day
                 todo == gen.todo
                 skipped == gen.skipped
      <4> HIDE DEF day, todo, skipped
      <4>5. [phase |-> "idle", day |-> day, attempt |-> 0, todo |-> todo,
             cron |-> none, skipped |-> skipped, failed |-> FALSE] \in Generations
        BY <4>1, <4>4 DEF Generations, day, todo, skipped
      <4> QED BY <3>1, <4>3, <4>5 DEF day, todo, skipped
    <3>3. GenOK'
      BY <1>1, <1>6, <3>2 DEF GenOK, EndGeneration
    <3> QED BY <1>1, <1>3, <1>6, <3>2, <3>3 DEF EndGeneration, TypeOK
  <2> QED BY <2>1, <2>2
<1>7. CASE AddingForGenerationFails
  <2>1. faults' \in 0 .. MaxFaults
    BY <1>1, <1>7, BoundsAssumption DEF AddingForGenerationFails, TypeOK
  <2>2. adding' \subseteq adding
    BY <1>7 DEF AddingForGenerationFails
  <2>3. gen' \in Generations /\ gen'.todo = gen.todo /\ gen'.day = gen.day
        /\ gen'.phase = gen.phase /\ gen'.cron = gen.cron
    BY <1>2, <1>7 DEF AddingForGenerationFails, Generations
  <2>4. GenOK'
    BY <1>1, <1>7, <2>3 DEF GenOK, AddingForGenerationFails
  <2> QED BY <1>1, <1>3, <1>7, <2>1, <2>2, <2>3, <2>4 DEF AddingForGenerationFails, TypeOK
<1> QED BY <1>4, <1>5, <1>6, <1>7 DEF GenerationStep, GenerateFor

LEMMA JobAdded ==
  ASSUME TypeOK, NEW s \in Schedulers, NEW j \in Times \X (0 .. 1),
         waiting' = [waiting EXCEPT ![s][j] = @ + 1]
  PROVE  /\ waiting' \in [Schedulers -> [Times \X (0 .. 1) -> Nat]]
         /\ waiting'[s][j] > 0
         /\ \A x \in Schedulers, i \in Times \X (0 .. 1) : waiting'[x][i] >= waiting[x][i]
<1>1. waiting \in [Schedulers -> [Times \X (0 .. 1) -> Nat]]
  BY DEF TypeOK
<1> DEFINE J == Times \X (0 .. 1)
           w == [waiting[s] EXCEPT ![j] = @ + 1]
<1>2. waiting[s] \in [J -> Nat] /\ waiting[s][j] \in Nat
  BY <1>1
<1>3. w \in [J -> Nat] /\ w[j] = waiting[s][j] + 1 /\ \A i \in J : i # j => w[i] = waiting[s][i]
  BY <1>2
<1>4. waiting' = [waiting EXCEPT ![s] = w]
  BY <1>1
<1> HIDE DEF w, J
<1>5. waiting \in [Schedulers -> [J -> Nat]]
  BY <1>1 DEF J
<1>6. /\ waiting' \in [Schedulers -> [J -> Nat]] /\ waiting'[s] = w
      /\ \A x \in Schedulers : x # s => waiting'[x] = waiting[x]
  BY <1>3, <1>4, <1>5
<1>7. waiting'[s][j] > 0
  BY <1>2, <1>3, <1>6
<1>8. ASSUME NEW x \in Schedulers, NEW i \in J
      PROVE  waiting'[x][i] >= waiting[x][i]
  <2>1. waiting[x][i] \in Nat
    BY <1>5
  <2>2. waiting'[x][i] = waiting[x][i] \/ waiting'[x][i] = waiting[x][i] + 1
    BY <1>3, <1>6
  <2> QED BY <2>1, <2>2
<1> QED BY <1>6, <1>7, <1>8 DEF J

\* Deliveries.
LEMMA FailTypes ==
  ASSUME TypeOK, NEW h \in Handlers, handler[h].phase # "idle", Fail(h)
  PROVE  /\ waiting' \in [Schedulers -> [Times \X (0 .. 1) -> Nat]]
         /\ handler' = [handler EXCEPT ![h] = IdleDelivery]
         /\ \A s \in Schedulers, j \in Times \X (0 .. 1) : waiting'[s][j] >= waiting[s][j]
<1> DEFINE d == handler[h]
           j == <<d.at, d.retries - 1>>
<1>1. d \in Deliveries /\ d.scheduler \in Schedulers
  BY DEF TypeOK, Deliveries
<1>2. waiting \in [Schedulers -> [Times \X (0 .. 1) -> Nat]]
  BY DEF TypeOK
<1>3. handler' = [handler EXCEPT ![h] = IdleDelivery]
  BY DEF Fail
<1>4. CASE d.retries = 0
  <2>1. waiting' = waiting
    BY <1>4 DEF Fail
  <2>2. ASSUME NEW s \in Schedulers, NEW x \in Times \X (0 .. 1)
        PROVE  waiting'[s][x] >= waiting[s][x]
    <3>1. waiting[s][x] \in Nat
      BY <1>2
    <3> QED BY <2>1, <3>1
  <2> QED BY <1>2, <1>3, <2>1, <2>2
<1>5. CASE d.retries # 0
  <2>1. waiting' = [waiting EXCEPT ![d.scheduler][j] = @ + 1]
    BY <1>5 DEF Fail
  <2>2. j \in Times \X (0 .. 1)
    BY <1>1, <1>5 DEF Deliveries
  <2> HIDE DEF d, j
  <2> QED BY <1>1, <1>3, <2>1, <2>2, JobAdded
<1> QED BY <1>4, <1>5

DeliveryOK(d) == d \in Deliveries /\ (d.phase # "idle" => d.scheduler # NoScheduler)

LEMMA DeliveryTypes ==
  ASSUME TInv, NEW h \in Handlers,
         \/ DeliveryStep(h) \/ QueueingThrows(h) \/ DeliveryTimesOut(h)
         \/ \E s \in Schedulers, t \in Times, retries \in 0 .. 1 : PickDelivery(h, s, t, retries)
  PROVE  TInv'
<1>1. TypeOK /\ GenOK /\ \A x \in Requests : CallOK(req[x])
  BY DEF TInv
<1>2. DeliveryOK(handler[h])
  BY <1>1 DEF TypeOK, DeliveryOK
<1>3. ASSUME NEW d, DeliveryOK(d), handler' = [handler EXCEPT ![h] = d],
             UNCHANGED <<adding, req, gen, now>>,
             rows' \in [Schedulers -> Rows],
             waiting' \in [Schedulers -> [Times \X (0 .. 1) -> Nat]],
             notices' \in [Schedulers -> [Targets -> Nat]],
             faults' \in 0 .. MaxFaults
      PROVE  TInv'
  <2>1. handler' \in [Handlers -> Deliveries]
        /\ \A x \in Handlers : handler'[x].phase # "idle" => handler'[x].scheduler # NoScheduler
    BY <1>1, <1>3 DEF TypeOK, DeliveryOK
  <2>2. TypeOK'
    BY <1>1, <1>3, <2>1 DEF TypeOK
  <2> QED BY <1>1, <1>3, <2>2 DEF TInv, GenOK, CallOK
<1>4. DeliveryOK(IdleDelivery)
  BY IdleTypes DEF DeliveryOK
<1>5. ASSUME NEW phase \in {"read", "check", "deleteJobs", "disable", "page", "targets"},
             handler[h].phase # "idle"
      PROVE  DeliveryOK([handler[h] EXCEPT !.phase = phase])
  BY <1>2, <1>5 DEF DeliveryOK, Deliveries
<1>6. ASSUME handler[h].phase # "idle", Fail(h),
             UNCHANGED <<adding, req, gen, now>>,
             rows' \in [Schedulers -> Rows],
             notices' \in [Schedulers -> [Targets -> Nat]],
             faults' \in 0 .. MaxFaults
      PROVE  TInv'
  <2>1. waiting' \in [Schedulers -> [Times \X (0 .. 1) -> Nat]]
        /\ handler' = [handler EXCEPT ![h] = IdleDelivery]
    BY <1>1, <1>6, FailTypes
  <2> QED BY <1>3, <1>4, <1>6, <2>1
\* A step that changes nothing but the delivery.
<1>7. ASSUME NEW d, DeliveryOK(d), handler' = [handler EXCEPT ![h] = d],
             UNCHANGED <<rows, waiting, notices, adding, req, gen, now, faults>>
      PROVE  TInv'
  BY <1>1, <1>3, <1>7 DEF TypeOK
<1>8. CASE ReadScheduler(h)
  <2>1. CASE Proceed(h, "check") /\ UNCHANGED waiting
    BY <1>5, <1>7, <1>8, <2>1 DEF ReadScheduler, Proceed
  <2>2. CASE Fail(h)
    BY <1>1, <1>6, <1>8, <2>2 DEF ReadScheduler, TypeOK
  <2> QED BY <1>8, <2>1, <2>2 DEF ReadScheduler
<1>9. CASE CheckThreshold(h)
  <2>1. CASE handler' = [handler EXCEPT ![h].fired = TRUE,
                           ![h].phase = IF handler[h].scheduler \in OnceAlerts
                                        THEN "deleteJobs" ELSE "page"]
             /\ UNCHANGED waiting
    <3> DEFINE d == [handler[h] EXCEPT !.fired = TRUE,
                       !.phase = IF handler[h].scheduler \in OnceAlerts
                                 THEN "deleteJobs" ELSE "page"]
    <3>1. DeliveryOK(d)
      BY <1>2, <1>9 DEF DeliveryOK, Deliveries, CheckThreshold
    <3>2. handler' = [handler EXCEPT ![h] = d]
      BY <1>1, <2>1 DEF TypeOK
    <3> HIDE DEF d
    <3> QED BY <1>7, <1>9, <2>1, <3>1, <3>2 DEF CheckThreshold
  <2>2. CASE (End(h) \/ Proceed(h, "deleteJobs") \/ Proceed(h, "page")) /\ UNCHANGED waiting
    BY <1>4, <1>5, <1>7, <1>9, <2>2 DEF CheckThreshold, Proceed, End
  <2>3. CASE Fail(h)
    BY <1>1, <1>6, <1>9, <2>3 DEF CheckThreshold, TypeOK
  <2> QED BY <1>9, <2>1, <2>2, <2>3 DEF CheckThreshold
<1>10. CASE HandlerDeletesJobs(h)
  <2>1. CASE DropJobs(handler[h].scheduler) /\ Proceed(h, "disable")
    <3>1. /\ waiting' \in [Schedulers -> [Times \X (0 .. 1) -> Nat]]
          /\ notices' \in [Schedulers -> [Targets -> Nat]]
      BY <1>1, <2>1 DEF DropJobs, NoJobs, NoNotices, TypeOK
    <3> QED BY <1>1, <1>3, <1>5, <1>10, <2>1, <3>1 DEF HandlerDeletesJobs, Proceed, TypeOK
  <2>2. CASE Fail(h) /\ UNCHANGED notices
    BY <1>1, <1>6, <1>10, <2>2 DEF HandlerDeletesJobs, TypeOK
  <2> QED BY <1>10, <2>1, <2>2 DEF HandlerDeletesJobs
<1>11. CASE HandlerDisables(h)
  <2> DEFINE s == handler[h].scheduler
  <2>1. Written(rows[s], "disable", NoCron) \in Rows
    <3>1. rows[s] \in Rows
      BY <1>1, <1>11 DEF HandlerDisables, TypeOK, Deliveries
    <3> QED BY <3>1 DEF Written, Rows
  <2>2. rows' \in [Schedulers -> Rows]
    BY <1>1, <1>11, <2>1 DEF HandlerDisables, TypeOK
  <2>3. CASE Fail(h)
    BY <1>1, <1>6, <1>11, <2>2, <2>3 DEF HandlerDisables, TypeOK
  <2>4. CASE (Proceed(h, "page") \/ End(h)) /\ UNCHANGED waiting
    BY <1>1, <1>3, <1>4, <1>5, <1>11, <2>2, <2>4 DEF HandlerDisables, Proceed, End, TypeOK
  <2> QED BY <1>11, <2>3, <2>4 DEF HandlerDisables
<1>12. CASE GetNotificationPageData(h)
  <2>1. CASE handler' = [handler EXCEPT ![h].phase = "targets", ![h].todo = Targets]
             /\ UNCHANGED waiting
    <3> DEFINE d == [handler[h] EXCEPT !.phase = "targets", !.todo = Targets]
    <3>1. DeliveryOK(d)
      BY <1>2, <1>12 DEF DeliveryOK, Deliveries, GetNotificationPageData
    <3>2. handler' = [handler EXCEPT ![h] = d]
      BY <1>1, <2>1 DEF TypeOK
    <3> HIDE DEF d
    <3> QED BY <1>7, <1>12, <2>1, <3>1, <3>2 DEF GetNotificationPageData
  <2>2. CASE handler' = [handler EXCEPT ![h].phase = "deleteJobs", ![h].fired = FALSE]
             /\ UNCHANGED waiting
    <3> DEFINE d == [handler[h] EXCEPT !.phase = "deleteJobs", !.fired = FALSE]
    <3>1. DeliveryOK(d)
      BY <1>2, <1>12 DEF DeliveryOK, Deliveries, GetNotificationPageData
    <3>2. handler' = [handler EXCEPT ![h] = d]
      BY <1>1, <2>2 DEF TypeOK
    <3> HIDE DEF d
    <3> QED BY <1>7, <1>12, <2>2, <3>1, <3>2 DEF GetNotificationPageData
  <2>3. CASE Fail(h)
    BY <1>1, <1>6, <1>12, <2>3 DEF GetNotificationPageData, TypeOK
  <2> QED BY <1>12, <2>1, <2>2, <2>3 DEF GetNotificationPageData
<1>13. CASE EndDelivery(h)
  BY <1>4, <1>7, <1>13 DEF EndDelivery, End
<1>14. ASSUME NEW target \in Targets, QueueNotification(h, target) PROVE TInv'
  <2> DEFINE d == [handler[h] EXCEPT !.todo = @ \ {target}]
             n == [notices[handler[h].scheduler] EXCEPT ![target] = @ + 1]
  <2>1. DeliveryOK(d)
    BY <1>2 DEF DeliveryOK, Deliveries
  <2>2. handler' = [handler EXCEPT ![h] = d]
    BY <1>1, <1>14 DEF TypeOK, QueueNotification
  <2>3. notices[handler[h].scheduler] \in [Targets -> Nat]
    BY <1>1, <1>14 DEF TypeOK, Deliveries, QueueNotification
  <2>4. n \in [Targets -> Nat]
    BY <2>3
  <2>5. notices' = [notices EXCEPT ![handler[h].scheduler] = n]
    BY <1>1, <1>14 DEF TypeOK, QueueNotification
  <2> HIDE DEF d, n
  <2>6. notices' \in [Schedulers -> [Targets -> Nat]]
    BY <1>1, <2>4, <2>5 DEF TypeOK
  <2> QED BY <1>1, <1>3, <1>14, <2>1, <2>2, <2>6 DEF QueueNotification, TypeOK
<1>15. CASE QueueingThrows(h)
  <2>1. faults' \in 0 .. MaxFaults
    BY <1>1, <1>15, BoundsAssumption DEF QueueingThrows, TypeOK
  <2> QED BY <1>1, <1>6, <1>15, <2>1 DEF QueueingThrows, TypeOK
<1>16. CASE DeliveryTimesOut(h)
  <2> DEFINE d == [handler[h] EXCEPT !.retries = 0]
  <2>1. DeliveryOK(d)
    BY <1>2 DEF DeliveryOK, Deliveries
  <2>2. handler' = [handler EXCEPT ![h] = d]
    BY <1>1, <1>16 DEF TypeOK, DeliveryTimesOut
  <2> HIDE DEF d
  <2> QED BY <1>7, <1>16, <2>1, <2>2 DEF DeliveryTimesOut
<1>17. ASSUME NEW s \in Schedulers, NEW t \in Times, NEW retries \in 0 .. 1,
              PickDelivery(h, s, t, retries)
       PROVE  TInv'
  <2> DEFINE d == [IdleDelivery EXCEPT !.phase = "read", !.scheduler = s,
                                       !.at = t, !.retries = retries]
             j == <<t, retries>>
             w == [waiting[s] EXCEPT ![j] = @ - 1]
  <2>1. DeliveryOK(d)
    BY SchedulersAssumption DEF DeliveryOK, Deliveries, IdleDelivery
  <2>2. handler' = [handler EXCEPT ![h] = d]
    BY <1>17 DEF PickDelivery
  <2>3. waiting[s] \in [Times \X (0 .. 1) -> Nat] /\ j \in Times \X (0 .. 1)
    BY <1>1 DEF TypeOK
  <2>4. waiting[s][j] \in Nat /\ waiting[s][j] > 0
    BY <1>17, <2>3 DEF PickDelivery
  <2>5. waiting[s][j] - 1 \in Nat
    BY <2>4
  <2>6. waiting' = [waiting EXCEPT ![s] = w]
    BY <1>1, <1>17 DEF PickDelivery, TypeOK
  <2>7. w \in [Times \X (0 .. 1) -> Nat]
    <3> HIDE DEF j
    <3> QED BY <2>3, <2>5
  <2> HIDE DEF d, w
  <2>8. waiting' \in [Schedulers -> [Times \X (0 .. 1) -> Nat]]
    BY <1>1, <2>6, <2>7 DEF TypeOK
  <2> QED BY <1>1, <1>3, <1>17, <2>1, <2>2, <2>8 DEF PickDelivery, TypeOK
<1> QED BY <1>8, <1>9, <1>10, <1>11, <1>12, <1>13, <1>14, <1>15, <1>16, <1>17
         DEF DeliveryStep

LEMMA OtherTypes ==
  ASSUME TInv,
         \/ \E a \in adding : AddScheduledDeliveryJob(a)
         \/ \E s \in Schedulers, target \in Targets : SendNotification(s, target)
         \/ Tick \/ CrashWorker \/ UNCHANGED vars
  PROVE  TInv'
<1>1. TypeOK /\ GenOK /\ \A x \in Requests : CallOK(req[x])
  BY DEF TInv
<1>2. ASSUME NEW a \in adding, AddScheduledDeliveryJob(a) PROVE TInv'
  <2> DEFINE s == a[2]
             j == <<a[3], Retries(s)>>
  <2>1. /\ waiting' = [waiting EXCEPT ![s][j] = @ + 1]
        /\ adding' \subseteq adding
        /\ UNCHANGED <<rows, notices, req, gen, handler, now, faults>>
    BY <1>2 DEF AddScheduledDeliveryJob
  <2>2. s \in Schedulers
    BY <1>1 DEF TypeOK
  <2>3. j \in Times \X (0 .. 1)
    <3>1. a[3] \in Times
      BY <1>1 DEF TypeOK
    <3> QED BY <3>1, RetriesType
  <2> HIDE DEF s, j
  <2>4. waiting' \in [Schedulers -> [Times \X (0 .. 1) -> Nat]]
    BY <1>1, <2>1, <2>2, <2>3, JobAdded
  <2>5. TypeOK'
    BY <1>1, <2>1, <2>4 DEF TypeOK
  <2> QED BY <1>1, <2>1, <2>5 DEF TInv, GenOK, CallOK
<1>3. ASSUME NEW s \in Schedulers, NEW target \in Targets, SendNotification(s, target)
      PROVE  TInv'
  <2> DEFINE n == [notices[s] EXCEPT ![target] = @ - 1]
  <2>1. notices[s] \in [Targets -> Nat] /\ notices[s][target] \in Nat /\ notices[s][target] > 0
    BY <1>1, <1>3 DEF TypeOK, SendNotification
  <2>2. notices[s][target] - 1 \in Nat
    BY <2>1
  <2>3. n \in [Targets -> Nat]
    BY <2>1, <2>2
  <2>4. notices' = [notices EXCEPT ![s] = n]
    BY <1>1, <1>3 DEF TypeOK, SendNotification
  <2> HIDE DEF n
  <2>5. notices' \in [Schedulers -> [Targets -> Nat]]
    BY <1>1, <2>3, <2>4 DEF TypeOK
  <2>6. UNCHANGED <<rows, waiting, adding, req, gen, handler, now, faults>>
    BY <1>3 DEF SendNotification
  <2>7. TypeOK'
    BY <1>1, <2>5, <2>6 DEF TypeOK
  <2> QED BY <1>1, <2>6, <2>7 DEF TInv, GenOK, CallOK
<1>4. CASE Tick
  <2>1. now \in Nat /\ now + 1 \in Times /\ now' = now + 1
        /\ UNCHANGED <<rows, waiting, notices, adding, req, gen, handler, faults>>
    BY <1>1, <1>4, BoundsAssumption DEF Tick, TypeOK, Times
  <2>2. Day(now) <= Day(now + 1) /\ Day(now) \in Nat /\ Day(now + 1) \in Nat
    BY <2>1, DaysGoOn, DayOf
  <2>3. gen.day <= Day(now)' /\ gen.day \in Int
    <3>1. gen.day \in Int
      BY <1>1, DayInBounds DEF TypeOK, Generations
    <3>2. gen.day <= Day(now)
      BY <1>1 DEF GenOK
    <3>3. Day(now)' = Day(now + 1)
      BY <2>1 DEF Day
    <3> QED BY <2>2, <3>1, <3>2, <3>3
  <2>4. TypeOK'
    BY <1>1, <2>1 DEF TypeOK
  <2> QED BY <1>1, <2>1, <2>3, <2>4 DEF TInv, GenOK, CallOK
<1>5. CASE CrashWorker
  <2>1. faults' \in 0 .. MaxFaults
    BY <1>1, <1>5, BoundsAssumption DEF CrashWorker, TypeOK
  <2>2. handler' \in [Handlers -> Deliveries]
        /\ \A h \in Handlers : handler'[h].phase = "idle"
    BY <1>5, IdleTypes DEF CrashWorker
  <2>3. waiting' \in [Schedulers -> [Times \X (0 .. 1) -> Nat]]
    <3>1. waiting \in [Schedulers -> [Times \X (0 .. 1) -> Nat]]
      BY <1>1 DEF TypeOK
    <3>2. \A s \in Schedulers, j \in Times \X (0 .. 1) : waiting[s][j] \in Nat
      BY <3>1
    <3> QED BY <1>5, <3>2 DEF CrashWorker
  <2>4. adding' \subseteq adding /\ UNCHANGED <<rows, notices, req, now>>
    BY <1>5 DEF CrashWorker
  <2>5. gen' = [gen EXCEPT !.todo = {}, !.failed = (gen.phase = "schedule")]
    BY <1>5 DEF CrashWorker
  <2>6. gen' \in Generations /\ gen'.todo = {} /\ gen'.day = gen.day
    BY <1>1, <2>5 DEF TypeOK, Generations
  <2>7. TypeOK'
    BY <1>1, <2>1, <2>2, <2>3, <2>4, <2>6 DEF TypeOK
  <2>8. GenOK'
    BY <1>1, <2>4, <2>6 DEF GenOK
  <2> QED BY <1>1, <2>4, <2>7, <2>8 DEF TInv, CallOK
<1>6. CASE UNCHANGED vars
  BY <1>1, <1>6 DEF vars, TInv, TypeOK, GenOK, CallOK
<1> QED BY <1>2, <1>3, <1>4, <1>5, <1>6

LEMMA OwnerTypes ==
  ASSUME TInv, NEW s \in Schedulers, NEW active \in BOOLEAN, SetOwnerActive(s, active)
  PROVE  TInv'
<1> DEFINE row == [rows[s] EXCEPT !.active = active]
<1>1. TypeOK /\ rows[s] \in Rows
  BY DEF TInv, TypeOK
<1>2. row \in Rows
  BY <1>1 DEF Rows
<1>3. rows' = [rows EXCEPT ![s] = row]
  BY <1>1 DEF SetOwnerActive
<1> HIDE DEF row
<1>4. rows' \in [Schedulers -> Rows]
  BY <1>1, <1>2, <1>3 DEF TypeOK
<1> QED BY <1>1, <1>4 DEF SetOwnerActive, TInv, TypeOK, GenOK, CallOK

LEMMA TInvStep == ASSUME TInv, [Next]_vars PROVE TInv'
BY CallTypes, GenerationTypes, DeliveryTypes, OtherTypes, OwnerTypes DEF Next

\* Every variable stays in its type: no count of jobs or notifications becomes
\* negative, however many workers take them.
THEOREM TypeCorrect == Spec => []TypeOK
<1>1. Init => TInv
  BY InitTypes
<1>2. TInv /\ [Next]_vars => TInv'
  BY TInvStep
<1>3. TInv => TypeOK
  BY DEF TInv
<1> QED BY <1>1, <1>2, <1>3, PTL DEF Spec

-----------------------------------------------------------------------------
(* Jobs. *)

\* A call that will add the jobs of s as its row is now, or disable or delete it.
Owes(p, s) ==
    /\ req[p].scheduler = s
    /\ \/ req[p].phase = "write"
       \/ req[p].phase = "read" /\ req[p].op # "disable"
       \/ req[p].phase = "generate" /\ req[p].enabled /\ req[p].cron = rows[s].cron

Disabling(h, s) == handler[h].phase = "disable" /\ handler[h].scheduler = s

\* The job is in the queue, on its way, or someone has still to see to it.
Owed(s, t) ==
    \/ waiting[s][<<t, Retries(s)>>] > 0
    \/ \E a \in adding : a[2] = s /\ a[3] = t
    \/ \E p \in Requests : Owes(p, s)
    \/ \E h \in Handlers : Disabling(h, s)
    \/ gen.day < Day(now)
    \/ s \in gen.todo /\ gen.cron[s] = rows[s].cron

\* A time of the cron of an enabled scheduler, later today, unless the owner was inactive
\* when today's list was read.
Coming(s, t) ==
    /\ rows[s].status = "enabled" /\ s \notin gen.skipped
    /\ t \in RunsAt[rows[s].cron]
    /\ t > now /\ Day(t) = Day(now)

JobsOwed ==
    faults = 0 => \A s \in Schedulers, t \in Times : Coming(s, t) => Owed(s, t)

\* What a step must leave as it is.
LEMMA StillOwed ==
  ASSUME NEW s \in Schedulers, NEW t \in Times, Owed(s, t),
         waiting[s][<<t, Retries(s)>>] > 0 => waiting'[s][<<t, Retries(s)>>] > 0,
         adding \subseteq adding',
         \A p \in Requests : Owes(p, s) => Owes(p, s)',
         \A h \in Handlers : Disabling(h, s) => Disabling(h, s)',
         gen' = gen, now' = now, rows'[s].cron = rows[s].cron
  PROVE  Owed(s, t)'
<1>1. \A a \in adding : a \in adding'
  OBVIOUS
<1> QED BY <1>1 DEF Owed, Day

LEMMA CallOwes ==
  ASSUME TInv, JobsOwed, faults' = 0, NEW p \in Requests,
         \/ CallStep(p) \/ CallThrows(p)
         \/ \E x \in Schedulers, cron \in Crons :
              CreateScheduler(p, x, cron) \/ StartCall(p, "update", x, cron)
         \/ \E x \in Schedulers, op \in {"enable", "disable", "delete"} :
              StartCall(p, op, x, NoCron),
         NEW s \in Schedulers, NEW t \in Times, Coming(s, t)'
  PROVE  Owed(s, t)'
<1>1. TypeOK /\ CallOK(req[p]) /\ req \in [Requests -> Calls] /\ req[p] \in Calls
  BY DEF TInv, TypeOK
<1>2. faults \in Nat
  BY <1>1, BoundsAssumption DEF TypeOK
\* A step that leaves the row, and takes no debt away.
<1>3. ASSUME rows'[s] = rows[s], waiting'[s] = waiting[s], adding \subseteq adding',
             NEW c, req' = [req EXCEPT ![p] = c], ~Owes(p, s),
             UNCHANGED <<gen, handler, now, faults>>
      PROVE  Owed(s, t)'
  <2>1. Owed(s, t)
    BY <1>3 DEF JobsOwed, Coming, Day
  <2>2. \A x \in Requests : Owes(x, s) => Owes(x, s)'
    BY <1>1, <1>3 DEF Owes
  <2>3. \A h \in Handlers : Disabling(h, s) => Disabling(h, s)'
    BY <1>3 DEF Disabling
  <2> QED BY <1>3, <2>1, <2>2, <2>3, StillOwed
<1>4. ASSUME NEW x \in Schedulers, NEW cron \in Crons, CreateScheduler(p, x, cron)
      PROVE  Owed(s, t)'
  <2> DEFINE c == [IdleCall EXCEPT !.phase = "read", !.op = "create", !.scheduler = x]
  <2>1. req' = [req EXCEPT ![p] = c] /\ req[p].phase = "idle"
    BY <1>4 DEF CreateScheduler, InProgress
  <2>2. CASE x = s
    <3>1. req'[p].phase = "read" /\ req'[p].op # "disable" /\ req'[p].scheduler = s
      BY <1>1, <2>1, <2>2 DEF IdleCall
    <3>2. Owes(p, s)'
      BY <3>1 DEF Owes
    <3> QED BY <3>2 DEF Owed
  <2>3. CASE x # s
    <3> HIDE DEF c
    <3>1. rows'[s] = rows[s]
      BY <1>1, <1>4, <2>3 DEF CreateScheduler, TypeOK
    <3> QED BY <1>3, <1>4, <2>1, <3>1 DEF CreateScheduler, Owes
  <2> QED BY <2>2, <2>3
<1>5. ASSUME NEW x \in Schedulers, NEW op, NEW cron, StartCall(p, op, x, cron)
      PROVE  Owed(s, t)'
  <2> DEFINE c == [IdleCall EXCEPT !.phase = "deleteJobs", !.op = op,
                                   !.scheduler = x, !.cron = cron]
  <2>1. req' = [req EXCEPT ![p] = c] /\ req[p].phase = "idle"
    BY <1>5 DEF StartCall, InProgress
  <2> HIDE DEF c
  <2> QED BY <1>3, <1>5, <2>1 DEF StartCall, Owes
<1>6. CASE DeleteScheduledJobs(p)
  <2> DEFINE c == [req[p] EXCEPT !.phase = "write"]
  <2>1. req' = [req EXCEPT ![p] = c] /\ req[p].phase = "deleteJobs"
    BY <1>6 DEF DeleteScheduledJobs
  <2>2. CASE req[p].scheduler = s
    <3>1. req'[p].phase = "write" /\ req'[p].scheduler = s
      BY <1>1, <2>1, <2>2 DEF Calls
    <3>2. Owes(p, s)'
      BY <3>1 DEF Owes
    <3> QED BY <3>2 DEF Owed
  <2>3. CASE req[p].scheduler # s
    <3> HIDE DEF c
    <3>1. waiting'[s] = waiting[s]
      BY <1>1, <1>6, <2>3 DEF DeleteScheduledJobs, DropJobs, TypeOK
    <3> QED BY <1>3, <1>6, <2>1, <2>3, <3>1 DEF DeleteScheduledJobs, Owes
  <2> QED BY <2>2, <2>3
<1>7. CASE WriteRow(p)
  <2> DEFINE c == IF req[p].op = "delete" THEN IdleCall ELSE [req[p] EXCEPT !.phase = "read"]
  <2>1. req' = [req EXCEPT ![p] = c] /\ req[p].phase = "write"
    BY <1>7 DEF WriteRow
  <2>2. CASE req[p].scheduler = s
    <3>1. rows'[s] = Written(rows[s], req[p].op, req[p].cron)
      BY <1>1, <1>7, <2>2 DEF WriteRow, TypeOK
    <3>2. rows[s] \in Rows
      BY <1>1 DEF TypeOK
    <3>3. rows'[s].status = "enabled"
      BY DEF Coming
    <3>4. req[p].op # "delete" /\ req[p].op # "disable"
      BY <3>1, <3>2, <3>3 DEF Written, Rows
    <3>5. req'[p].phase = "read" /\ req'[p].op # "disable" /\ req'[p].scheduler = s
      BY <1>1, <2>1, <2>2, <3>4 DEF Calls
    <3>6. Owes(p, s)'
      BY <3>5 DEF Owes
    <3> QED BY <3>6 DEF Owed
  <2>3. CASE req[p].scheduler # s
    <3> HIDE DEF c
    <3>1. rows'[s] = rows[s]
      BY <1>1, <1>7, <2>3 DEF WriteRow, TypeOK
    <3> QED BY <1>3, <1>7, <2>1, <2>3, <3>1 DEF WriteRow, Owes
  <2> QED BY <2>2, <2>3
<1>8. CASE ReadRow(p)
  <2> DEFINE x == req[p].scheduler
             c == IF Exists(x) /\ req[p].op # "disable"
                  THEN [req[p] EXCEPT !.phase = "generate", !.cron = rows[x].cron,
                                      !.enabled = (rows[x].status = "enabled")]
                  ELSE IdleCall
  <2>1. req' = [req EXCEPT ![p] = c] /\ req[p].phase = "read" /\ rows' = rows
    BY <1>8 DEF ReadRow
  <2>2. CASE x = s /\ req[p].op # "disable"
    <3>1. rows[s].status = "enabled" /\ Exists(s)
      BY <2>1 DEF Coming, Exists
    <3>2. c = [req[p] EXCEPT !.phase = "generate", !.cron = rows[s].cron,
                             !.enabled = (rows[s].status = "enabled")]
      BY <2>2, <3>1
    <3>3. req'[p].phase = "generate" /\ req'[p].cron = rows'[s].cron /\ req'[p].enabled
          /\ req'[p].scheduler = s
      BY <1>1, <2>1, <2>2, <3>1, <3>2 DEF Calls
    <3>4. Owes(p, s)'
      BY <3>3 DEF Owes
    <3> QED BY <3>4 DEF Owed
  <2>3. CASE ~(x = s /\ req[p].op # "disable")
    <3> HIDE DEF c
    <3> QED BY <1>3, <1>8, <2>1, <2>3 DEF ReadRow, Owes
  <2> QED BY <2>2, <2>3
<1>9. CASE GenerateDailyJobsForScheduler(p)
  <2> DEFINE dates == IF req[p].enabled THEN getDailyDatesFromCron(req[p].cron, now) ELSE {}
  <2>1. /\ req[p].phase = "generate" /\ req' = [req EXCEPT ![p] = IdleCall]
        /\ adding' = adding \cup {<<p, req[p].scheduler, u>> : u \in dates}
        /\ UNCHANGED <<rows, waiting, notices, gen, handler, now, faults>>
    BY <1>9 DEF GenerateDailyJobsForScheduler
  <2>2. CASE Owes(p, s)
    <3>1. req[p].scheduler = s /\ req[p].enabled /\ req[p].cron = rows[s].cron
      BY <2>1, <2>2 DEF Owes
    <3>2. t \in RunsAt[rows[s].cron] /\ t > now /\ Day(t) = Day(now)
      BY <2>1 DEF Coming, Day
    <3>3. t \in dates
      BY <1>1, <3>1, <3>2, BoundsAssumption DEF getDailyDatesFromCron, TypeOK, Times
    <3>4. <<p, s, t>> \in adding'
      <4> HIDE DEF dates
      <4> QED BY <2>1, <3>1, <3>3
    <3> QED BY <3>4 DEF Owed
  <2>3. CASE ~Owes(p, s)
    <3>1. adding \subseteq adding' /\ rows'[s] = rows[s] /\ waiting'[s] = waiting[s]
      BY <2>1
    <3> QED BY <1>3, <2>1, <2>3, <3>1
  <2> QED BY <2>2, <2>3
<1>10. CASE CallThrows(p)
  BY <1>2, <1>10 DEF CallThrows
<1> QED BY <1>4, <1>5, <1>6, <1>7, <1>8, <1>9, <1>10 DEF CallStep

LEMMA GenerationOwes ==
  ASSUME TInv, JobsOwed, faults' = 0, GenerationStep \/ AddingForGenerationFails,
         NEW s \in Schedulers, NEW t \in Times, Coming(s, t)'
  PROVE  Owed(s, t)'
<1>1. TypeOK /\ GenOK /\ gen \in Generations
  BY DEF TInv, TypeOK
\* What is enabled when a generation starts is on its list, or skipped.
<1>2. ASSUME NEW n \in 1 .. 3, StartGeneration(n), UNCHANGED <<rows, now>>
      PROVE  Owed(s, t)'
  <2>1. /\ \A x \in Schedulers : rows[x].status = "enabled"
                                   => x \in gen'.todo \/ x \in gen'.skipped
        /\ \A x \in Schedulers : gen'.cron[x] = rows[x].cron
    BY <1>1, <1>2, Generated
  <2>2. rows[s].status = "enabled" /\ s \notin gen'.skipped
    BY <1>2 DEF Coming
  <2> QED BY <1>2, <2>1, <2>2 DEF Owed
<1>3. CASE GenerateDailyJobs
  BY <1>2, <1>3 DEF GenerateDailyJobs
<1>4. ASSUME NEW x \in Schedulers, GenerateFor(x) PROVE Owed(s, t)'
  <2> DEFINE dates == getDailyDatesFromCron(gen.cron[x], gen.day * DayLength)
  <2>1. /\ x \in gen.todo
        /\ gen' = [gen EXCEPT !.todo = @ \ {x}, !.failed = @ \/ ~Exists(x)]
        /\ adding' = IF Exists(x) THEN adding \cup {<<Daily, x, u>> : u \in dates} ELSE adding
        /\ UNCHANGED <<rows, waiting, notices, req, handler, now, faults>>
    BY <1>4 DEF GenerateFor
  <2>3. /\ gen'.todo = gen.todo \ {x} /\ gen'.day = gen.day /\ gen'.cron = gen.cron
        /\ gen'.skipped = gen.skipped
    BY <1>1, <2>1 DEF Generations
  <2>2. Coming(s, t) /\ Owed(s, t)
    BY <2>1, <2>3 DEF JobsOwed, Coming, Day
  <2>4. CASE gen.day < Day(now)
    BY <2>1, <2>3, <2>4 DEF Owed, Day
  <2>5. CASE ~(gen.day < Day(now)) /\ x = s /\ gen.cron[s] = rows[s].cron
    <3>1. now \in Nat /\ t \in Nat
      BY <1>1, BoundsAssumption DEF TypeOK, Times
    <3>2. Day(now) \in Nat /\ gen.day \in Int /\ gen.day <= Day(now)
      BY <1>1, DayInBounds DEF Generations, GenOK
    <3>3. gen.day = Day(now) /\ gen.day \in Nat
      BY <2>5, <3>2
    <3>4. t \in RunsAt[gen.cron[x]] /\ Day(t) = gen.day /\ Exists(x)
      BY <2>2, <2>5, <3>3 DEF Coming, Exists
    <3>5. t \in dates
      BY <3>1, <3>3, <3>4, DayBegins DEF getDailyDatesFromCron
    <3>6. <<Daily, s, t>> \in adding'
      <4> HIDE DEF dates
      <4> QED BY <2>1, <2>5, <3>4, <3>5
    <3> QED BY <3>6 DEF Owed
  <2>6. CASE ~(gen.day < Day(now)) /\ ~(x = s /\ gen.cron[s] = rows[s].cron)
    <3>1. adding \subseteq adding'
      BY <2>1
    <3>2. \A a \in adding : a \in adding'
      BY <3>1
    <3>3. s \in gen.todo /\ gen.cron[s] = rows[s].cron => s \in gen'.todo
      BY <2>3, <2>6
    <3> HIDE DEF dates
    <3> QED BY <2>1, <2>2, <2>3, <2>6, <3>2, <3>3 DEF Owed, Owes, Disabling
  <2> QED BY <2>4, <2>5, <2>6
<1>5. CASE EndGeneration
  <2>1. CASE gen.failed /\ gen.attempt < 3
    <3>1. gen.attempt + 1 \in 1 .. 3
      BY <1>1, <2>1 DEF Generations
    <3> QED BY <1>2, <1>5, <2>1, <3>1 DEF EndGeneration
  <2>2. CASE ~(gen.failed /\ gen.attempt < 3)
    <3>1. /\ gen.todo = {} /\ gen'.day = gen.day /\ gen'.skipped = gen.skipped
          /\ UNCHANGED <<rows, waiting, notices, adding, req, handler, now, faults>>
      BY <1>1, <1>5, <2>2 DEF EndGeneration, Generations
    <3>2. Owed(s, t)
      BY <3>1 DEF JobsOwed, Coming, Day
    <3> QED BY <3>1, <3>2 DEF Owed, Owes, Disabling, Day
  <2> QED BY <2>1, <2>2
<1>6. CASE AddingForGenerationFails
  <2>1. faults \in Nat
    BY <1>1, BoundsAssumption DEF TypeOK
  <2> QED BY <1>6, <2>1 DEF AddingForGenerationFails
<1> QED BY <1>3, <1>4, <1>5, <1>6 DEF GenerationStep, GenerateFor

LEMMA DeliveryOwes ==
  ASSUME TInv, JobsOwed, faults' = 0, NEW h \in Handlers,
         \/ DeliveryStep(h) \/ QueueingThrows(h) \/ DeliveryTimesOut(h)
         \/ \E x \in Schedulers, u \in Times, retries \in 0 .. 1 : PickDelivery(h, x, u, retries),
         NEW s \in Schedulers, NEW t \in Times, Coming(s, t)'
  PROVE  Owed(s, t)'
<1>1. TypeOK /\ handler \in [Handlers -> Deliveries]
      /\ waiting \in [Schedulers -> [Times \X (0 .. 1) -> Nat]]
  BY DEF TInv, TypeOK
<1>2. faults \in Nat /\ <<t, Retries(s)>> \in Times \X (0 .. 1)
  BY <1>1, BoundsAssumption, RetriesType DEF TypeOK
\* A step that leaves the row, takes no job of s and does not end its disabling.
<1>3. ASSUME rows'[s] = rows[s],
             waiting[s][<<t, Retries(s)>>] > 0 => waiting'[s][<<t, Retries(s)>>] > 0,
             NEW d, handler' = [handler EXCEPT ![h] = d], ~Disabling(h, s),
             UNCHANGED <<adding, req, gen, now, faults>>
      PROVE  Owed(s, t)'
  <2>1. Owed(s, t)
    BY <1>3 DEF JobsOwed, Coming, Day
  <2>2. \A x \in Requests : Owes(x, s) => Owes(x, s)'
    BY <1>3 DEF Owes
  <2>3. \A x \in Handlers : Disabling(x, s) => Disabling(x, s)'
    BY <1>1, <1>3 DEF Disabling
  <2> QED BY <1>3, <2>1, <2>2, <2>3, StillOwed
<1>4. ASSUME handler[h].phase # "idle", Fail(h), rows'[s] = rows[s], ~Disabling(h, s),
             UNCHANGED <<adding, req, gen, now, faults>>
      PROVE  Owed(s, t)'
  <2> DEFINE j == <<t, Retries(s)>>
  <2>1. handler' = [handler EXCEPT ![h] = IdleDelivery]
        /\ waiting' \in [Schedulers -> [Times \X (0 .. 1) -> Nat]]
        /\ waiting'[s][j] >= waiting[s][j]
    BY <1>1, <1>2, <1>4, FailTypes
  <2>2. waiting[s][j] \in Nat /\ waiting'[s][j] \in Nat
    BY <1>1, <1>2, <2>1
  <2>3. waiting[s][j] > 0 => waiting'[s][j] > 0
    <3> HIDE DEF j
    <3> QED BY <2>1, <2>2
  <2> QED BY <1>3, <1>4, <2>1, <2>3
\* A step of a delivery that is not disabling, and nothing else.
<1>5. ASSUME NEW d, handler' = [handler EXCEPT ![h] = d], handler[h].phase # "disable",
             UNCHANGED <<rows, waiting, adding, req, gen, now, faults>>
      PROVE  Owed(s, t)'
  BY <1>3, <1>5 DEF Disabling
<1>6. CASE ReadScheduler(h)
  BY <1>4, <1>5, <1>6 DEF ReadScheduler, Proceed, Disabling
<1>7. CASE CheckThreshold(h)
  <2>1. CASE handler' = [handler EXCEPT ![h].fired = TRUE,
                           ![h].phase = IF handler[h].scheduler \in OnceAlerts
                                        THEN "deleteJobs" ELSE "page"]
             /\ UNCHANGED waiting
    <3> DEFINE d == [handler[h] EXCEPT !.fired = TRUE,
                       !.phase = IF handler[h].scheduler \in OnceAlerts
                                 THEN "deleteJobs" ELSE "page"]
    <3>1. handler' = [handler EXCEPT ![h] = d]
      BY <1>1, <2>1
    <3> HIDE DEF d
    <3> QED BY <1>5, <1>7, <2>1, <3>1 DEF CheckThreshold
  <2>2. CASE (End(h) \/ Proceed(h, "deleteJobs") \/ Proceed(h, "page")) /\ UNCHANGED waiting
    BY <1>5, <1>7, <2>2 DEF CheckThreshold, Proceed, End
  <2>3. CASE Fail(h)
    BY <1>4, <1>7, <2>3 DEF CheckThreshold, Disabling
  <2> QED BY <1>7, <2>1, <2>2, <2>3 DEF CheckThreshold
<1>8. CASE HandlerDeletesJobs(h)
  <2>1. CASE DropJobs(handler[h].scheduler) /\ Proceed(h, "disable")
    <3>1. CASE handler[h].scheduler = s
      <4>1. handler'[h].phase = "disable" /\ handler'[h].scheduler = s
        BY <1>1, <2>1, <3>1 DEF Proceed, Deliveries
      <4>2. Disabling(h, s)'
        BY <4>1 DEF Disabling
      <4> QED BY <4>2 DEF Owed
    <3>2. CASE handler[h].scheduler # s
      <4>1. waiting'[s] = waiting[s]
        BY <1>1, <2>1, <3>2 DEF DropJobs
      <4> QED BY <1>3, <1>8, <2>1, <3>2, <4>1 DEF HandlerDeletesJobs, Proceed, Disabling
    <3> QED BY <3>1, <3>2
  <2>2. CASE Fail(h)
    BY <1>4, <1>8, <2>2 DEF HandlerDeletesJobs, Disabling
  <2> QED BY <1>8, <2>1, <2>2 DEF HandlerDeletesJobs
<1>9. CASE HandlerDisables(h)
  <2>1. CASE handler[h].scheduler = s
    <3>1. rows[s] \in Rows
      BY <1>1 DEF TypeOK
    <3>2. rows'[s] = Written(rows[s], "disable", NoCron)
      BY <1>1, <1>9, <2>1 DEF HandlerDisables, TypeOK
    <3>3. rows'[s].status = "enabled"
      BY DEF Coming
    <3> QED BY <3>1, <3>2, <3>3 DEF Written, Rows
  <2>2. CASE handler[h].scheduler # s
    <3>1. rows'[s] = rows[s] /\ ~Disabling(h, s)
      BY <1>1, <1>9, <2>2 DEF HandlerDisables, Disabling, TypeOK
    <3>2. CASE Fail(h)
      BY <1>4, <1>9, <3>1, <3>2 DEF HandlerDisables
    <3>3. CASE (Proceed(h, "page") \/ End(h)) /\ UNCHANGED waiting
      BY <1>3, <1>9, <3>1, <3>3 DEF HandlerDisables, Proceed, End
    <3> QED BY <1>9, <3>2, <3>3 DEF HandlerDisables
  <2> QED BY <2>1, <2>2
<1>10. CASE GetNotificationPageData(h)
  <2>1. CASE handler' = [handler EXCEPT ![h].phase = "targets", ![h].todo = Targets]
             /\ UNCHANGED waiting
    <3> DEFINE d == [handler[h] EXCEPT !.phase = "targets", !.todo = Targets]
    <3>1. handler' = [handler EXCEPT ![h] = d]
      BY <1>1, <2>1
    <3> HIDE DEF d
    <3> QED BY <1>5, <1>10, <2>1, <3>1 DEF GetNotificationPageData
  <2>2. CASE handler' = [handler EXCEPT ![h].phase = "deleteJobs", ![h].fired = FALSE]
             /\ UNCHANGED waiting
    <3> DEFINE d == [handler[h] EXCEPT !.phase = "deleteJobs", !.fired = FALSE]
    <3>1. handler' = [handler EXCEPT ![h] = d]
      BY <1>1, <2>2
    <3> HIDE DEF d
    <3> QED BY <1>5, <1>10, <2>2, <3>1 DEF GetNotificationPageData
  <2>3. CASE Fail(h)
    BY <1>4, <1>10, <2>3 DEF GetNotificationPageData, Disabling
  <2> QED BY <1>10, <2>1, <2>2, <2>3 DEF GetNotificationPageData
<1>11. CASE EndDelivery(h)
  BY <1>5, <1>11 DEF EndDelivery, End
<1>12. ASSUME NEW target \in Targets, QueueNotification(h, target) PROVE Owed(s, t)'
  <2> DEFINE d == [handler[h] EXCEPT !.todo = @ \ {target}]
  <2>1. handler' = [handler EXCEPT ![h] = d]
    BY <1>1, <1>12 DEF QueueNotification
  <2> HIDE DEF d
  <2> QED BY <1>5, <1>12, <2>1 DEF QueueNotification
<1>13. CASE QueueingThrows(h)
  BY <1>2, <1>13 DEF QueueingThrows
<1>14. CASE DeliveryTimesOut(h)
  <2>1. /\ rows' = rows /\ waiting' = waiting
        /\ UNCHANGED <<adding, req, gen, now, faults>>
        /\ handler' = [handler EXCEPT ![h].retries = 0]
    BY <1>14 DEF DeliveryTimesOut
  <2>2. Owed(s, t)
    BY <2>1 DEF JobsOwed, Coming, Day
  <2>3. \A x \in Requests : Owes(x, s) => Owes(x, s)'
    BY <2>1 DEF Owes
  <2>4. \A x \in Handlers : /\ handler'[x].phase = handler[x].phase
                            /\ handler'[x].scheduler = handler[x].scheduler
    BY <1>1, <2>1 DEF Deliveries
  <2>5. \A x \in Handlers : Disabling(x, s) => Disabling(x, s)'
    BY <2>4 DEF Disabling
  <2> QED BY <2>1, <2>2, <2>3, <2>5, StillOwed
<1>15. ASSUME NEW x \in Schedulers, NEW u \in Times, NEW retries \in 0 .. 1,
              PickDelivery(h, x, u, retries)
       PROVE  Owed(s, t)'
  <2> DEFINE d == [IdleDelivery EXCEPT !.phase = "read", !.scheduler = x,
                                       !.at = u, !.retries = retries]
             i == <<u, retries>>
             j == <<t, Retries(s)>>
  <2>1. /\ handler[h].phase = "idle" /\ handler' = [handler EXCEPT ![h] = d]
        /\ waiting' = [waiting EXCEPT ![x][i] = @ - 1]
        /\ UNCHANGED <<rows, notices, adding, req, gen, now, faults>> /\ u <= now
    BY <1>15 DEF PickDelivery
  <2>2. t > now /\ now \in Nat /\ t \in Nat /\ u \in Nat
    BY <1>1, <2>1, BoundsAssumption DEF Coming, TypeOK, Times
  <2>3. i # j
    BY <2>1, <2>2
  <2> HIDE DEF d, i, j
  <2>4. waiting'[s][j] = waiting[s][j]
    BY <1>1, <2>1, <2>3
  <2> QED BY <1>3, <2>1, <2>4 DEF Disabling, j
<1> QED BY <1>6, <1>7, <1>8, <1>9, <1>10, <1>11, <1>12, <1>13, <1>14, <1>15
         DEF DeliveryStep

LEMMA OtherOwes ==
  ASSUME TInv, JobsOwed, faults' = 0,
         \/ \E a \in adding : AddScheduledDeliveryJob(a)
         \/ \E x \in Schedulers, target \in Targets : SendNotification(x, target)
         \/ Tick \/ CrashWorker \/ UNCHANGED vars,
         NEW s \in Schedulers, NEW t \in Times, Coming(s, t)'
  PROVE  Owed(s, t)'
<1>1. TypeOK /\ GenOK
  BY DEF TInv
<1>2. ASSUME NEW a \in adding, AddScheduledDeliveryJob(a) PROVE Owed(s, t)'
  <2> DEFINE x == a[2]
             i == <<a[3], Retries(x)>>
             j == <<t, Retries(s)>>
  <2>1. /\ waiting' = [waiting EXCEPT ![x][i] = @ + 1]
        /\ adding' = adding \ {a}
        /\ UNCHANGED <<rows, notices, req, gen, handler, now, faults>>
    BY <1>2 DEF AddScheduledDeliveryJob
  <2>2. Owed(s, t)
    BY <2>1 DEF JobsOwed, Coming, Day
  <2>3. a[2] \in Schedulers /\ a[3] \in Times
    BY <1>1 DEF TypeOK
  <2>4. x \in Schedulers /\ i \in Times \X (0 .. 1) /\ j \in Times \X (0 .. 1)
    BY <2>3, RetriesType
  <2>5. x = s /\ a[3] = t => i = j
    OBVIOUS
  <2> HIDE DEF x, i, j
  <2>6. /\ waiting' \in [Schedulers -> [Times \X (0 .. 1) -> Nat]]
        /\ waiting'[x][i] > 0 /\ waiting'[s][j] >= waiting[s][j]
    BY <1>1, <2>1, <2>4, JobAdded
  <2>7. waiting[s][j] \in Nat /\ waiting'[s][j] \in Nat
    BY <1>1, <2>4, <2>6 DEF TypeOK
  <2>8. waiting[s][j] > 0 => waiting'[s][j] > 0
    BY <2>6, <2>7
  <2>9. CASE a[2] = s /\ a[3] = t
    <3>1. waiting'[s][j] > 0
      BY <2>5, <2>6, <2>9 DEF x
    <3> QED BY <3>1 DEF Owed, j
  <2>10. CASE ~(a[2] = s /\ a[3] = t)
    <3>1. \A b \in adding : b[2] = s /\ b[3] = t => b \in adding'
      BY <2>1, <2>10
    <3> QED BY <2>1, <2>2, <2>8, <3>1 DEF Owed, Owes, Disabling, Day, j
  <2> QED BY <2>9, <2>10
<1>3. ASSUME UNCHANGED <<rows, waiting, adding, req, gen, handler, now, faults>>
      PROVE  Owed(s, t)'
  BY <1>3 DEF JobsOwed, Coming, Owed, Owes, Disabling, Day
<1>4. CASE Tick
  <2>1. /\ now \in Nat /\ now' = now + 1 /\ t \in Nat
        /\ UNCHANGED <<rows, waiting, notices, adding, req, gen, handler, faults>>
    BY <1>1, <1>4, BoundsAssumption DEF Tick, TypeOK, Times
  <2>2. Day(now) <= Day(now') /\ Day(now) \in Nat /\ Day(now') \in Nat
    BY <2>1, DaysGoOn, DayOf
  <2>3. gen.day \in Int /\ gen.day <= Day(now)
    BY <1>1, DayInBounds DEF TypeOK, Generations, GenOK
  <2>4. CASE Day(now') = Day(now)
    <3>1. Coming(s, t)
      BY <2>1, <2>4 DEF Coming
    <3>2. Owed(s, t)
      BY <2>1, <3>1 DEF JobsOwed
    <3> QED BY <2>1, <2>4, <3>2 DEF Owed, Owes, Disabling
  <2>5. CASE Day(now') # Day(now)
    <3>1. gen'.day < Day(now')
      BY <2>1, <2>2, <2>3, <2>5
    <3> QED BY <3>1 DEF Owed
  <2> QED BY <2>4, <2>5
<1>5. CASE CrashWorker
  <2>1. faults \in Nat
    BY <1>1, BoundsAssumption DEF TypeOK
  <2> QED BY <1>5, <2>1 DEF CrashWorker
<1> QED BY <1>2, <1>3, <1>4, <1>5 DEF SendNotification, vars

\* Nothing that is owed depends on the owner.
LEMMA OwnerOwes ==
  ASSUME TInv, JobsOwed, faults' = 0, NEW x \in Schedulers, NEW active \in BOOLEAN,
         SetOwnerActive(x, active), NEW s \in Schedulers, NEW t \in Times, Coming(s, t)'
  PROVE  Owed(s, t)'
<1>1. rows \in [Schedulers -> Rows]
  BY DEF TInv, TypeOK
<1>2. rows'[s].status = rows[s].status /\ rows'[s].cron = rows[s].cron
  <2> DEFINE row == [rows[x] EXCEPT !.active = active]
  <2>1. rows[x] \in Rows
    BY <1>1
  <2>2. row.status = rows[x].status /\ row.cron = rows[x].cron
    BY <2>1 DEF Rows
  <2>3. rows' = [rows EXCEPT ![x] = row]
    BY <1>1 DEF SetOwnerActive
  <2> HIDE DEF row
  <2> QED BY <1>1, <2>2, <2>3
<1>3. UNCHANGED <<waiting, notices, adding, req, gen, handler, now, faults>>
  BY DEF SetOwnerActive
<1>4. Coming(s, t)
  BY <1>2, <1>3 DEF Coming, Day
<1>5. Owed(s, t)
  BY <1>3, <1>4 DEF JobsOwed
<1>6. \A p \in Requests : Owes(p, s) => Owes(p, s)'
  BY <1>2, <1>3 DEF Owes
<1>7. \A h \in Handlers : Disabling(h, s) => Disabling(h, s)'
  BY <1>3 DEF Disabling
<1> QED BY <1>2, <1>3, <1>5, <1>6, <1>7, StillOwed

-----------------------------------------------------------------------------
(* Theorems about jobs. *)

LEMMA AlwaysOwed == Spec => [](TInv /\ JobsOwed)
<1>1. Init => TInv /\ JobsOwed
  <2> SUFFICES ASSUME Init PROVE TInv /\ JobsOwed
    OBVIOUS
  <2>1. gen.day = -1 /\ now = 0 /\ Day(0) \in Nat
    BY DayOf DEF Init
  <2>2. gen.day < Day(now)
    BY <2>1
  <2> QED BY <2>2, InitTypes DEF JobsOwed, Owed
<1>2. ASSUME TInv, JobsOwed, [Next]_vars PROVE (TInv /\ JobsOwed)'
  <2>1. ASSUME faults' = 0, NEW s \in Schedulers, NEW t \in Times, Coming(s, t)'
        PROVE  Owed(s, t)'
    BY <1>2, <2>1, CallOwes, GenerationOwes, DeliveryOwes, OtherOwes, OwnerOwes DEF Next
  <2>2. JobsOwed'
    BY <2>1 DEF JobsOwed
  <2> QED BY <1>2, <2>2, TInvStep
<1> QED BY <1>1, <1>2, PTL DEF Spec

\* Without faults, and once nothing is under way, an enabled scheduler has a job for
\* each time that its cron matches later today, if its owner was active when the midnight
\* task read its list, however its updates, calls that enable and disable it, alerts that
\* disable it and the midnight task were interleaved (SchedulerService,
\* generateDailyJobs, handleScheduledDelivery).
THEOREM SchedulersKeepTheirJobs == Spec => []EnabledSchedulersHaveJobs
<1>1. ASSUME TInv, JobsOwed PROVE EnabledSchedulersHaveJobs
  <2> SUFFICES ASSUME Settled, NEW s \in Schedulers, s \notin gen.skipped,
                      rows[s].status = "enabled",
                      NEW t \in RunsAt[rows[s].cron], t > now, Day(t) = Day(now)
               PROVE  waiting[s][<<t, Retries(s)>>] > 0
    BY DEF EnabledSchedulersHaveJobs
  <2>1. rows[s].cron \in Crons
    BY <1>1 DEF TInv, TypeOK, Rows
  <2>2. Coming(s, t) /\ t \in Times
    BY <2>1, RunsInTimes DEF Coming
  <2>3. Owed(s, t)
    BY <1>1, <2>2 DEF Settled, JobsOwed
  <2>4. ~(gen.day < Day(now))
    BY <1>1, DayInBounds DEF Settled, TInv
  <2>5. s \notin gen.todo
    BY <1>1 DEF Settled, TInv, GenOK
  <2> QED BY <2>3, <2>4, <2>5 DEF Owed, Owes, Disabling, Settled
<1> QED BY <1>1, AlwaysOwed, PTL
=============================================================================
