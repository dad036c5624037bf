------------------------ MODULE MCScheduledDelivery ------------------------
(***************************************************************************)
(* Instances of ScheduledDelivery for TLC: days of three time units, two   *)
(* cron expressions that differ in when they run.                          *)
(***************************************************************************)
EXTENDS ScheduledDelivery, TLC

CONSTANTS s1, s2, c1, c2, p1, p2, h1, h2, slack, email

\* c1 runs at noon, c2 at noon and in the evening.
TwoCrons == [c \in Crons |-> {t \in 0 .. MaxTime : \/ t % DayLength = 1
                                                   \/ c = c2 /\ t % DayLength = 2}]

\* API calls differ in nothing but their name.
CallSymmetry == Permutations(Requests)

\* At the end of the clock no job is still to come.
JobsToCome == now < MaxTime
=============================================================================
