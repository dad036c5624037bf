--------------------------- MODULE MCResultsPages ---------------------------
(***************************************************************************)
(* Instances of ResultsPages for TLC: two groups whose names differ, and   *)
(* two kinds of what a user may ask for.                                   *)
(***************************************************************************)
EXTENDS ResultsPages

CONSTANTS a, b, g1, g2, s1, s2

TwoNames == [g \in Groups |-> IF g = g1 THEN s1 ELSE s2]

\* The two queries are shown, or neither is.
ShownOrPivoted == {[q \in Queries |-> "plain"],
                   [q \in Queries |-> IF q = a THEN "pivot" ELSE "ungrouped"]}
=============================================================================
