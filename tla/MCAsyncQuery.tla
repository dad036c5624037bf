---------------------------- MODULE MCAsyncQuery ----------------------------
(***************************************************************************)
(* Instances of AsyncQuery for TLC: a few calls with one cache key, one    *)
(* reader, and a clock that runs past the first expiry.                    *)
(***************************************************************************)
EXTENDS AsyncQuery, TLC

CONSTANTS q1, q2, k1, r1

SameKey == [q \in Queries |-> k1]

\* Calls that share a key are interchangeable.
Symmetry == Permutations(Queries)
=============================================================================
