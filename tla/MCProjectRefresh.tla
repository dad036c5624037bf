------------------------- MODULE MCProjectRefresh -------------------------
(***************************************************************************)
(* Instances of ProjectRefresh for TLC: two explores of one dbt model with *)
(* its metric revenue, which is in a category that the configuration       *)
(* defines, and one of another model; or neither category nor the first    *)
(* explore, and the last does not compile; a virtual view.                 *)
(***************************************************************************)
EXTENDS ProjectRefresh

CONSTANTS r1, r2, u1, d1, orders, sales, costs, adhoc, revenue, ui, finance, core

MetricsOfItems == [i \in Items |-> IF i \in {orders, sales} THEN revenue ELSE i]

Plain == [items |-> {orders, sales, costs}, broken |-> {},
          defined |-> {core}, categories |-> {<<revenue, core>>}]
Smaller == [items |-> {sales}, broken |-> {costs}, defined |-> {}, categories |-> {}]
Two == {Plain, Smaller}

\* State constraint: what users do to marks is nothing to a job, and marks are not
\* safe from faults, so that the two need not come together.
EditOrFault == edits + faults <= 1
=============================================================================
