----------------------------- MODULE QueryRows -----------------------------
(***************************************************************************)
(* How the rows of a warehouse query become the lines of a results file    *)
(* and the pages that are read from it.  The warehouse sends its rows one  *)
(* after another.  Without a pivot each of them is a line; with a pivot    *)
(* all rows of one index make one line, with a cell for each group.        *)
(***************************************************************************)
EXTENDS Integers, Sequences

CONSTANTS
    Queries,
    Groups,      \* values of the columns that a pivot groups by
    Names,    \* names made of them
    suffixOf,
    NoGroup,     \* of a row that is not pivoted
    KindsOf,     \* kinds that the queries may have
    MaxRows      \* bound: rows of a query

ASSUME GroupsAssumption ==
    /\ suffixOf \in [Groups -> Names]
    /\ NoGroup \notin Groups
VARIABLES
    kind,        \* plain, pivot, or ungrouped: a pivot without groups
    rows,        \* what the warehouse has sent
    stream,      \* local variables of runQueryAndTransformRows, and the file
    answer       \* status and total_row_count of query_history

rowVars == <<kind, rows, stream, answer>>

Kinds == {"plain", "pivot", "ungrouped"}
ASSUME RowsAssumption == KindsOf \subseteq [Queries -> Kinds] /\ MaxRows \in Nat \ {0}

Row == [index : 1 .. MaxRows, group : Groups \cup {NoGroup}]

\* A cell holds the number of the warehouse row that it shows.
Line == [index : 1 .. MaxRows, cells : UNION {[S -> 1 .. MaxRows] : S \in SUBSET Names}]
NoLine == [index |-> 0, cells |-> <<>>]

Streams == [line : Line \cup {NoLine},    \* currentTransformedRow
            total : Nat,                  \* pivotTotalRows
            file : Seq(Line)]

Statuses == {"pending", "ready", "error", "cancelled"}

RowsTypeOK ==
    /\ kind \in [Queries -> Kinds]
    /\ rows \in [Queries -> Seq(Row)]
    /\ stream \in [Queries -> Streams]
    /\ answer \in [Queries -> [status : Statuses, total : Nat]]

RowsInit ==
    /\ kind \in KindsOf
    /\ rows = [q \in Queries |-> <<>>]
    /\ stream = [q \in Queries |-> [line |-> NoLine, total |-> 0, file |-> <<>>]]
    /\ answer = [q \in Queries |-> [status |-> "pending", total |-> 0]]

-----------------------------------------------------------------------------
(* The stream of rows. *)

\* The SQL of a pivot numbers the values of the index column and orders its rows by
\* that number, which may have gaps where it leaves columns out; within an index
\* each group comes once.
NextRows(q) ==
    LET sent == rows[q]
        last == IF sent = <<>> THEN 1 ELSE sent[Len(sent)].index
    IN  IF kind[q] = "pivot"
        THEN {r \in [index : last .. MaxRows, group : Groups] :
                \A n \in DOMAIN sent : sent[n] # r}
        ELSE {[index |-> Len(sent) + 1, group |-> NoGroup]}

Flushed(s) ==
    IF s.line = NoLine THEN s
    ELSE [s EXCEPT !.total = @ + 1, !.file = Append(@, s.line)]

\* Suffixed by the group's values; a later group of the same name takes its place.
WithCell(line, n, suffix) ==
    [line EXCEPT !.cells = [S \in (DOMAIN @) \cup {suffix} |-> IF S = suffix THEN n ELSE @[S]]]

\* Row n of the warehouse, for each kind of query.
Streamed(q, n, row) ==
    LET s == stream[q]
        started == IF s.line.index # row.index
                   THEN [Flushed(s) EXCEPT !.line = [index |-> row.index, cells |-> <<>>]]
                   ELSE s
    IN  IF kind[q] = "pivot"
        THEN [started EXCEPT !.line = WithCell(@, n, suffixOf[row.group])]
        ELSE [s EXCEPT !.file = Append(@, [index |-> row.index, cells |-> <<>>])]

WarehouseRow(q) ==
    /\ answer[q].status = "pending"
    /\ Len(rows[q]) < MaxRows
    /\ \E row \in NextRows(q) :
         /\ rows' = [rows EXCEPT ![q] = Append(@, row)]
         /\ stream' = [stream EXCEPT ![q] = Streamed(q, Len(rows[q]) + 1, row)]
    /\ UNCHANGED <<kind, answer>>

\* Mutant: the line that is being made is not written.
WarehouseDoneEarly(q) ==
    /\ answer[q].status = "pending"
    /\ LET s == stream[q]
           total == IF kind[q] = "plain" THEN Len(rows[q]) ELSE s.total
       IN  /\ answer' = [answer EXCEPT ![q] = [status |-> "ready", total |-> total]]
    /\ UNCHANGED <<kind, rows, stream>>

\* A pivot counts the lines it wrote, anything else the rows of the warehouse; a
\* pivot without groups writes its rows as they are and counts none.
WarehouseDone(q) ==
    /\ answer[q].status = "pending"
    /\ LET s == Flushed(stream[q])
           total == IF kind[q] = "plain" THEN Len(rows[q]) ELSE s.total
       IN  /\ stream' = [stream EXCEPT ![q] = s]
           /\ answer' = [answer EXCEPT ![q] = [status |-> "ready", total |-> total]]
    /\ UNCHANGED <<kind, rows>>

QueryFails(q) ==
    /\ answer[q].status = "pending"
    /\ answer' = [answer EXCEPT ![q].status = "error"]
    /\ UNCHANGED <<kind, rows, stream>>

CancelQuery(q) ==
    /\ answer[q].status \in {"pending", "ready"}
    /\ answer' = [answer EXCEPT ![q].status = "cancelled"]
    /\ UNCHANGED <<kind, rows, stream>>

QueryStep(q) == WarehouseRow(q) \/ WarehouseDone(q) \/ QueryFails(q)

-----------------------------------------------------------------------------
(* Correctness of files. *)

\* The rows of q with the index of a line whose cell is called c.
RowsOfCell(q, line, c) ==
    {n \in DOMAIN rows[q] : /\ rows[q][n].index = line.index
                            /\ suffixOf[rows[q][n].group] = c}

\* A line of a pivot has a cell for each group of its index and no other, whatever
\* was in the line before it.  Where the names of two groups are the same, the last
\* one is shown.
LineIsRight(q, line) ==
    \A c \in Names :
        /\ c \in DOMAIN line.cells <=> RowsOfCell(q, line, c) # {}
        /\ c \in DOMAIN line.cells =>
             /\ line.cells[c] \in RowsOfCell(q, line, c)
             /\ \A n \in RowsOfCell(q, line, c) : n <= line.cells[c]

\* A file that is ready has one line for each row or, in a pivot, for each index, in
\* order; and total_row_count says how many, except for a pivot without groups.
FileIsRight ==
    \A q \in Queries : answer[q].status = "ready" =>
        LET file == stream[q].file
        IN  /\ \A l, m \in DOMAIN file : l < m => file[l].index < file[m].index
            /\ {file[l].index : l \in DOMAIN file} = {rows[q][n].index : n \in DOMAIN rows[q]}
            /\ kind[q] = "pivot" => \A l \in DOMAIN file : LineIsRight(q, file[l])
            /\ kind[q] # "ungrouped" => answer[q].total = Len(file)
=============================================================================
