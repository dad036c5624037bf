------------------------ MODULE ResultsPages_proofs ------------------------
(***************************************************************************)
(* Proofs about files of results and the pages that are read from them,    *)
(* for all queries, rows, groups, page sizes and bounds.                   *)
(***************************************************************************)
EXTENDS ResultsPages, WellFoundedInduction, SequenceTheorems, TLAPS

-----------------------------------------------------------------------------
(* Lines of a pivot. *)

CellRows(rs, i, c) == {n \in DOMAIN rs : rs[n].index = i /\ suffixOf[rs[n].group] = c}

\* LineIsRight for any sequence of rows.
Right(rs, line) ==
    \A c \in Names :
        /\ c \in DOMAIN line.cells <=> CellRows(rs, line.index, c) # {}
        /\ c \in DOMAIN line.cells =>
             /\ line.cells[c] \in CellRows(rs, line.index, c)
             /\ \A n \in CellRows(rs, line.index, c) : n <= line.cells[c]

LEMMA RightIsLineIsRight ==
  ASSUME NEW q, NEW line
  PROVE  LineIsRight(q, line) <=> Right(rows[q], line)
BY DEF LineIsRight, Right, RowsOfCell, CellRows

\* What a new row does to the rows of a cell.
LEMMA CellRowsAppended ==
  ASSUME NEW rs \in Seq(Row), NEW row \in Row, NEW i, NEW c
  PROVE  CellRows(Append(rs, row), i, c) =
           IF row.index = i /\ suffixOf[row.group] = c
           THEN CellRows(rs, i, c) \cup {Len(rs) + 1}
           ELSE CellRows(rs, i, c)
<1> DEFINE as == Append(rs, row)
<1>1. /\ DOMAIN as = (DOMAIN rs) \cup {Len(rs) + 1}
      /\ as[Len(rs) + 1] = row
      /\ \A n \in DOMAIN rs : n # Len(rs) + 1 /\ as[n] = rs[n]
  BY SMT
<1> HIDE DEF as
<1>2. CellRows(as, i, c) = {n \in DOMAIN as : as[n].index = i /\ suffixOf[as[n].group] = c}
  BY DEF CellRows
<1>3. CellRows(rs, i, c) = {n \in DOMAIN rs : rs[n].index = i /\ suffixOf[rs[n].group] = c}
  BY DEF CellRows
<1>4. \A n : n \in CellRows(as, i, c) <=>
               \/ n \in CellRows(rs, i, c)
               \/ n = Len(rs) + 1 /\ row.index = i /\ suffixOf[row.group] = c
  BY <1>1, <1>2, <1>3
<1> HIDE DEF CellRows
<1> QED BY <1>4 DEF as

\* A line of another index is not disturbed.
LEMMA OtherLine ==
  ASSUME NEW rs \in Seq(Row), NEW row \in Row, NEW line,
         line.index # row.index, Right(rs, line)
  PROVE  Right(Append(rs, row), line)
<1>1. \A c : CellRows(Append(rs, row), line.index, c) = CellRows(rs, line.index, c)
  BY CellRowsAppended
<1> QED BY <1>1 DEF Right

\* What WithCell makes of the cells of a line.
Extended(f, n, suffix) ==
    [T \in (DOMAIN f) \cup {suffix} |-> IF T = suffix THEN n ELSE f[T]]

LEMMA CellAdded ==
  ASSUME NEW i, NEW f, NEW n, NEW suffix
  PROVE  WithCell([index |-> i, cells |-> f], n, suffix)
           = [index |-> i, cells |-> Extended(f, n, suffix)]
BY DEF WithCell, Extended

LEMMA ExtendedIsLine ==
  ASSUME NEW i \in 1 .. MaxRows, NEW f, DOMAIN f \subseteq Names,
         \A c \in DOMAIN f : f[c] \in 1 .. MaxRows,
         NEW n \in 1 .. MaxRows, NEW suffix \in Names
  PROVE  [index |-> i, cells |-> Extended(f, n, suffix)] \in Line
<1>1. Extended(f, n, suffix) \in [(DOMAIN f) \cup {suffix} -> 1 .. MaxRows]
  BY DEF Extended
<1>2. (DOMAIN f) \cup {suffix} \in SUBSET Names
  OBVIOUS
<1> QED BY <1>1, <1>2 DEF Line

LEMMA NothingInCells == DOMAIN <<>> = {}
OBVIOUS

LEMMA LineFields ==
  ASSUME NEW line \in Line
  PROVE  /\ line = [index |-> line.index, cells |-> line.cells]
         /\ line.index \in 1 .. MaxRows
         /\ (DOMAIN line.cells) \in SUBSET Names
         /\ \A c \in DOMAIN line.cells : line.cells[c] \in 1 .. MaxRows
         /\ line # NoLine
<1>1. /\ line = [index |-> line.index, cells |-> line.cells]
      /\ line.index \in 1 .. MaxRows
      /\ line.cells \in UNION {[S -> 1 .. MaxRows] : S \in SUBSET Names}
  BY DEF Line
<1>2. PICK S \in SUBSET Names : line.cells \in [S -> 1 .. MaxRows]
  BY <1>1
<1>3. line.index # 0
  BY <1>1, RowsAssumption
<1> QED BY <1>1, <1>2, <1>3 DEF NoLine

LEMMA StreamMade ==
  ASSUME NEW l \in Line \cup {NoLine}, NEW n \in Nat, NEW f \in Seq(Line)
  PROVE  [line |-> l, total |-> n, file |-> f] \in Streams
BY DEF Streams

LEMMA LinesOfFile ==
  ASSUME NEW s \in Streams, NEW l \in DOMAIN s.file
  PROVE  s.file[l] \in Line /\ s.file[l].index \in 1 .. MaxRows /\ s.file[l].index \in Int
<1>1. s.file \in Seq(Line)
  BY DEF Streams
<1>2. s.file[l] \in Line
  BY <1>1
<1> QED BY <1>2, LineFields

\* A row adds a cell of its own index, or replaces the cell of its name.
LEMMA SameLine ==
  ASSUME NEW rs \in Seq(Row), NEW row \in Row, NEW i, NEW f, NEW n,
         n = Len(rs) + 1,
         suffixOf[row.group] \in Names, i = row.index,
         Right(rs, [index |-> i, cells |-> f])
  PROVE  Right(Append(rs, row),
               WithCell([index |-> i, cells |-> f], n, suffixOf[row.group]))
<1> DEFINE name == suffixOf[row.group]
           g == Extended(f, n, name)
           as == Append(rs, row)
<1>1. WithCell([index |-> i, cells |-> f], n, name) = [index |-> i, cells |-> g]
  BY CellAdded
<1>2. \A c \in Names : c # name => CellRows(as, i, c) = CellRows(rs, i, c)
  BY CellRowsAppended
<1>3. CellRows(as, i, name) = CellRows(rs, i, name) \cup {n}
  BY CellRowsAppended
<1>4. \A m \in CellRows(rs, i, name) : m <= n
  BY DEF CellRows
<1>5. n \in Nat
  OBVIOUS
<1>6. /\ DOMAIN g = (DOMAIN f) \cup {name}
      /\ g[name] = n
      /\ \A c \in DOMAIN f : c # name => g[c] = f[c]
  BY DEF Extended
<1> HIDE DEF name, g, as
<1> SUFFICES Right(as, [index |-> i, cells |-> g])
  BY <1>1 DEF name, as
<1> SUFFICES ASSUME NEW c \in Names
             PROVE  /\ c \in DOMAIN g <=> CellRows(as, i, c) # {}
                    /\ c \in DOMAIN g =>
                         /\ g[c] \in CellRows(as, i, c)
                         /\ \A m \in CellRows(as, i, c) : m <= g[c]
  BY DEF Right
<1>7. /\ c \in DOMAIN f <=> CellRows(rs, i, c) # {}
      /\ c \in DOMAIN f =>
           /\ f[c] \in CellRows(rs, i, c)
           /\ \A m \in CellRows(rs, i, c) : m <= f[c]
  BY DEF Right
<1>8. CASE c = name
  <2>1. /\ name \in DOMAIN g
        /\ g[name] \in CellRows(as, i, name)
    BY <1>3, <1>6
  <2>2. \A m \in CellRows(as, i, name) : m <= g[name]
    <3>1. \A m \in CellRows(as, i, name) : m \in CellRows(rs, i, name) \/ m = n
      BY <1>3
    <3>2. n <= n
      BY <1>5
    <3> QED BY <1>4, <1>6, <3>1, <3>2
  <2> QED BY <1>8, <2>1, <2>2
<1>9. CASE c # name
  BY <1>2, <1>6, <1>7, <1>9
<1> QED BY <1>8, <1>9

\* An empty line is right as long as no row has its index.
LEMMA EmptyLine ==
  ASSUME NEW rs \in Seq(Row), NEW i, \A n \in DOMAIN rs : rs[n].index # i
  PROVE  Right(rs, [index |-> i, cells |-> <<>>])
BY NothingInCells DEF Right, CellRows

-----------------------------------------------------------------------------
(* A stream while its rows come. *)

PivotRight(rs, s) ==
    /\ s.total = Len(s.file)
    /\ rs = <<>> => s.line = NoLine /\ s.file = <<>>
    /\ rs # <<>> =>
         /\ s.line \in Line
         /\ s.line.index = rs[Len(rs)].index
         /\ Right(rs, s.line)
         /\ Len(s.file) + 1 <= Len(rs)
    /\ \A n \in DOMAIN rs :
         /\ rs[n].index <= s.line.index
         /\ rs[n].index = s.line.index \/ \E l \in DOMAIN s.file : s.file[l].index = rs[n].index
    /\ \A l \in DOMAIN s.file :
         /\ s.file[l].index < s.line.index
         /\ Right(rs, s.file[l])
         /\ \E n \in DOMAIN rs : rs[n].index = s.file[l].index
    /\ \A l, m \in DOMAIN s.file : l < m => s.file[l].index < s.file[m].index

PlainRight(rs, s) ==
    /\ s.line = NoLine /\ s.total = 0
    /\ Len(s.file) = Len(rs)
    /\ \A n \in DOMAIN rs : rs[n].index = n
    /\ \A l \in DOMAIN s.file : s.file[l].index = l

LEMMA Appended ==
  ASSUME NEW S, NEW s \in Seq(S), NEW e \in S
  PROVE  /\ Append(s, e) \in Seq(S)
         /\ Append(s, e) # <<>>
         /\ Len(Append(s, e)) = Len(s) + 1
         /\ DOMAIN Append(s, e) = (DOMAIN s) \cup {Len(s) + 1}
         /\ Append(s, e)[Len(s) + 1] = e
         /\ \A n \in DOMAIN s : n # Len(s) + 1 /\ n < Len(s) + 1 /\ Append(s, e)[n] = s[n]
OBVIOUS

LEMMA LineWithCell ==
  ASSUME NEW i \in 1 .. MaxRows, NEW f, DOMAIN f \subseteq Names,
         \A c \in DOMAIN f : f[c] \in 1 .. MaxRows,
         NEW n \in 1 .. MaxRows, NEW suffix \in Names
  PROVE  /\ WithCell([index |-> i, cells |-> f], n, suffix) \in Line
         /\ WithCell([index |-> i, cells |-> f], n, suffix).index = i
<1>1. WithCell([index |-> i, cells |-> f], n, suffix)
        = [index |-> i, cells |-> Extended(f, n, suffix)]
  BY CellAdded
<1>2. [index |-> i, cells |-> Extended(f, n, suffix)] \in Line
  BY ExtendedIsLine
<1> QED BY <1>1, <1>2

\* A row of the index that is being made.
LEMMA PivotSameIndex ==
  ASSUME NEW rs \in Seq(Row), NEW row \in Row, row.group \in Groups,
         NEW s \in Streams, PivotRight(rs, s), Len(rs) < MaxRows,
         s.line.index = row.index
  PROVE  LET t == [s EXCEPT !.line = WithCell(s.line, Len(rs) + 1, suffixOf[row.group])]
         IN  t \in Streams /\ PivotRight(Append(rs, row), t)
<1> DEFINE name == suffixOf[row.group]
           new == WithCell(s.line, Len(rs) + 1, name)
           t == [s EXCEPT !.line = new]
           as == Append(rs, row)
<1>1. name \in Names
  BY GroupsAssumption
<1>2. rs # <<>>
  BY RowsAssumption DEF PivotRight, NoLine, Row
<1>3. /\ s.line \in Line /\ s.line = [index |-> s.line.index, cells |-> s.line.cells]
      /\ s.line.index \in 1 .. MaxRows
      /\ DOMAIN s.line.cells \subseteq Names
      /\ \A c \in DOMAIN s.line.cells : s.line.cells[c] \in 1 .. MaxRows
  BY <1>2, LineFields DEF PivotRight
<1>4. Len(rs) + 1 \in 1 .. MaxRows
  BY RowsAssumption
<1>5. new \in Line /\ new.index = s.line.index
  <2>1. /\ WithCell([index |-> s.line.index, cells |-> s.line.cells], Len(rs) + 1, name) \in Line
        /\ WithCell([index |-> s.line.index, cells |-> s.line.cells], Len(rs) + 1, name).index
             = s.line.index
    BY <1>1, <1>3, <1>4, LineWithCell
  <2> QED BY <1>3, <2>1
<1>6. Right(as, new)
  <2>1. Right(rs, [index |-> s.line.index, cells |-> s.line.cells])
    BY <1>2, <1>3 DEF PivotRight
  <2>2. Right(as, WithCell([index |-> s.line.index, cells |-> s.line.cells], Len(rs) + 1, name))
    BY <1>1, <2>1, SameLine
  <2> QED BY <1>3, <2>2
<1>7. \A l \in DOMAIN s.file : Right(as, s.file[l])
  <2> SUFFICES ASSUME NEW l \in DOMAIN s.file PROVE Right(as, s.file[l])
    OBVIOUS
  <2>1. s.file[l].index # row.index
    <3>1. s.file[l].index < s.line.index
      BY DEF PivotRight
    <3>2. s.file[l].index \in Int
      BY LinesOfFile
    <3> QED BY <1>3, <3>1, <3>2
  <2>2. Right(rs, s.file[l])
    BY DEF PivotRight
  <2> QED BY <2>1, <2>2, OtherLine
<1>8. /\ t.line = new /\ t.file = s.file /\ t.total = s.total
      /\ t \in Streams
  BY <1>5 DEF Streams
<1>9. /\ as # <<>> /\ Len(as) = Len(rs) + 1
      /\ DOMAIN as = (DOMAIN rs) \cup {Len(rs) + 1}
      /\ as[Len(rs) + 1] = row
      /\ \A n \in DOMAIN rs : as[n] = rs[n]
  BY Appended
<1> HIDE DEF name, new, t, as
<1>10. PivotRight(as, t)
  <2>1. t.total = Len(t.file)
    BY <1>8 DEF PivotRight
  <2>2. /\ t.line \in Line
        /\ t.line.index = as[Len(as)].index
        /\ Right(as, t.line)
    BY <1>5, <1>6, <1>8, <1>9
  <2>3. Len(t.file) + 1 <= Len(as)
    BY <1>2, <1>8, <1>9 DEF PivotRight, Streams
  <2>4. \A n \in DOMAIN as :
          /\ as[n].index <= t.line.index
          /\ as[n].index = t.line.index \/ \E l \in DOMAIN t.file : t.file[l].index = as[n].index
    <3>1. \A n \in DOMAIN rs :
            /\ rs[n].index <= s.line.index
            /\ rs[n].index = s.line.index \/ \E l \in DOMAIN s.file : s.file[l].index = rs[n].index
      BY DEF PivotRight
    <3>2. row.index <= s.line.index
      BY <1>3
    <3> QED BY <1>5, <1>8, <1>9, <3>1, <3>2
  <2>5. \A l \in DOMAIN t.file :
         /\ t.file[l].index < t.line.index
         /\ Right(as, t.file[l])
         /\ \E n \in DOMAIN as : as[n].index = t.file[l].index
    <3>1. \A l \in DOMAIN s.file :
           /\ s.file[l].index < s.line.index
           /\ \E n \in DOMAIN rs : rs[n].index = s.file[l].index
      BY DEF PivotRight
    <3> QED BY <1>5, <1>7, <1>8, <1>9, <3>1
  <2>6. \A l, m \in DOMAIN t.file : l < m => t.file[l].index < t.file[m].index
    BY <1>8 DEF PivotRight
  <2> QED BY <1>9, <2>1, <2>2, <2>3, <2>4, <2>5, <2>6 DEF PivotRight
<1> QED BY <1>8, <1>10 DEF name, new, t, as

\* The first row, or the first of a new index: line is what is in the file in the end.
LEMMA PivotNewIndex ==
  ASSUME NEW rs \in Seq(Row), NEW row \in Row, row.group \in Groups,
         NEW s \in Streams, PivotRight(rs, s), Len(rs) < MaxRows,
         s.line.index # row.index,
         rs # <<>> => rs[Len(rs)].index <= row.index,
         NEW t,
         t = [Flushed(s) EXCEPT !.line =
                WithCell([index |-> row.index, cells |-> <<>>], Len(rs) + 1, suffixOf[row.group])]
  PROVE  t \in Streams /\ PivotRight(Append(rs, row), t)
<1> DEFINE name == suffixOf[row.group]
           new == WithCell([index |-> row.index, cells |-> <<>>], Len(rs) + 1, name)
           as == Append(rs, row)
<1>1. name \in Names
  BY GroupsAssumption
<1>2. row.index \in 1 .. MaxRows /\ Len(rs) + 1 \in 1 .. MaxRows
  BY RowsAssumption DEF Row
<1>3. new \in Line /\ new.index = row.index
  BY <1>1, <1>2, NothingInCells, LineWithCell
<1>4. \A n \in DOMAIN rs : rs[n].index \in Int /\ rs[n].index < row.index
  <2> SUFFICES ASSUME NEW n \in DOMAIN rs PROVE rs[n].index \in Int /\ rs[n].index < row.index
    OBVIOUS
  <2>1. rs # <<>> /\ rs[n] \in Row
    OBVIOUS
  <2>2. rs[n].index <= s.line.index /\ s.line.index = rs[Len(rs)].index /\ s.line \in Line
    BY <2>1 DEF PivotRight
  <2>3. s.line.index <= row.index
    BY <2>1, <2>2
  <2>4. s.line.index \in Int /\ rs[n].index \in Int
    BY <2>1, <2>2 DEF Line, Row
  <2> QED BY <1>2, <2>2, <2>3, <2>4
<1>5. Right(as, new)
  <2>1. Right(rs, [index |-> row.index, cells |-> <<>>])
    BY <1>2, <1>4, EmptyLine
  <2> QED BY <1>1, <2>1, SameLine
<1>6. /\ as # <<>> /\ Len(as) = Len(rs) + 1
      /\ DOMAIN as = (DOMAIN rs) \cup {Len(rs) + 1}
      /\ as[Len(rs) + 1] = row
      /\ \A n \in DOMAIN rs : as[n] = rs[n]
  BY Appended
<1>7. CASE rs = <<>>
  <2>1. s.line = NoLine /\ s.file = <<>> /\ s.total = 0
    BY <1>7 DEF PivotRight
  <2>2. Flushed(s) = s
    BY <2>1 DEF Flushed
  <2>3. t.line = new /\ t.file = <<>> /\ t.total = 0 /\ t \in Streams
    BY <1>3, <2>1, <2>2 DEF Streams
  <2>4. \A n \in DOMAIN as : as[n] = row
    BY <1>6, <1>7
  <2> HIDE DEF name, new, as
  <2>5. DOMAIN t.file = {} /\ Len(t.file) = 0 /\ Len(as) = 1 /\ as[Len(as)] = row
    BY <1>6, <1>7, <2>3
  <2>6. row.index <= row.index
    BY <1>2
  <2>7. PivotRight(as, t)
    <3>1. /\ t.line \in Line /\ t.line.index = as[Len(as)].index
          /\ Right(as, t.line) /\ Len(t.file) + 1 <= Len(as)
      <4>1. t.line \in Line /\ t.line.index = as[Len(as)].index
        BY <1>3, <2>3, <2>5
      <4>2. Right(as, t.line)
        BY <1>5, <2>3
      <4>3. Len(t.file) + 1 <= Len(as)
        BY <2>5
      <4> QED BY <4>1, <4>2, <4>3
    <3>2. \A n \in DOMAIN as : as[n].index <= t.line.index /\ as[n].index = t.line.index
      BY <1>3, <2>3, <2>4, <2>6
    <3>3. t.total = Len(t.file)
      BY <2>3, <2>5
    <3> QED BY <1>6, <2>5, <3>1, <3>2, <3>3 DEF PivotRight
  <2> QED BY <2>3, <2>7 DEF as
<1>8. CASE rs # <<>>
  <2> DEFINE fs == Append(s.file, s.line)
  <2>1. /\ s.line \in Line /\ s.line.index = rs[Len(rs)].index
        /\ Right(rs, s.line)
        /\ s.file \in Seq(Line) /\ s.total = Len(s.file)
    BY <1>8 DEF PivotRight, Streams
  <2>2. s.line # NoLine
    BY <2>1, LineFields
  <2>3. Flushed(s) = [s EXCEPT !.total = @ + 1, !.file = fs]
    BY <2>2 DEF Flushed
  <2>4. /\ fs \in Seq(Line) /\ Len(fs) = Len(s.file) + 1
        /\ DOMAIN fs = (DOMAIN s.file) \cup {Len(s.file) + 1}
        /\ fs[Len(s.file) + 1] = s.line
        /\ \A l \in DOMAIN s.file : l < Len(s.file) + 1 /\ fs[l] = s.file[l]
    BY <2>1, Appended
  <2>5. t.line = new /\ t.file = fs /\ t.total = s.total + 1 /\ t \in Streams
    <3> HIDE DEF new, fs
    <3>1. s = [line |-> s.line, total |-> s.total, file |-> s.file] /\ s.total \in Nat
      BY DEF Streams
    <3>2. Flushed(s) = [line |-> s.line, total |-> s.total + 1, file |-> fs]
      BY <2>3, <3>1
    <3>3. t = [Flushed(s) EXCEPT !.line = new]
      BY DEF new
    <3>4. t = [line |-> new, total |-> s.total + 1, file |-> fs]
      BY <3>2, <3>3
    <3>5. t.line = new /\ t.file = fs /\ t.total = s.total + 1
      BY <3>4
    <3>6. s.total + 1 \in Nat /\ new \in Line \cup {NoLine} /\ fs \in Seq(Line)
      BY <1>3, <2>4, <3>1
    <3>7. t \in Streams
      <4>1. [line |-> new, total |-> s.total + 1, file |-> fs] \in Streams
        BY <3>6, StreamMade
      <4> QED BY <3>4, <4>1
    <3> QED BY <3>5, <3>7
  <2> HIDE DEF name, new, as, fs
  <2>6. Len(rs) \in DOMAIN rs
    BY <1>8
  <2>7. s.line.index < row.index
    BY <1>4, <2>1, <2>6
  <2>8. \A l \in DOMAIN fs : Right(rs, fs[l]) /\ fs[l].index < row.index
    <3>1. \A l \in DOMAIN s.file : Right(rs, s.file[l]) /\ s.file[l].index < row.index
      <4> SUFFICES ASSUME NEW l \in DOMAIN s.file
                   PROVE  Right(rs, s.file[l]) /\ s.file[l].index < row.index
        OBVIOUS
      <4>1. Right(rs, s.file[l]) /\ s.file[l].index < s.line.index
        BY DEF PivotRight
      <4>2. s.file[l].index \in Int /\ s.line.index \in Int
        BY <2>1, LinesOfFile, LineFields
      <4> QED BY <1>2, <2>7, <4>1, <4>2
    <3> QED BY <2>1, <2>4, <2>7, <3>1
  <2>9. \A l \in DOMAIN fs : Right(as, fs[l])
    <3> SUFFICES ASSUME NEW l \in DOMAIN fs PROVE Right(as, fs[l])
      OBVIOUS
    <3>1. fs[l].index # row.index
      BY <1>2, <2>4, <2>8 DEF Line
    <3> QED BY <2>8, <3>1, OtherLine DEF as
  <2>10. \A l \in DOMAIN fs : \E n \in DOMAIN as : as[n].index = fs[l].index
    <3>1. \A l \in DOMAIN s.file : \E n \in DOMAIN rs : rs[n].index = s.file[l].index
      BY DEF PivotRight
    <3>2. \A l \in DOMAIN s.file : \E n \in DOMAIN as : as[n].index = s.file[l].index
      BY <1>6, <3>1
    <3>3. \E n \in DOMAIN as : as[n].index = s.line.index
      BY <1>6, <2>1, <2>6
    <3> QED BY <2>4, <3>2, <3>3
  <2>11. \A n \in DOMAIN as :
           /\ as[n].index <= row.index
           /\ as[n].index = row.index \/ \E l \in DOMAIN fs : fs[l].index = as[n].index
    <3>1. \A n \in DOMAIN rs :
            rs[n].index = s.line.index \/ \E l \in DOMAIN s.file : s.file[l].index = rs[n].index
      BY DEF PivotRight
    <3>2. \A n \in DOMAIN rs : \E l \in DOMAIN fs : fs[l].index = rs[n].index
      BY <2>4, <3>1
    <3>3. \A n \in DOMAIN rs : rs[n].index <= row.index
      BY <1>2, <1>4
    <3>4. row.index <= row.index
      BY <1>2
    <3> QED BY <1>6, <3>2, <3>3, <3>4
  <2>12. \A l, m \in DOMAIN fs : l < m => fs[l].index < fs[m].index
    <3>1. \A l, m \in DOMAIN s.file : l < m => s.file[l].index < s.file[m].index
      BY DEF PivotRight
    <3>2. \A l \in DOMAIN s.file : s.file[l].index < s.line.index
      BY DEF PivotRight
    <3>3. Len(s.file) \in Nat /\ \A l \in DOMAIN s.file : ~(Len(s.file) + 1 < l)
      BY <2>1
    <3> QED BY <2>4, <3>1, <3>2, <3>3
  <2>13. Len(fs) + 1 <= Len(as)
    BY <1>6, <1>8, <2>1, <2>4 DEF PivotRight
  <2>14. t.total = Len(t.file)
    BY <2>1, <2>4, <2>5
  <2>15. PivotRight(as, t)
    <3>1. t.line = new /\ t.file = fs /\ new.index = row.index
      BY <1>3, <2>5
    <3>2. t.line \in Line /\ t.line.index = as[Len(as)].index /\ Right(as, t.line)
      BY <1>3, <1>5, <1>6, <3>1
    <3>3. Len(t.file) + 1 <= Len(as)
      BY <2>13, <3>1
    <3>4. \A n \in DOMAIN as :
            /\ as[n].index <= t.line.index
            /\ as[n].index = t.line.index \/ \E l \in DOMAIN t.file : t.file[l].index = as[n].index
      BY <2>11, <3>1
    <3>5. \A l \in DOMAIN t.file :
            /\ t.file[l].index < t.line.index
            /\ Right(as, t.file[l])
            /\ \E n \in DOMAIN as : as[n].index = t.file[l].index
      BY <2>8, <2>9, <2>10, <3>1
    <3>6. \A l, m \in DOMAIN t.file : l < m => t.file[l].index < t.file[m].index
      BY <2>12, <3>1
    <3> QED BY <1>6, <2>14, <3>2, <3>3, <3>4, <3>5, <3>6 DEF PivotRight
  <2> QED BY <2>5, <2>15 DEF as
<1> QED BY <1>7, <1>8

-----------------------------------------------------------------------------
(* A file when its rows have come. *)

FileDone(rs, k, s, total) ==
    /\ \A l, m \in DOMAIN s.file : l < m => s.file[l].index < s.file[m].index
    /\ \A l \in DOMAIN s.file : \E n \in DOMAIN rs : rs[n].index = s.file[l].index
    /\ \A n \in DOMAIN rs : \E l \in DOMAIN s.file : s.file[l].index = rs[n].index
    /\ k = "pivot" => \A l \in DOMAIN s.file : Right(rs, s.file[l])
    /\ k # "ungrouped" => total = Len(s.file)

LEMMA FileDoneIsRight ==
  FileIsRight <=> \A q \in Queries : answer[q].status = "ready" =>
                    FileDone(rows[q], kind[q], stream[q], answer[q].total)
<1> SUFFICES ASSUME NEW q \in Queries
             PROVE  LET file == stream[q].file
                    IN  (/\ \A l, m \in DOMAIN file : l < m => file[l].index < file[m].index
                         /\ {file[l].index : l \in DOMAIN file}
                              = {rows[q][n].index : n \in DOMAIN rows[q]}
                         /\ kind[q] = "pivot" => \A l \in DOMAIN file : LineIsRight(q, file[l])
                         /\ kind[q] # "ungrouped" => answer[q].total = Len(file))
                        <=> FileDone(rows[q], kind[q], stream[q], answer[q].total)
  BY DEF FileIsRight
<1> DEFINE file == stream[q].file
<1>1. (\A l \in DOMAIN file : LineIsRight(q, file[l]))
        <=> \A l \in DOMAIN file : Right(rows[q], file[l])
  BY RightIsLineIsRight
<1>2. ({file[l].index : l \in DOMAIN file} = {rows[q][n].index : n \in DOMAIN rows[q]})
        <=> /\ \A l \in DOMAIN file : \E n \in DOMAIN rows[q] : rows[q][n].index = file[l].index
            /\ \A n \in DOMAIN rows[q] : \E l \in DOMAIN file : file[l].index = rows[q][n].index
  <2> DEFINE lines == {file[l].index : l \in DOMAIN file}
             sent == {rows[q][n].index : n \in DOMAIN rows[q]}
  <2>1. \A l \in DOMAIN file : file[l].index \in lines
    OBVIOUS
  <2>2. \A n \in DOMAIN rows[q] : rows[q][n].index \in sent
    OBVIOUS
  <2>3. \A x \in lines : \E l \in DOMAIN file : x = file[l].index
    OBVIOUS
  <2>4. \A x \in sent : \E n \in DOMAIN rows[q] : x = rows[q][n].index
    OBVIOUS
  <2>5. lines = sent <=> (\A x \in lines : x \in sent) /\ (\A x \in sent : x \in lines)
    OBVIOUS
  <2> HIDE DEF lines, sent
  <2>6. (\A x \in lines : x \in sent)
          <=> \A l \in DOMAIN file : \E n \in DOMAIN rows[q] : rows[q][n].index = file[l].index
    BY <2>1, <2>2, <2>3, <2>4
  <2>7. (\A x \in sent : x \in lines)
          <=> \A n \in DOMAIN rows[q] : \E l \in DOMAIN file : file[l].index = rows[q][n].index
    BY <2>1, <2>2, <2>3, <2>4
  <2> QED BY <2>5, <2>6, <2>7 DEF lines, sent
<1> QED BY <1>1, <1>2 DEF FileDone

\* A pivot writes its last line when the stream has ended.
LEMMA PivotDone ==
  ASSUME NEW rs \in Seq(Row), NEW s \in Streams, PivotRight(rs, s), Len(rs) <= MaxRows
  PROVE  /\ Flushed(s) \in Streams
         /\ Flushed(s).total \in Nat /\ Flushed(s).total <= MaxRows
         /\ FileDone(rs, "pivot", Flushed(s), Flushed(s).total)
<1>1. CASE rs = <<>>
  <2>1. s.line = NoLine /\ s.file = <<>> /\ s.total = 0
    BY <1>1 DEF PivotRight
  <2>2. Flushed(s) = s
    BY <2>1 DEF Flushed
  <2>3. DOMAIN s.file = {} /\ DOMAIN rs = {} /\ Len(s.file) = 0
    BY <1>1, <2>1
  <2>4. FileDone(rs, "pivot", s, s.total)
    BY <2>1, <2>3 DEF FileDone
  <2> QED BY <2>1, <2>2, <2>4, RowsAssumption
<1>2. CASE rs # <<>>
  <2> DEFINE fs == Append(s.file, s.line)
  <2>1. /\ s.line \in Line /\ s.line.index = rs[Len(rs)].index
        /\ Right(rs, s.line)
        /\ s.file \in Seq(Line) /\ s.total = Len(s.file)
        /\ Len(s.file) + 1 <= Len(rs)
    BY <1>2 DEF PivotRight, Streams
  <2>2. s.line # NoLine
    BY <2>1, LineFields
  <2>3. Flushed(s) = [line |-> s.line, total |-> s.total + 1, file |-> fs]
    <3>1. s = [line |-> s.line, total |-> s.total, file |-> s.file] /\ s.total \in Nat
      BY DEF Streams
    <3> QED BY <2>2, <3>1 DEF Flushed
  <2>4. /\ fs \in Seq(Line) /\ Len(fs) = Len(s.file) + 1
        /\ DOMAIN fs = (DOMAIN s.file) \cup {Len(s.file) + 1}
        /\ fs[Len(s.file) + 1] = s.line
        /\ \A l \in DOMAIN s.file : l < Len(s.file) + 1 /\ fs[l] = s.file[l]
    BY <2>1, Appended
  <2> HIDE DEF fs
  <2>5. Len(rs) \in DOMAIN rs
    BY <1>2
  <2>6. /\ Flushed(s).file = fs /\ Flushed(s).total = Len(fs)
        /\ s.total + 1 \in Nat /\ s.total + 1 <= MaxRows
    BY <2>1, <2>3, <2>4, RowsAssumption
  <2>7. Flushed(s) \in Streams
    BY <2>1, <2>3, <2>4, <2>6, StreamMade
  <2>8. \A l, m \in DOMAIN fs : l < m => fs[l].index < fs[m].index
    <3>1. \A l, m \in DOMAIN s.file : l < m => s.file[l].index < s.file[m].index
      BY DEF PivotRight
    <3>2. \A l \in DOMAIN s.file : s.file[l].index < s.line.index
      BY DEF PivotRight
    <3>3. Len(s.file) \in Nat /\ \A l \in DOMAIN s.file : ~(Len(s.file) + 1 < l)
      BY <2>1
    <3> QED BY <2>4, <3>1, <3>2, <3>3
  <2>9. \A l \in DOMAIN fs : Right(rs, fs[l]) /\ \E n \in DOMAIN rs : rs[n].index = fs[l].index
    <3>1. \A l \in DOMAIN s.file :
            Right(rs, s.file[l]) /\ \E n \in DOMAIN rs : rs[n].index = s.file[l].index
      BY DEF PivotRight
    <3>2. \E n \in DOMAIN rs : rs[n].index = s.line.index
      BY <2>1, <2>5
    <3> QED BY <2>1, <2>4, <3>1, <3>2
  <2>10. \A n \in DOMAIN rs : \E l \in DOMAIN fs : fs[l].index = rs[n].index
    <3>1. \A n \in DOMAIN rs :
            rs[n].index = s.line.index \/ \E l \in DOMAIN s.file : s.file[l].index = rs[n].index
      BY DEF PivotRight
    <3> QED BY <2>4, <3>1
  <2>11. FileDone(rs, "pivot", Flushed(s), Flushed(s).total)
    BY <2>6, <2>8, <2>9, <2>10 DEF FileDone
  <2> QED BY <2>3, <2>6, <2>7, <2>11
<1> QED BY <1>1, <1>2

\* Anything else has written its rows already.
LEMMA PlainDone ==
  ASSUME NEW rs \in Seq(Row), NEW s \in Streams, PlainRight(rs, s), Len(rs) <= MaxRows
  PROVE  /\ Flushed(s) = s /\ s.total = 0
         /\ FileDone(rs, "plain", s, Len(rs))
         /\ FileDone(rs, "ungrouped", s, 0)
<1>1. Flushed(s) = s /\ s.total = 0
  BY DEF PlainRight, Flushed
<1>2. /\ Len(s.file) = Len(rs)
      /\ \A n \in DOMAIN rs : rs[n].index = n
      /\ \A l \in DOMAIN s.file : s.file[l].index = l
  BY DEF PlainRight
<1>3. DOMAIN s.file = DOMAIN rs
  <2>1. s.file \in Seq(Line)
    BY DEF Streams
  <2> QED BY <1>2, <2>1
<1> QED BY <1>1, <1>2, <1>3 DEF FileDone

\* A row of a query that is not pivoted is a line of its own.
LEMMA PlainRow ==
  ASSUME NEW rs \in Seq(Row), NEW s \in Streams, PlainRight(rs, s), Len(rs) < MaxRows,
         NEW row \in Row, row.index = Len(rs) + 1,
         NEW t, t = [s EXCEPT !.file = Append(@, [index |-> row.index, cells |-> <<>>])]
  PROVE  t \in Streams /\ PlainRight(Append(rs, row), t)
<1> DEFINE line == [index |-> row.index, cells |-> <<>>]
           fs == Append(s.file, line)
           as == Append(rs, row)
<1>1. line \in Line /\ line.index = Len(rs) + 1
  <2>1. <<>> \in [{} -> 1 .. MaxRows] /\ {} \in SUBSET Names
    OBVIOUS
  <2>2. row.index \in 1 .. MaxRows
    BY DEF Row
  <2> QED BY <2>1, <2>2 DEF Line
<1>2. s = [line |-> s.line, total |-> s.total, file |-> s.file] /\ s.file \in Seq(Line)
  BY DEF Streams
<1>3. s.line = NoLine /\ s.total = 0 /\ Len(s.file) = Len(rs)
  BY DEF PlainRight
<1>4. t = [line |-> NoLine, total |-> 0, file |-> fs]
  BY <1>2, <1>3
<1>5. /\ fs \in Seq(Line) /\ Len(fs) = Len(s.file) + 1
      /\ DOMAIN fs = (DOMAIN s.file) \cup {Len(s.file) + 1}
      /\ fs[Len(s.file) + 1] = line
      /\ \A l \in DOMAIN s.file : fs[l] = s.file[l]
  BY <1>1, <1>2, Appended
<1>6. /\ Len(as) = Len(rs) + 1
      /\ DOMAIN as = (DOMAIN rs) \cup {Len(rs) + 1}
      /\ as[Len(rs) + 1] = row
      /\ \A n \in DOMAIN rs : as[n] = rs[n]
  BY Appended
<1> HIDE DEF line, fs, as
<1>7. t \in Streams
  <2>1. [line |-> NoLine, total |-> 0, file |-> fs] \in Streams
    BY <1>5, StreamMade
  <2> QED BY <1>4, <2>1
<1>8. \A n \in DOMAIN as : as[n].index = n
  BY <1>6 DEF PlainRight
<1>9. \A l \in DOMAIN fs : fs[l].index = l
  BY <1>1, <1>3, <1>5 DEF PlainRight
<1>10. t.line = NoLine /\ t.total = 0 /\ t.file = fs
  BY <1>4
<1>11. PlainRight(as, t)
  BY <1>3, <1>5, <1>6, <1>8, <1>9, <1>10 DEF PlainRight
<1> QED BY <1>7, <1>11 DEF as

-----------------------------------------------------------------------------
(* All queries. *)

Bounded == \A q \in Queries : Len(rows[q]) <= MaxRows /\ answer[q].total <= MaxRows

StreamsRight ==
    \A q \in Queries : answer[q].status = "pending" =>
        IF kind[q] = "pivot" THEN PivotRight(rows[q], stream[q]) ELSE PlainRight(rows[q], stream[q])

FilesDone ==
    \A q \in Queries : answer[q].status = "ready" =>
        FileDone(rows[q], kind[q], stream[q], answer[q].total)

RowInv == RowsTypeOK /\ Bounded /\ StreamsRight /\ FilesDone

LEMMA NoStream ==
  /\ [line |-> NoLine, total |-> 0, file |-> <<>>] \in Streams
  /\ PivotRight(<<>>, [line |-> NoLine, total |-> 0, file |-> <<>>])
  /\ PlainRight(<<>>, [line |-> NoLine, total |-> 0, file |-> <<>>])
<1> DEFINE s == [line |-> NoLine, total |-> 0, file |-> <<>>]
<1>1. s.line = NoLine /\ s.total = 0 /\ s.file = <<>> /\ s \in Streams
  BY DEF Streams
<1>2. DOMAIN <<>> = {} /\ Len(<<>>) = 0
  OBVIOUS
<1> HIDE DEF s
<1>3. PivotRight(<<>>, s) /\ PlainRight(<<>>, s)
  BY <1>1, <1>2 DEF PivotRight, PlainRight
<1> QED BY <1>1, <1>3 DEF s

LEMMA InitRows == RowsInit => RowInv
<1> SUFFICES ASSUME RowsInit PROVE RowInv
  OBVIOUS
<1> USE DEF RowsInit
<1>1. RowsTypeOK
  <2>1. kind \in [Queries -> Kinds]
    BY RowsAssumption
  <2>2. rows \in [Queries -> Seq(Row)]
    OBVIOUS
  <2>3. stream \in [Queries -> Streams]
    BY NoStream
  <2>4. answer \in [Queries -> [status : Statuses, total : Nat]]
    BY DEF Statuses
  <2> QED BY <2>1, <2>2, <2>3, <2>4 DEF RowsTypeOK
<1>2. Bounded
  <2>1. Len(<<>>) = 0 /\ 0 <= MaxRows
    BY RowsAssumption
  <2>2. ASSUME NEW q \in Queries PROVE rows[q] = <<>> /\ answer[q].total = 0
    OBVIOUS
  <2> QED BY <2>1, <2>2 DEF Bounded
<1>3. StreamsRight
  BY NoStream DEF StreamsRight
<1>4. FilesDone
  BY DEF FilesDone
<1> QED BY <1>1, <1>2, <1>3, <1>4 DEF RowInv

LEMMA NextRow ==
  ASSUME RowsTypeOK, NEW q \in Queries, Len(rows[q]) < MaxRows, NEW row \in NextRows(q)
  PROVE  /\ row \in Row
         /\ kind[q] = "pivot" =>
              /\ row.group \in Groups
              /\ rows[q] # <<>> => rows[q][Len(rows[q])].index <= row.index
         /\ kind[q] # "pivot" => row.index = Len(rows[q]) + 1
<1>1. rows[q] \in Seq(Row)
  BY DEF RowsTypeOK
<1>2. CASE kind[q] = "pivot"
  <2> DEFINE last == IF rows[q] = <<>> THEN 1 ELSE rows[q][Len(rows[q])].index
  <2>1. last \in 1 .. MaxRows
    <3>1. CASE rows[q] = <<>>
      BY <3>1, RowsAssumption
    <3>2. CASE rows[q] # <<>>
      <4>1. rows[q][Len(rows[q])] \in Row
        BY <1>1, <3>2
      <4>2. rows[q][Len(rows[q])].index \in 1 .. MaxRows
        BY <4>1 DEF Row
      <4> QED BY <3>2, <4>2
    <3> QED BY <3>1, <3>2
  <2>2. row \in [index : last .. MaxRows, group : Groups]
    BY <1>2 DEF NextRows
  <2> HIDE DEF last
  <2>3. row = [index |-> row.index, group |-> row.group]
        /\ row.index \in last .. MaxRows /\ row.group \in Groups
    BY <2>2
  <2>4. row.index \in 1 .. MaxRows /\ last <= row.index
    BY <2>1, <2>3, RowsAssumption
  <2>5. row \in Row
    BY <2>3, <2>4 DEF Row
  <2> QED BY <1>2, <2>3, <2>4, <2>5 DEF last
<1>3. CASE kind[q] # "pivot"
  <2>1. row = [index |-> Len(rows[q]) + 1, group |-> NoGroup]
    BY <1>3 DEF NextRows
  <2>2. Len(rows[q]) + 1 \in 1 .. MaxRows
    BY <1>1, RowsAssumption
  <2> QED BY <1>3, <2>1, <2>2 DEF Row
<1> QED BY <1>2, <1>3

\* What a row does to its stream.
LEMMA StreamedRow ==
  ASSUME RowInv, NEW q \in Queries, answer[q].status = "pending", Len(rows[q]) < MaxRows,
         NEW row \in NextRows(q)
  PROVE  LET t == Streamed(q, Len(rows[q]) + 1, row)
         IN  /\ t \in Streams
             /\ IF kind[q] = "pivot" THEN PivotRight(Append(rows[q], row), t)
                                     ELSE PlainRight(Append(rows[q], row), t)
<1> DEFINE s == stream[q]
           rs == rows[q]
           new == WithCell([index |-> row.index, cells |-> <<>>], Len(rs) + 1, suffixOf[row.group])
<1>1. s \in Streams /\ rs \in Seq(Row)
  BY DEF RowInv, RowsTypeOK
<1>2. row \in Row
  BY NextRow DEF RowInv
<1>3. CASE kind[q] = "pivot"
  <2>1. PivotRight(rs, s)
    BY <1>3 DEF RowInv, StreamsRight
  <2>2. row.group \in Groups /\ (rs # <<>> => rs[Len(rs)].index <= row.index)
    BY <1>3, NextRow DEF RowInv
  <2>3. CASE s.line.index = row.index
    <3>1. Streamed(q, Len(rs) + 1, row)
            = [s EXCEPT !.line = WithCell(s.line, Len(rs) + 1, suffixOf[row.group])]
      BY <1>3, <2>3 DEF Streamed
    <3> HIDE DEF s, rs
    <3> QED BY <1>1, <1>2, <1>3, <2>1, <2>2, <2>3, <3>1, PivotSameIndex DEF s, rs
  <2>4. CASE s.line.index # row.index
    <3>1. Flushed(s) \in Streams
      BY <1>1, <2>1, PivotDone DEF RowInv, Bounded
    <3>2. Streamed(q, Len(rs) + 1, row)
            = [[Flushed(s) EXCEPT !.line = [index |-> row.index, cells |-> <<>>]] EXCEPT
                !.line = WithCell(@, Len(rs) + 1, suffixOf[row.group])]
      BY <1>3, <2>4 DEF Streamed
    <3>3. Streamed(q, Len(rs) + 1, row) = [Flushed(s) EXCEPT !.line = new]
      <4> DEFINE f == Flushed(s)
      <4>1. f = [line |-> f.line, total |-> f.total, file |-> f.file]
        BY <3>1 DEF Streams
      <4> HIDE DEF f
      <4> QED BY <3>2, <4>1 DEF f
    <3> HIDE DEF s, rs
    <3> QED BY <1>1, <1>2, <1>3, <2>1, <2>2, <2>4, <3>3, PivotNewIndex DEF s, rs
  <2> QED BY <2>3, <2>4
<1>4. CASE kind[q] # "pivot"
  <2>1. PlainRight(rs, s)
    BY <1>4 DEF RowInv, StreamsRight
  <2>2. row.index = Len(rs) + 1
    BY <1>4, NextRow DEF RowInv
  <2>3. Streamed(q, Len(rs) + 1, row)
          = [s EXCEPT !.file = Append(@, [index |-> row.index, cells |-> <<>>])]
    BY <1>4 DEF Streamed
  <2> HIDE DEF s, rs
  <2> QED BY <1>1, <1>2, <1>4, <2>1, <2>2, <2>3, PlainRow DEF s, rs
<1> QED BY <1>3, <1>4

LEMMA WarehouseRowInv ==
  ASSUME RowInv, NEW q \in Queries, WarehouseRow(q)
  PROVE  RowInv'
<1>1. PICK row \in NextRows(q) :
        /\ answer[q].status = "pending" /\ Len(rows[q]) < MaxRows
        /\ rows' = [rows EXCEPT ![q] = Append(@, row)]
        /\ stream' = [stream EXCEPT ![q] = Streamed(q, Len(rows[q]) + 1, row)]
        /\ kind' = kind /\ answer' = answer
  BY DEF WarehouseRow
<1> DEFINE t == Streamed(q, Len(rows[q]) + 1, row)
<1>2. /\ t \in Streams
      /\ IF kind[q] = "pivot" THEN PivotRight(Append(rows[q], row), t)
                              ELSE PlainRight(Append(rows[q], row), t)
  BY <1>1, StreamedRow
<1>3. row \in Row /\ rows[q] \in Seq(Row)
  BY <1>1, NextRow DEF RowInv, RowsTypeOK
<1> HIDE DEF t
<1>4. /\ rows'[q] = Append(rows[q], row) /\ stream'[q] = t
      /\ \A p \in Queries : p # q => rows'[p] = rows[p] /\ stream'[p] = stream[p]
  BY <1>1 DEF RowInv, RowsTypeOK, t
<1>5. Append(rows[q], row) \in Seq(Row) /\ Len(Append(rows[q], row)) = Len(rows[q]) + 1
  BY <1>3, Appended
<1>6. RowsTypeOK'
  BY <1>1, <1>2, <1>5 DEF RowInv, RowsTypeOK, t
<1>7. Bounded'
  <2>1. Len(rows[q]) + 1 <= MaxRows
    BY <1>1, <1>3, RowsAssumption
  <2> QED BY <1>1, <1>4, <1>5, <2>1 DEF RowInv, Bounded
<1>8. StreamsRight'
  BY <1>1, <1>2, <1>4 DEF RowInv, StreamsRight
<1>9. FilesDone'
  BY <1>1, <1>4 DEF RowInv, FilesDone
<1> QED BY <1>6, <1>7, <1>8, <1>9 DEF RowInv

LEMMA WarehouseDoneInv ==
  ASSUME RowInv, NEW q \in Queries, WarehouseDone(q)
  PROVE  RowInv'
<1> DEFINE s == Flushed(stream[q])
           total == IF kind[q] = "plain" THEN Len(rows[q]) ELSE s.total
<1>1. /\ answer[q].status = "pending"
      /\ stream' = [stream EXCEPT ![q] = s]
      /\ answer' = [answer EXCEPT ![q] = [status |-> "ready", total |-> total]]
      /\ rows' = rows /\ kind' = kind
  BY DEF WarehouseDone
<1>2. /\ rows[q] \in Seq(Row) /\ Len(rows[q]) <= MaxRows /\ stream[q] \in Streams
      /\ kind[q] \in Kinds
  BY DEF RowInv, RowsTypeOK, Bounded
<1>3. /\ s \in Streams /\ total \in Nat /\ total <= MaxRows
      /\ FileDone(rows[q], kind[q], s, total)
  <2>1. CASE kind[q] = "pivot"
    <3>1. PivotRight(rows[q], stream[q])
      BY <1>1, <2>1 DEF RowInv, StreamsRight
    <3> QED BY <1>2, <2>1, <3>1, PivotDone
  <2>2. CASE kind[q] # "pivot"
    <3>1. PlainRight(rows[q], stream[q])
      BY <1>1, <2>2 DEF RowInv, StreamsRight
    <3>2. s = stream[q] /\ s.total = 0
      BY <1>2, <3>1, PlainDone
    <3>3. CASE kind[q] = "plain"
      BY <1>2, <3>1, <3>2, <3>3, PlainDone
    <3>4. CASE kind[q] = "ungrouped"
      BY <1>2, <3>1, <3>2, <3>4, PlainDone, RowsAssumption
    <3> QED BY <1>2, <2>2, <3>3, <3>4 DEF Kinds
  <2> QED BY <2>1, <2>2
<1> HIDE DEF s, total
<1>4. /\ stream'[q] = s /\ answer'[q] = [status |-> "ready", total |-> total]
      /\ \A p \in Queries : p # q => answer'[p] = answer[p] /\ stream'[p] = stream[p]
  BY <1>1 DEF RowInv, RowsTypeOK
<1>5. RowsTypeOK'
  BY <1>1, <1>3 DEF RowInv, RowsTypeOK, Statuses
<1>6. Bounded'
  BY <1>1, <1>3, <1>4 DEF RowInv, Bounded
<1>7. StreamsRight'
  BY <1>1, <1>4 DEF RowInv, StreamsRight
<1>8. FilesDone'
  BY <1>1, <1>3, <1>4 DEF RowInv, FilesDone
<1> QED BY <1>5, <1>6, <1>7, <1>8 DEF RowInv

LEMMA StatusInv ==
  ASSUME RowInv, NEW q \in Queries, QueryFails(q) \/ CancelQuery(q)
  PROVE  RowInv'
<1>1. PICK status \in {"error", "cancelled"} :
        /\ answer' = [answer EXCEPT ![q].status = status]
        /\ rows' = rows /\ kind' = kind /\ stream' = stream
  BY DEF QueryFails, CancelQuery
<1>2. answer[q] = [status |-> answer[q].status, total |-> answer[q].total]
      /\ answer[q].total \in Nat
  BY DEF RowInv, RowsTypeOK
<1>3. /\ answer'[q] = [status |-> status, total |-> answer[q].total]
      /\ \A p \in Queries : p # q => answer'[p] = answer[p]
  BY <1>1, <1>2 DEF RowInv, RowsTypeOK
<1>4. RowsTypeOK'
  BY <1>1, <1>2 DEF RowInv, RowsTypeOK, Statuses
<1>5. Bounded'
  BY <1>1, <1>3 DEF RowInv, Bounded
<1>6. StreamsRight'
  BY <1>1, <1>3 DEF RowInv, StreamsRight
<1>7. FilesDone'
  BY <1>1, <1>3 DEF RowInv, FilesDone
<1> QED BY <1>4, <1>5, <1>6, <1>7 DEF RowInv

LEMMA SameRows ==
  ASSUME RowInv, UNCHANGED rowVars
  PROVE  RowInv'
<1>1. rows' = rows /\ kind' = kind /\ stream' = stream /\ answer' = answer
  BY DEF rowVars
<1> QED BY <1>1 DEF RowInv, RowsTypeOK, Bounded, StreamsRight, FilesDone

LEMMA RowsStep == ASSUME RowInv, [Next]_vars PROVE RowInv'
<1>1. ASSUME NEW q \in Queries, ServerStep(q) PROVE RowInv'
  BY <1>1, WarehouseRowInv, WarehouseDoneInv, StatusInv DEF ServerStep, QueryStep
<1>2. ASSUME NEW q \in Queries, Cancel(q) PROVE RowInv'
  BY <1>2, StatusInv DEF Cancel
<1>3. ASSUME NEW q \in Queries, NEW p \in Pages,
             Answered(q, p) \/ RequestFails(q, p) \/ PollAgain(q, p) \/ Forget(q, p)
      PROVE  RowInv'
  BY <1>3, SameRows DEF Answered, RequestFails, PollAgain, Forget
<1>4. ASSUME NEW q \in Shown, ChangeQuery(q) PROVE RowInv'
  BY <1>4, SameRows DEF ChangeQuery
<1>5. CASE ScrollToEnd
  BY <1>5, SameRows DEF ScrollToEnd
<1>6. CASE Render
  BY <1>6, SameRows DEF Render
<1>7. CASE UNCHANGED vars
  BY <1>7, SameRows DEF vars
<1> QED BY <1>1, <1>2, <1>3, <1>4, <1>5, <1>6, <1>7 DEF Next

-----------------------------------------------------------------------------
(* Theorems about files. *)

LEMMA RowsAlwaysInv == Spec => []RowInv
<1>1. Init => RowInv
  BY InitRows DEF Init
<1>2. RowInv /\ [Next]_vars => RowInv'
  BY RowsStep
<1> QED BY <1>1, <1>2, PTL DEF Spec

\* The file of every query that is ready has a line for each row of the warehouse or,
\* in a pivot, for each index, in the order of the warehouse; a line has the cells of
\* its own rows only; and total_row_count is the number of lines
\* (runQueryAndTransformRows).
THEOREM FilesAreRight == Spec => []FileIsRight
<1>1. RowInv => FileIsRight
  BY FileDoneIsRight DEF RowInv, FilesDone
<1> QED BY <1>1, RowsAlwaysInv, PTL

-----------------------------------------------------------------------------
(* The hook and the query client. *)

\* From here on the number of pages of a query stays as it is.
Finished(q) == answer[q].status # "pending"

Known(key) == /\ key.query \in Queries
              /\ key.page = 1 \/ (Finished(key.query) /\ key.page <= PageCount(key.query))

\* What is cached as ready is final, and only pages that exist are asked for.
CacheInv ==
    \A q \in Queries, p \in Pages :
        LET e == cached[q][p]
        IN  /\ e.data = "ready" => Finished(q) /\ ~e.fetching /\ ~e.timer /\ ~e.invalid
            /\ e.fetching \/ e.timer => Known([query |-> q, page |-> p])

PagesInv ==
    /\ \A n \in DOMAIN pages : pages[n] = [query |-> shown.query, page |-> n]
    /\ pages # <<>> => shown.query \in Queries /\ Finished(shown.query)
    /\ \A n \in DOMAIN shown.pages :
         shown.pages[n].query \in Queries /\ Finished(shown.pages[n].query)

\* The page that is fetched is the next one, or the last one that was appended, which
\* the next render does not append again.
ArgsInv ==
    /\ fetchArgs.query = shown.query
    /\ fetchArgs.query # NoQuery => Known(fetchArgs)
    /\ \/ fetchArgs.page = Len(pages) + 1
       \/ /\ fetchArgs.page = Len(pages)
          /\ fetchArgs = shown.args /\ shown.data = "ready" /\ Data(fetchArgs) = "ready"

\* The last render saw the pages there are, those of the query before, or all but
\* the one that it appended.
ShownInv ==
    \/ shown.pages = pages
    \/ \A n \in DOMAIN shown.pages : shown.pages[n].query # shown.query
    \/ /\ \E page \in Keys : pages = Append(shown.pages, page)
       /\ fetchArgs.page = Len(pages)

HookInv == CacheInv /\ PagesInv /\ ArgsInv /\ ShownInv

Inv == TypeOK /\ RowInv /\ HookInv

\* A query has at most as many pages as rows, and a page when it has a row.
LEMMA Divided ==
  ASSUME NEW t \in Nat, NEW P \in Nat \ {0}
  PROVE  /\ (t + P - 1) \div P \in Nat /\ (t + P - 1) \div P <= t
         /\ t >= 1 => (t + P - 1) \div P >= 1
<1> DEFINE d == (t + P - 1) \div P
           r == (t + P - 1) % P
<1>1. d \in Int /\ r \in 0 .. P - 1 /\ t + P - 1 = P * d + r
  BY SMT
<1> HIDE DEF d, r
<1>2. d >= 0
  BY <1>1, SMT
<1>3. d <= t
  <2>1. SUFFICES ASSUME d >= t + 1 PROVE FALSE
    BY <1>1
  <2>2. P * d >= P * (t + 1)
    BY <1>1, <2>1, SMT
  <2>3. P * t >= t
    BY SMT
  <2>4. P * (t + 1) = P * t + P
    BY SMT
  <2> QED BY <1>1, <2>2, <2>3, <2>4, SMT
<1>4. t >= 1 => d >= 1
  BY <1>1, <1>2, SMT
<1> QED BY <1>1, <1>2, <1>3, <1>4 DEF d

LEMMA PagesCounted ==
  ASSUME RowInv, NEW q \in Queries
  PROVE  /\ PageCount(q) \in Nat /\ PageCount(q) <= MaxRows
         /\ answer[q].total # 0 => PageCount(q) >= 1
<1>1. answer[q].total \in Nat /\ answer[q].total <= MaxRows
  BY DEF RowInv, RowsTypeOK, Bounded
<1>2. /\ PageCount(q) \in Nat /\ PageCount(q) <= answer[q].total
      /\ answer[q].total >= 1 => PageCount(q) >= 1
  BY <1>1, Divided, PagesAssumption DEF PageCount
<1> QED BY <1>1, <1>2, RowsAssumption

\* What fetchMoreRows asks for is there.
LEMMA NextPage ==
  ASSUME RowInv, NEW args \in Keys, NEW fetched \in Seq(Keys), NEW query,
         \A n \in DOMAIN fetched : fetched[n].query \in Queries /\ Finished(fetched[n].query),
         MoreRows(args, fetched, query) # args
  PROVE  LET last == fetched[Len(fetched)]
             more == MoreRows(args, fetched, query)
         IN  /\ fetched # <<>> /\ Len(fetched) \in DOMAIN fetched /\ last.query = query
             /\ query \in Queries /\ Finished(query)
             /\ more = [query |-> args.query, page |-> last.page + 1]
             /\ last.page + 1 <= PageCount(query)
             /\ more \in Keys
<1> DEFINE last == fetched[Len(fetched)]
           more == MoreRows(args, fetched, query)
<1>1. /\ fetched # <<>> /\ HasNextPage(last.query, last.page) /\ last.query = query
      /\ more = [args EXCEPT !.page = last.page + 1]
  BY DEF MoreRows
<1>2. Len(fetched) \in DOMAIN fetched /\ last \in Keys
  BY <1>1
<1>3. query \in Queries /\ Finished(query) /\ last.page \in 1 .. MaxRows
  BY <1>1, <1>2 DEF Keys, Pages
<1> HIDE DEF last, more
<1>4. ~(last.page >= PageCount(query))
  BY <1>1 DEF HasNextPage
<1>5. last.page + 1 <= PageCount(query) /\ last.page + 1 \in Pages
  BY <1>3, <1>4, PagesCounted, RowsAssumption DEF Pages
<1>6. more = [query |-> args.query, page |-> last.page + 1] /\ args.query \in Queries \cup {NoQuery}
  BY <1>1 DEF Keys
<1>7. more \in Keys
  BY <1>5, <1>6 DEF Keys
<1> QED BY <1>1, <1>2, <1>3, <1>5, <1>6, <1>7 DEF last, more

-----------------------------------------------------------------------------
(* Steps of the server. *)

\* A query that has finished stays so, with the rows it has.
Steady == \A q \in Queries : Finished(q) => Finished(q)' /\ PageCount(q)' = PageCount(q)

LEMMA ServerIsSteady ==
  ASSUME RowInv, NEW q \in Queries, QueryStep(q) \/ CancelQuery(q)
  PROVE  Steady
<1>1. answer \in [Queries -> [status : Statuses, total : Nat]]
  BY DEF RowInv, RowsTypeOK
<1>2. CASE WarehouseRow(q)
  BY <1>2 DEF WarehouseRow, Steady, Finished, PageCount
<1>3. CASE WarehouseDone(q)
  <2>1. \A x \in Queries : answer[x].status # "pending" => answer'[x] = answer[x]
    BY <1>1, <1>3 DEF WarehouseDone
  <2> QED BY <2>1 DEF Steady, Finished, PageCount
<1>4. CASE QueryFails(q)
  <2>1. \A x \in Queries : answer[x].status # "pending" => answer'[x] = answer[x]
    BY <1>1, <1>4 DEF QueryFails
  <2> QED BY <2>1 DEF Steady, Finished, PageCount
<1>5. CASE CancelQuery(q)
  <2>1. /\ \A x \in Queries : answer'[x].total = answer[x].total
        /\ \A x \in Queries : answer[x].status # "pending" => answer'[x].status # "pending"
    BY <1>1, <1>5 DEF CancelQuery
  <2> QED BY <2>1 DEF Steady, Finished, PageCount
<1> QED BY <1>2, <1>3, <1>4, <1>5 DEF QueryStep

\* The hook does not see a step of the server.
LEMMA ServerHook ==
  ASSUME TypeOK, HookInv, Steady, UNCHANGED hookVars
  PROVE  HookInv'
<1> USE DEF hookVars
<1>1. CacheInv'
  BY DEF HookInv, CacheInv, Known, Steady, Keys
<1>2. PagesInv'
  BY DEF HookInv, PagesInv, Steady
<1>3. ArgsInv'
  BY DEF HookInv, ArgsInv, Known, Steady, Data
<1>4. ShownInv'
  BY DEF HookInv, ShownInv
<1> QED BY <1>1, <1>2, <1>3, <1>4 DEF HookInv

-----------------------------------------------------------------------------
(* Steps of the query client. *)

\* A step that changes one entry of the cache, to one that CacheInv allows and that
\* is still ready where it was, unless the page is not on the screen.
LEMMA CacheHook ==
  ASSUME TypeOK, HookInv, NEW q \in Queries, NEW p \in Pages, NEW e \in Entry,
         cached' = [cached EXCEPT ![q][p] = e],
         e.data = "ready" => Finished(q) /\ ~e.fetching /\ ~e.timer /\ ~e.invalid,
         e.fetching \/ e.timer => Known([query |-> q, page |-> p]),
         cached[q][p].data = "ready" => e.data = "ready" \/ shown.args # [query |-> q, page |-> p],
         UNCHANGED <<rowVars, chart, queryUuid, fetchArgs, pages, fetchAll, shown>>
  PROVE  /\ cached' \in [Queries -> [Pages -> Entry]]
         /\ HookInv'
<1> USE DEF rowVars
<1>1. cached \in [Queries -> [Pages -> Entry]]
  BY DEF TypeOK
<1>2. /\ cached' \in [Queries -> [Pages -> Entry]]
      /\ cached'[q][p] = e
      /\ \A x \in Queries, y \in Pages : x # q \/ y # p => cached'[x][y] = cached[x][y]
  BY <1>1
<1>3. CacheInv'
  <2> SUFFICES ASSUME NEW x \in Queries, NEW y \in Pages
               PROVE  /\ cached'[x][y].data = "ready" =>
                           Finished(x)' /\ ~cached'[x][y].fetching
                           /\ ~cached'[x][y].timer /\ ~cached'[x][y].invalid
                      /\ cached'[x][y].fetching \/ cached'[x][y].timer =>
                           Known([query |-> x, page |-> y])'
    BY DEF CacheInv
  <2>1. Finished(x)' = Finished(x)
        /\ Known([query |-> x, page |-> y])' = Known([query |-> x, page |-> y])
    BY DEF Finished, Known, PageCount
  <2>2. CASE x = q /\ y = p
    BY <1>2, <2>1, <2>2
  <2>3. CASE x # q \/ y # p
    BY <1>2, <2>1, <2>3 DEF HookInv, CacheInv
  <2> QED BY <2>2, <2>3
<1>4. PagesInv'
  BY DEF HookInv, PagesInv, Finished
<1>5. ArgsInv'
  <2>1. /\ fetchArgs.query = shown.query
        /\ fetchArgs.query # NoQuery => Known(fetchArgs)
        /\ \/ fetchArgs.page = Len(pages) + 1
           \/ /\ fetchArgs.page = Len(pages)
              /\ fetchArgs = shown.args /\ shown.data = "ready" /\ Data(fetchArgs) = "ready"
    BY DEF HookInv, ArgsInv
  <2>2. fetchArgs.query # NoQuery => Known(fetchArgs)'
    BY <2>1 DEF Known, Finished, PageCount
  <2>3. fetchArgs = shown.args /\ Data(fetchArgs) = "ready" => Data(fetchArgs)' = "ready"
    <3> SUFFICES ASSUME fetchArgs = shown.args, Data(fetchArgs) = "ready"
                 PROVE  Data(fetchArgs)' = "ready"
      OBVIOUS
    <3>1. fetchArgs = [query |-> fetchArgs.query, page |-> fetchArgs.page]
          /\ fetchArgs.query \in Queries \cup {NoQuery} /\ fetchArgs.page \in Pages
      BY DEF TypeOK, Keys
    <3>2. fetchArgs.query # NoQuery /\ cached[fetchArgs.query][fetchArgs.page].data = "ready"
      BY DEF Data
    <3>3. cached'[fetchArgs.query][fetchArgs.page].data = "ready"
      BY <1>2, <3>1, <3>2
    <3> QED BY <3>2, <3>3 DEF Data
  <2> QED BY <2>1, <2>2, <2>3 DEF ArgsInv
<1>6. ShownInv'
  BY DEF HookInv, ShownInv
<1> QED BY <1>2, <1>3, <1>4, <1>5, <1>6 DEF HookInv

LEMMA AnsweredHook ==
  ASSUME TypeOK, HookInv, NEW q \in Queries, NEW p \in Pages, Answered(q, p)
  PROVE  cached' \in [Queries -> [Pages -> Entry]] /\ HookInv'
<1>1. cached[q][p] \in Entry
  BY DEF TypeOK
<1>2. cached[q][p].fetching /\ cached[q][p].data # "ready" /\ Known([query |-> q, page |-> p])
  BY DEF Answered, HookInv, CacheInv
<1>3. UNCHANGED <<rowVars, chart, queryUuid, fetchArgs, pages, fetchAll, shown>>
  BY DEF Answered
<1>4. CASE /\ answer[q].status = "pending"
           /\ cached' = [cached EXCEPT ![q][p] = [data |-> "pending", invalid |-> FALSE,
                              fetching |-> FALSE, timer |-> TRUE, failed |-> FALSE]]
  <2> DEFINE e == [data |-> "pending", invalid |-> FALSE,
                   fetching |-> FALSE, timer |-> TRUE, failed |-> FALSE]
  <2>1. e \in Entry /\ e.data = "pending" /\ ~e.fetching
    BY DEF Entry
  <2>2. cached' = [cached EXCEPT ![q][p] = e]
    BY <1>4
  <2> HIDE DEF e
  <2> QED BY <1>2, <1>3, <2>1, <2>2, CacheHook
<1>5. CASE /\ answer[q].status = "ready"
           /\ cached' = [cached EXCEPT ![q][p] = [data |-> "ready", invalid |-> FALSE,
                              fetching |-> FALSE, timer |-> FALSE, failed |-> FALSE]]
  <2> DEFINE e == [data |-> "ready", invalid |-> FALSE,
                   fetching |-> FALSE, timer |-> FALSE, failed |-> FALSE]
  <2>1. e \in Entry /\ e.data = "ready" /\ ~e.fetching /\ ~e.timer /\ ~e.invalid /\ Finished(q)
    BY <1>5 DEF Entry, Finished
  <2>2. cached' = [cached EXCEPT ![q][p] = e]
    BY <1>5
  <2> HIDE DEF e
  <2> QED BY <1>2, <1>3, <2>1, <2>2, CacheHook
<1>6. CASE cached' = [cached EXCEPT ![q][p].fetching = FALSE, ![q][p].failed = TRUE]
  <2> DEFINE e == [cached[q][p] EXCEPT !.fetching = FALSE, !.failed = TRUE]
  <2>1. e \in Entry /\ e.data = cached[q][p].data /\ ~e.fetching /\ e.timer = cached[q][p].timer
    BY <1>1 DEF Entry
  <2>2. cached' = [cached EXCEPT ![q][p] = e]
    BY <1>6 DEF TypeOK
  <2> HIDE DEF e
  <2> QED BY <1>2, <1>3, <2>1, <2>2, CacheHook
<1> QED BY <1>4, <1>5, <1>6 DEF Answered

LEMMA RequestFailsHook ==
  ASSUME TypeOK, HookInv, NEW q \in Queries, NEW p \in Pages, RequestFails(q, p)
  PROVE  cached' \in [Queries -> [Pages -> Entry]] /\ HookInv'
<1> DEFINE e == [cached[q][p] EXCEPT !.fetching = FALSE, !.failed = TRUE]
<1>1. cached[q][p] \in Entry
  BY DEF TypeOK
<1>2. cached[q][p].fetching /\ cached[q][p].data # "ready" /\ Known([query |-> q, page |-> p])
  BY DEF RequestFails, HookInv, CacheInv
<1>3. e \in Entry /\ e.data = cached[q][p].data /\ ~e.fetching /\ e.timer = cached[q][p].timer
  BY <1>1 DEF Entry
<1>4. cached' = [cached EXCEPT ![q][p] = e]
  BY DEF RequestFails, TypeOK
<1>5. UNCHANGED <<rowVars, chart, queryUuid, fetchArgs, pages, fetchAll, shown>>
  BY DEF RequestFails
<1> HIDE DEF e
<1> QED BY <1>2, <1>3, <1>4, <1>5, CacheHook

LEMMA PollAgainHook ==
  ASSUME TypeOK, HookInv, NEW q \in Queries, NEW p \in Pages, PollAgain(q, p)
  PROVE  cached' \in [Queries -> [Pages -> Entry]] /\ HookInv'
<1> DEFINE e == [cached[q][p] EXCEPT
                   !.timer = FALSE, !.invalid = TRUE,
                   !.fetching = @ \/ shown.args = [query |-> q, page |-> p]]
<1>1. cached[q][p] \in Entry
  BY DEF TypeOK
<1>2. cached[q][p].timer /\ cached[q][p].data # "ready" /\ Known([query |-> q, page |-> p])
  BY DEF PollAgain, HookInv, CacheInv
<1>3. e \in Entry /\ e.data = cached[q][p].data
  BY <1>1 DEF Entry
<1>4. cached' = [cached EXCEPT ![q][p] = e]
  BY DEF PollAgain, TypeOK
<1>5. UNCHANGED <<rowVars, chart, queryUuid, fetchArgs, pages, fetchAll, shown>>
  BY DEF PollAgain
<1> HIDE DEF e
<1> QED BY <1>2, <1>3, <1>4, <1>5, CacheHook

LEMMA ForgetHook ==
  ASSUME TypeOK, HookInv, NEW q \in Queries, NEW p \in Pages, Forget(q, p)
  PROVE  cached' \in [Queries -> [Pages -> Entry]] /\ HookInv'
<1>1. NoEntry \in Entry /\ NoEntry.data = "none" /\ ~NoEntry.fetching /\ ~NoEntry.timer
  BY DEF NoEntry, Entry
<1>2. /\ shown.args # [query |-> q, page |-> p]
      /\ cached' = [cached EXCEPT ![q][p] = NoEntry]
      /\ UNCHANGED <<rowVars, chart, queryUuid, fetchArgs, pages, fetchAll, shown>>
  BY DEF Forget
<1> QED BY <1>1, <1>2, CacheHook

-----------------------------------------------------------------------------
(* Steps of the hook. *)

LEMMA ScrollHook ==
  ASSUME Inv, ScrollToEnd
  PROVE  fetchArgs' \in Keys /\ HookInv'
<1> DEFINE last == shown.pages[Len(shown.pages)]
           more == MoreRows(fetchArgs, shown.pages, shown.query)
<1>1. /\ fetchArgs' = more /\ more # fetchArgs
      /\ UNCHANGED <<rowVars, chart, queryUuid, pages, fetchAll, shown, cached, bounds>>
  BY DEF ScrollToEnd
<1>2. fetchArgs \in Keys /\ shown.pages \in Seq(Keys)
  BY DEF Inv, TypeOK
<1>3. /\ CacheInv /\ PagesInv /\ ArgsInv /\ ShownInv /\ RowInv
  BY DEF Inv, HookInv
<1>4. /\ shown.pages # <<>> /\ Len(shown.pages) \in DOMAIN shown.pages /\ last.query = shown.query
      /\ shown.query \in Queries /\ Finished(shown.query)
      /\ more = [query |-> fetchArgs.query, page |-> last.page + 1]
      /\ last.page + 1 <= PageCount(shown.query)
      /\ more \in Keys
  BY <1>1, <1>2, <1>3, NextPage DEF PagesInv
<1> HIDE DEF more
<1>5. shown.pages = pages
  <2>1. ~ \A n \in DOMAIN shown.pages : shown.pages[n].query # shown.query
    BY <1>4
  <2>2. ASSUME NEW page \in Keys, pages = Append(shown.pages, page), fetchArgs.page = Len(pages)
        PROVE  FALSE
    <3>1. Len(pages) = Len(shown.pages) + 1 /\ DOMAIN pages = 1 .. Len(pages)
          /\ pages[Len(shown.pages)] = last
      BY <1>2, <1>4, <2>2
    <3>2. last.page = Len(shown.pages)
      <4>1. Len(shown.pages) \in DOMAIN pages
        BY <1>2, <1>4, <3>1
      <4>2. pages[Len(shown.pages)] = [query |-> shown.query, page |-> Len(shown.pages)]
        BY <1>3, <4>1 DEF PagesInv
      <4> QED BY <3>1, <4>2
    <3>3. more = [query |-> fetchArgs.query, page |-> fetchArgs.page]
      BY <1>2, <1>4, <2>2, <3>1, <3>2
    <3> QED BY <1>1, <1>2, <3>3 DEF Keys
  <2> QED BY <1>3, <2>1, <2>2 DEF ShownInv
<1>6. more.page = Len(pages) + 1 /\ more.query = shown.query
  BY <1>3, <1>4, <1>5 DEF PagesInv, ArgsInv
<1>7. CacheInv'
  BY <1>1, <1>3 DEF CacheInv, Known, Finished, PageCount, rowVars
<1>8. PagesInv'
  BY <1>1, <1>3 DEF PagesInv, Finished, rowVars
<1>9. ArgsInv'
  <2>1. Known(fetchArgs)'
    BY <1>1, <1>4, <1>6 DEF Known, Finished, PageCount, rowVars
  <2> QED BY <1>1, <1>6, <2>1 DEF ArgsInv
<1>10. ShownInv'
  BY <1>1, <1>5 DEF ShownInv
<1> QED BY <1>1, <1>4, <1>7, <1>8, <1>9, <1>10 DEF HookInv

LEMMA RenderTypes ==
  ASSUME Inv, Render
  PROVE  TypeOK'
<1> DEFINE new == Current.args # shown.args \/ Current.data # shown.data
           changed == queryUuid # shown.query
           args == IF changed THEN [query |-> queryUuid, page |-> 1] ELSE fetchArgs
           appended == IF new /\ Current.data = "ready" THEN Append(pages, fetchArgs) ELSE pages
<1>1. /\ shown' = Current
      /\ cached' = Observed(fetchArgs)
      /\ pages' = IF changed THEN <<>> ELSE appended
      /\ fetchAll' = IF changed THEN FALSE ELSE chart \/ fetchAll
      /\ fetchArgs' = IF fetchAll THEN MoreRows(args, pages, queryUuid) ELSE args
      /\ UNCHANGED <<rowVars, chart, queryUuid, bounds>>
  BY DEF Render
<1>2. TypeOK /\ RowInv /\ PagesInv
  BY DEF Inv, HookInv
<1>3. fetchArgs \in Keys /\ pages \in Seq(Keys) /\ queryUuid \in Queries \cup {NoQuery}
      /\ chart \in BOOLEAN /\ fetchAll \in BOOLEAN
      /\ cached \in [Queries -> [Pages -> Entry]]
  BY <1>2 DEF TypeOK
<1>4. args \in Keys
  BY <1>3, RowsAssumption DEF Keys, Pages
<1>5. \A n \in DOMAIN pages : pages[n].query \in Queries /\ Finished(pages[n].query)
  BY <1>2, <1>3 DEF PagesInv
<1>6. Data(fetchArgs) \in {"none", "pending", "ready"}
  BY <1>3 DEF Data, Keys, Entry
<1>7. appended \in Seq(Keys)
  BY <1>3
<1>8. fetchArgs' \in Keys
  <2>1. MoreRows(args, pages, queryUuid) \in Keys
    <3> HIDE DEF args
    <3> QED BY <1>2, <1>3, <1>4, <1>5, NextPage
  <2> HIDE DEF args
  <2> QED BY <1>1, <1>4, <2>1
<1>9. pages' \in Seq(Keys)
  <2> HIDE DEF appended
  <2> QED BY <1>1, <1>7
<1>10. shown' \in [query : Queries \cup {NoQuery}, args : Keys, pages : Seq(Keys),
                   fetchAll : BOOLEAN, data : {"none", "pending", "ready"}]
  BY <1>1, <1>3, <1>6 DEF Current
<1>11. cached' \in [Queries -> [Pages -> Entry]]
  <2>1. CASE fetchArgs = shown.args \/ fetchArgs.query = NoQuery
    BY <1>1, <1>3, <2>1 DEF Observed
  <2>2. CASE fetchArgs # shown.args /\ fetchArgs.query # NoQuery
    <3> DEFINE q == fetchArgs.query
               p == fetchArgs.page
               e == [cached[q][p] EXCEPT
                       !.fetching = @ \/ Data(fetchArgs) = "none" \/ cached[q][p].invalid]
    <3>1. q \in Queries /\ p \in Pages
      BY <1>3, <2>2 DEF Keys
    <3>2. cached[q][p] \in Entry
      BY <1>3, <3>1
    <3>3. e \in Entry
      BY <3>2 DEF Entry
    <3>4. cached' = [cached EXCEPT ![q][p] = e]
      BY <1>1, <1>3, <2>2, <3>1 DEF Observed
    <3> HIDE DEF q, p, e
    <3> QED BY <1>3, <3>1, <3>3, <3>4
  <2> QED BY <2>1, <2>2
<1>12. fetchAll' \in BOOLEAN
  BY <1>1, <1>3
<1>13. RowsTypeOK'
  BY <1>1, <1>2 DEF TypeOK, RowsTypeOK, rowVars
<1> HIDE DEF new, changed, args, appended
<1> QED BY <1>1, <1>2, <1>8, <1>9, <1>10, <1>11, <1>12, <1>13 DEF TypeOK, bounds

LEMMA RenderHook ==
  ASSUME Inv, Render
  PROVE  HookInv'
<1> DEFINE new == Current.args # shown.args \/ Current.data # shown.data
           changed == queryUuid # shown.query
           args == IF changed THEN [query |-> queryUuid, page |-> 1] ELSE fetchArgs
           appended == IF new /\ Current.data = "ready" THEN Append(pages, fetchArgs) ELSE pages
           more == MoreRows(args, pages, queryUuid)
           ready == Data(fetchArgs) = "ready"
<1>1. /\ shown' = Current
      /\ cached' = Observed(fetchArgs)
      /\ pages' = IF changed THEN <<>> ELSE appended
      /\ fetchArgs' = IF fetchAll THEN more ELSE args
      /\ rows' = rows /\ answer' = answer
  BY DEF Render, rowVars
<1>2. /\ shown'.query = queryUuid /\ shown'.args = fetchArgs /\ shown'.pages = pages
      /\ shown'.data = Data(fetchArgs)
  BY <1>1 DEF Current
<1>3. RowInv /\ CacheInv /\ PagesInv /\ ArgsInv /\ ShownInv
  BY DEF Inv, HookInv
<1>4. /\ fetchArgs \in Keys /\ pages \in Seq(Keys) /\ queryUuid \in Queries \cup {NoQuery}
      /\ cached \in [Queries -> [Pages -> Entry]]
  BY DEF Inv, TypeOK
<1>5. /\ fetchArgs = [query |-> fetchArgs.query, page |-> fetchArgs.page]
      /\ fetchArgs.query \in Queries \cup {NoQuery} /\ fetchArgs.page \in Pages
  BY <1>4 DEF Keys
<1>6. args \in Keys
  BY <1>4, RowsAssumption DEF Keys, Pages
<1>7. \A n \in DOMAIN pages : /\ pages[n] = [query |-> shown.query, page |-> n]
                              /\ shown.query \in Queries /\ Finished(shown.query)
  BY <1>3, <1>4 DEF PagesInv
\* The data of a page stay as they are when it comes on the screen.
<1>8. \A q \in Queries, p \in Pages :
        /\ cached'[q][p].data = cached[q][p].data
        /\ cached'[q][p].timer = cached[q][p].timer
        /\ cached'[q][p].invalid = cached[q][p].invalid
        /\ cached[q][p].data = "ready" => ~cached'[q][p].fetching
        /\ cached'[q][p].fetching =>
             cached[q][p].fetching \/ (q = fetchArgs.query /\ p = fetchArgs.page)
  <2>1. CASE fetchArgs = shown.args \/ fetchArgs.query = NoQuery
    <3>1. cached' = cached
      BY <1>1, <2>1 DEF Observed
    <3> QED BY <1>3, <3>1 DEF CacheInv
  <2>2. CASE fetchArgs # shown.args /\ fetchArgs.query # NoQuery
    <3> DEFINE x == fetchArgs.query
               y == fetchArgs.page
               e == [cached[x][y] EXCEPT
                       !.fetching = @ \/ Data(fetchArgs) = "none" \/ cached[x][y].invalid]
    <3>1. x \in Queries /\ y \in Pages /\ cached[x][y] \in Entry
      BY <1>4, <1>5, <2>2
    <3>2. cached' = [cached EXCEPT ![x][y] = e]
      BY <1>1, <1>4, <2>2, <3>1 DEF Observed
    <3>3. Data(fetchArgs) = cached[x][y].data
      BY <2>2 DEF Data
    <3>4. /\ e.data = cached[x][y].data /\ e.timer = cached[x][y].timer
          /\ e.invalid = cached[x][y].invalid
          /\ cached[x][y].data = "ready" => ~e.fetching
      BY <1>3, <3>1, <3>3 DEF Entry, CacheInv
    <3> HIDE DEF x, y, e
    <3>5. /\ cached'[x][y] = e
          /\ \A q \in Queries, p \in Pages : q # x \/ p # y => cached'[q][p] = cached[q][p]
      BY <1>4, <3>1, <3>2
    <3>6. ASSUME NEW q \in Queries, NEW p \in Pages
          PROVE  /\ cached'[q][p].data = cached[q][p].data
                 /\ cached'[q][p].timer = cached[q][p].timer
                 /\ cached'[q][p].invalid = cached[q][p].invalid
                 /\ cached[q][p].data = "ready" => ~cached'[q][p].fetching
                 /\ cached'[q][p].fetching => cached[q][p].fetching \/ (q = x /\ p = y)
      <4>1. CASE q = x /\ p = y
        BY <3>4, <3>5, <4>1
      <4>2. CASE q # x \/ p # y
        BY <1>3, <3>5, <4>2 DEF CacheInv
      <4> QED BY <4>1, <4>2
    <3> QED BY <3>6 DEF x, y
  <2> QED BY <2>1, <2>2
<1>9. CacheInv'
  <2> SUFFICES ASSUME NEW q \in Queries, NEW p \in Pages
               PROVE  /\ cached'[q][p].data = "ready" =>
                           Finished(q)' /\ ~cached'[q][p].fetching
                           /\ ~cached'[q][p].timer /\ ~cached'[q][p].invalid
                      /\ cached'[q][p].fetching \/ cached'[q][p].timer =>
                           Known([query |-> q, page |-> p])'
    BY DEF CacheInv
  <2>1. Finished(q)' = Finished(q)
        /\ Known([query |-> q, page |-> p])' = Known([query |-> q, page |-> p])
    BY <1>1 DEF Finished, Known, PageCount
  <2>2. q = fetchArgs.query /\ p = fetchArgs.page => Known([query |-> q, page |-> p])
    <3>1. q # NoQuery
      BY PagesAssumption
    <3>2. fetchArgs.query # NoQuery => Known(fetchArgs)
      BY <1>3 DEF ArgsInv
    <3> QED BY <1>5, <3>1, <3>2
  <2> QED BY <1>3, <1>8, <2>1, <2>2 DEF CacheInv
\* The page after the last one, when it is asked for.
<1>10. ASSUME more # args
       PROVE  /\ ~changed /\ pages # <<>>
              /\ more = [query |-> queryUuid, page |-> Len(pages) + 1]
              /\ queryUuid \in Queries /\ Finished(queryUuid)
              /\ Len(pages) + 1 <= PageCount(queryUuid)
  <2>1. \A n \in DOMAIN pages : pages[n].query \in Queries /\ Finished(pages[n].query)
    BY <1>7
  <2>2. /\ pages # <<>> /\ Len(pages) \in DOMAIN pages
        /\ pages[Len(pages)].query = queryUuid
        /\ queryUuid \in Queries /\ Finished(queryUuid)
        /\ more = [query |-> args.query, page |-> pages[Len(pages)].page + 1]
        /\ pages[Len(pages)].page + 1 <= PageCount(queryUuid)
    <3> HIDE DEF args
    <3> QED BY <1>3, <1>4, <1>6, <1>10, <2>1, NextPage
  <2>3. pages[Len(pages)] = [query |-> shown.query, page |-> Len(pages)]
    BY <1>7, <2>2
  <2>4. shown.query = queryUuid
    BY <2>2, <2>3
  <2>5. args.query = queryUuid
    BY <1>3, <2>4 DEF ArgsInv
  <2> HIDE DEF more, args
  <2> QED BY <2>2, <2>3, <2>4, <2>5
<1>11. CASE changed
  <2>1. fetchArgs' = [query |-> queryUuid, page |-> 1] /\ pages' = <<>>
    BY <1>1, <1>10, <1>11
  <2>2. PagesInv'
    <3>1. \A n \in DOMAIN pages :
            pages[n].query \in Queries /\ answer'[pages[n].query].status # "pending"
      BY <1>1, <1>7 DEF Finished
    <3>2. \A n \in DOMAIN shown'.pages :
            /\ shown'.pages[n].query \in Queries
            /\ answer'[shown'.pages[n].query].status # "pending"
      BY <1>2, <3>1
    <3>3. DOMAIN <<>> = {}
      OBVIOUS
    <3> QED BY <2>1, <3>2, <3>3 DEF PagesInv, Finished
  <2>3. ArgsInv'
    <3>1. fetchArgs'.query # NoQuery => Known(fetchArgs)'
      BY <1>4, <2>1 DEF Known
    <3>2. fetchArgs'.page = Len(pages') + 1 /\ fetchArgs'.query = shown'.query
      BY <1>2, <2>1
    <3> QED BY <3>1, <3>2 DEF ArgsInv
  <2>4. ShownInv'
    BY <1>2, <1>7, <1>11 DEF ShownInv
  <2> QED BY <1>9, <2>2, <2>3, <2>4 DEF HookInv
<1>12. CASE ~changed
  <2>1. queryUuid = shown.query /\ args = fetchArgs /\ pages' = appended
    BY <1>1, <1>12
  <2>2. fetchArgs.query = queryUuid
    BY <1>3, <2>1 DEF ArgsInv
  <2>3. \/ fetchArgs.page = Len(pages) + 1
        \/ fetchArgs.page = Len(pages) /\ ready /\ ~new
    BY <1>3 DEF ArgsInv, Current
  <2>4. fetchArgs' = fetchArgs \/ fetchArgs' = [query |-> queryUuid, page |-> Len(pages) + 1]
    BY <1>1, <1>10, <2>1
  <2>5. fetchArgs.page = Len(pages) + 1 => fetchArgs' = fetchArgs
    BY <1>5, <2>2, <2>4
  <2>6. ready => queryUuid \in Queries /\ Finished(queryUuid)
    <3> SUFFICES ASSUME ready PROVE queryUuid \in Queries /\ Finished(queryUuid)
      OBVIOUS
    <3>1. fetchArgs.query # NoQuery /\ cached[fetchArgs.query][fetchArgs.page].data = "ready"
      BY DEF Data
    <3> QED BY <1>3, <1>5, <2>2, <3>1 DEF CacheInv
  <2>7. shown'.query = queryUuid /\ \A n \in DOMAIN shown'.pages :
            /\ shown'.pages[n].query \in Queries
            /\ answer'[shown'.pages[n].query].status # "pending"
    BY <1>1, <1>2, <1>7 DEF Finished
  <2>8. fetchArgs'.query = queryUuid /\ (fetchArgs'.query # NoQuery => Known(fetchArgs)')
    <3>1. CASE fetchArgs' = fetchArgs
      <4>1. fetchArgs.query # NoQuery => Known(fetchArgs)
        BY <1>3 DEF ArgsInv
      <4> QED BY <1>1, <2>2, <3>1, <4>1 DEF Known, Finished, PageCount
    <3>2. CASE fetchArgs' # fetchArgs
      <4>1. more # args /\ fetchArgs' = more
        BY <1>1, <2>1, <3>2
      <4>2. /\ fetchArgs'.query = queryUuid /\ fetchArgs'.page = Len(pages) + 1
            /\ queryUuid \in Queries /\ Finished(queryUuid)
            /\ Len(pages) + 1 <= PageCount(queryUuid)
        BY <1>10, <4>1
      <4> QED BY <1>1, <4>2 DEF Known, Finished, PageCount
    <3> QED BY <3>1, <3>2
  <2>9. ready => Data(fetchArgs)' = "ready" \/ fetchArgs' # fetchArgs
    <3> SUFFICES ASSUME ready, fetchArgs' = fetchArgs PROVE Data(fetchArgs)' = "ready"
      OBVIOUS
    <3>1. fetchArgs.query # NoQuery /\ cached[fetchArgs.query][fetchArgs.page].data = "ready"
      BY DEF Data
    <3>2. cached'[fetchArgs.query][fetchArgs.page].data = "ready"
      BY <1>5, <1>8, <3>1
    <3> QED BY <3>1, <3>2 DEF Data
  <2>10. CASE new /\ ready
    <3>1. fetchArgs.page = Len(pages) + 1 /\ fetchArgs' = fetchArgs
      BY <2>3, <2>5, <2>10
    <3>2. pages' = Append(pages, fetchArgs)
      BY <2>1, <2>10 DEF Current
    <3>3. /\ Len(pages') = Len(pages) + 1
          /\ DOMAIN pages' = (DOMAIN pages) \cup {Len(pages) + 1}
          /\ pages'[Len(pages) + 1] = fetchArgs
          /\ \A n \in DOMAIN pages : pages'[n] = pages[n]
      BY <1>4, <3>2
    <3>4. PagesInv'
      <4>1. fetchArgs = [query |-> queryUuid, page |-> Len(pages) + 1]
        BY <1>5, <2>2, <3>1
      <4>2. \A n \in DOMAIN pages' : pages'[n] = [query |-> queryUuid, page |-> n]
        BY <1>7, <2>1, <3>3, <4>1
      <4>3. queryUuid \in Queries /\ answer'[queryUuid].status # "pending"
        BY <1>1, <2>6, <2>10 DEF Finished
      <4> QED BY <2>7, <4>2, <4>3 DEF PagesInv, Finished
    <3>5. ArgsInv'
      <4>1. fetchArgs'.page = Len(pages') /\ fetchArgs' = shown'.args /\ shown'.data = "ready"
        BY <1>2, <2>10, <3>1, <3>3
      <4>2. Data(fetchArgs)' = "ready"
        BY <2>9, <2>10, <3>1
      <4> QED BY <2>7, <2>8, <4>1, <4>2 DEF ArgsInv
    <3>6. ShownInv'
      <4>1. pages' = Append(shown'.pages, fetchArgs) /\ fetchArgs'.page = Len(pages')
        BY <1>2, <3>1, <3>2, <3>3
      <4> QED BY <1>4, <4>1 DEF ShownInv
    <3> QED BY <1>9, <3>4, <3>5, <3>6 DEF HookInv
  <2>11. CASE ~(new /\ ready)
    <3>1. pages' = pages
      BY <2>1, <2>11 DEF Current
    <3>2. PagesInv'
      <4>1. \A n \in DOMAIN pages' : pages'[n] = [query |-> queryUuid, page |-> n]
        BY <1>7, <2>1, <3>1
      <4>2. pages' # <<>> => queryUuid \in Queries /\ answer'[queryUuid].status # "pending"
        BY <1>1, <1>3, <2>1, <3>1 DEF PagesInv, Finished
      <4> QED BY <2>7, <4>1, <4>2 DEF PagesInv, Finished
    <3>3. ArgsInv'
      <4>1. CASE fetchArgs.page = Len(pages) + 1
        BY <2>5, <2>7, <2>8, <3>1, <4>1 DEF ArgsInv
      <4>2. CASE fetchArgs.page = Len(pages) /\ ready /\ fetchArgs' = fetchArgs
        <5>1. fetchArgs'.page = Len(pages') /\ fetchArgs' = shown'.args /\ shown'.data = "ready"
          BY <1>2, <3>1, <4>2
        <5>2. Data(fetchArgs)' = "ready"
          BY <2>9, <4>2
        <5> QED BY <2>7, <2>8, <5>1, <5>2 DEF ArgsInv
      <4>3. CASE fetchArgs' = [query |-> queryUuid, page |-> Len(pages) + 1]
        <5>1. fetchArgs'.page = Len(pages') + 1
          BY <3>1, <4>3
        <5> QED BY <2>7, <2>8, <5>1 DEF ArgsInv
      <4> QED BY <2>3, <2>4, <4>1, <4>2, <4>3
    <3>4. ShownInv'
      BY <1>2, <3>1 DEF ShownInv
    <3> QED BY <1>9, <3>2, <3>3, <3>4 DEF HookInv
  <2> QED BY <2>10, <2>11
<1> QED BY <1>11, <1>12

LEMMA InitInv == Init => Inv
<1> SUFFICES ASSUME Init PROVE Inv
  OBVIOUS
<1> USE DEF Init
<1>1. RowInv
  BY InitRows
<1>2. NoKey \in Keys /\ NoKey.query = NoQuery /\ NoKey.page = 1
  BY RowsAssumption DEF NoKey, Keys, Pages
<1>3. NoEntry \in Entry /\ NoEntry.data = "none" /\ ~NoEntry.fetching /\ ~NoEntry.timer
  BY DEF NoEntry, Entry
<1>4. cached \in [Queries -> [Pages -> Entry]] /\ \A q \in Queries, p \in Pages : cached[q][p] = NoEntry
  BY <1>3
<1>5. <<>> \in Seq(Keys) /\ DOMAIN <<>> = {} /\ Len(<<>>) = 0
  OBVIOUS
<1>6. shown.query = NoQuery /\ shown.args = NoKey /\ shown.pages = <<>> /\ pages = <<>>
  OBVIOUS
<1>7. TypeOK
  <2>1. queryUuid \in Queries \cup {NoQuery}
    BY DEF Shown
  <2>2. shown \in [query : Queries \cup {NoQuery}, args : Keys, pages : Seq(Keys),
                   fetchAll : BOOLEAN, data : {"none", "pending", "ready"}]
    BY <1>2, <1>5
  <2>3. changes \in 0 .. MaxChanges /\ faults \in 0 .. MaxFaults
    BY PagesAssumption
  <2> QED BY <1>1, <1>2, <1>4, <1>5, <2>1, <2>2, <2>3 DEF TypeOK, RowInv
<1>8. CacheInv
  BY <1>3, <1>4 DEF CacheInv
<1>9. PagesInv
  BY <1>5, <1>6 DEF PagesInv
<1>10. ArgsInv
  BY <1>2, <1>5, <1>6 DEF ArgsInv
<1>11. ShownInv
  BY <1>6 DEF ShownInv
<1> QED BY <1>1, <1>7, <1>8, <1>9, <1>10, <1>11 DEF Inv, HookInv

LEMMA InvStep == ASSUME Inv, [Next]_vars PROVE Inv'
<1>1. RowInv'
  BY RowsStep DEF Inv
<1>2. RowsTypeOK' /\ TypeOK /\ RowInv /\ HookInv
  BY <1>1 DEF RowInv, Inv
<1>3. ASSUME NEW q \in Queries, ServerStep(q) PROVE TypeOK' /\ HookInv'
  <2>1. HookInv'
    BY <1>2, <1>3, ServerIsSteady, ServerHook DEF ServerStep
  <2>2. TypeOK'
    BY <1>2, <1>3 DEF ServerStep, TypeOK, hookVars, bounds
  <2> QED BY <2>1, <2>2
<1>4. ASSUME NEW q \in Queries, Cancel(q) PROVE TypeOK' /\ HookInv'
  <2>1. HookInv'
    BY <1>2, <1>4, ServerIsSteady, ServerHook DEF Cancel
  <2>2. changes' \in 0 .. MaxChanges
    BY <1>2, <1>4, PagesAssumption DEF Cancel, TypeOK
  <2>3. TypeOK'
    BY <1>2, <1>4, <2>2 DEF Cancel, TypeOK, hookVars
  <2> QED BY <2>1, <2>3
<1>5. ASSUME NEW q \in Queries, NEW p \in Pages, Answered(q, p) PROVE TypeOK' /\ HookInv'
  <2>1. cached' \in [Queries -> [Pages -> Entry]] /\ HookInv'
    BY <1>2, <1>5, AnsweredHook
  <2>2. TypeOK'
    BY <1>2, <1>5, <2>1 DEF Answered, TypeOK, bounds
  <2> QED BY <2>1, <2>2
<1>6. ASSUME NEW q \in Queries, NEW p \in Pages, RequestFails(q, p) PROVE TypeOK' /\ HookInv'
  <2>1. cached' \in [Queries -> [Pages -> Entry]] /\ HookInv'
    BY <1>2, <1>6, RequestFailsHook
  <2>2. faults' \in 0 .. MaxFaults
    BY <1>2, <1>6, PagesAssumption DEF RequestFails, TypeOK
  <2>3. TypeOK'
    BY <1>2, <1>6, <2>1, <2>2 DEF RequestFails, TypeOK
  <2> QED BY <2>1, <2>3
<1>7. ASSUME NEW q \in Queries, NEW p \in Pages, PollAgain(q, p) PROVE TypeOK' /\ HookInv'
  <2>1. cached' \in [Queries -> [Pages -> Entry]] /\ HookInv'
    BY <1>2, <1>7, PollAgainHook
  <2>2. TypeOK'
    BY <1>2, <1>7, <2>1 DEF PollAgain, TypeOK, bounds
  <2> QED BY <2>1, <2>2
<1>8. ASSUME NEW q \in Queries, NEW p \in Pages, Forget(q, p) PROVE TypeOK' /\ HookInv'
  <2>1. cached' \in [Queries -> [Pages -> Entry]] /\ HookInv'
    BY <1>2, <1>8, ForgetHook
  <2>2. TypeOK'
    BY <1>2, <1>8, <2>1 DEF Forget, TypeOK, bounds
  <2> QED BY <2>1, <2>2
<1>9. ASSUME NEW q \in Shown, ChangeQuery(q) PROVE TypeOK' /\ HookInv'
  <2>1. changes' \in 0 .. MaxChanges /\ queryUuid' \in Queries \cup {NoQuery}
    BY <1>2, <1>9, PagesAssumption DEF ChangeQuery, TypeOK, Shown
  <2>2. TypeOK'
    BY <1>2, <1>9, <2>1 DEF ChangeQuery, TypeOK
  <2>3. HookInv'
    <3>1. UNCHANGED <<rowVars, fetchArgs, pages, shown, cached>>
      BY <1>9 DEF ChangeQuery
    <3> QED BY <1>2, <3>1 DEF HookInv, CacheInv, PagesInv, ArgsInv, ShownInv, Finished, Known,
                              PageCount, Data, rowVars
  <2> QED BY <2>2, <2>3
<1>10. CASE ScrollToEnd
  <2>1. fetchArgs' \in Keys /\ HookInv'
    BY <1>10, ScrollHook
  <2>2. TypeOK'
    BY <1>2, <1>10, <2>1 DEF ScrollToEnd, TypeOK, bounds
  <2> QED BY <1>1, <2>1, <2>2 DEF Inv
<1>11. CASE Render
  BY <1>1, <1>11, RenderTypes, RenderHook DEF Inv
<1>12. CASE UNCHANGED vars
  <2>1. UNCHANGED <<rowVars, fetchArgs, pages, shown, cached>>
    BY <1>12 DEF vars, hookVars
  <2>2. HookInv'
    BY <1>2, <2>1 DEF HookInv, CacheInv, PagesInv, ArgsInv, ShownInv, Finished, Known,
                      PageCount, Data, rowVars
  <2>3. TypeOK'
    BY <1>2, <1>12 DEF vars, hookVars, bounds, TypeOK
  <2> QED BY <1>1, <2>2, <2>3 DEF Inv
<1> QED BY <1>1, <1>3, <1>4, <1>5, <1>6, <1>7, <1>8, <1>9, <1>10, <1>11, <1>12 DEF Next, Inv

-----------------------------------------------------------------------------
(* Theorems about pages. *)

LEMMA AlwaysInv == Spec => []Inv
<1>1. Init => Inv
  BY InitInv
<1>2. Inv /\ [Next]_vars => Inv'
  BY InvStep
<1> QED BY <1>1, <1>2, PTL DEF Spec

\* Every variable stays in its type: among others, the hook asks for no page beyond
\* the number of rows.
THEOREM TypeCorrect == Spec => []TypeOK
<1>1. Inv => TypeOK
  BY DEF Inv
<1> QED BY <1>1, AlwaysInv, PTL

\* Lines of a page are lines of the file.
LEMMA LinesAreThere ==
  ASSUME NEW file \in Seq(Line), NEW n \in Nat \ {0}, NEW i \in 1 .. PageSize
  PROVE  LET start == (n - 1) * PageSize
             end == start + PageSize
             lines == SubSeq(file, start + 1, IF end < Len(file) THEN end ELSE Len(file))
         IN  IF start + i <= Len(file)
             THEN i <= Len(lines) /\ lines[i] = file[start + i]
             ELSE i > Len(lines)
<1> DEFINE start == (n - 1) * PageSize
           last == IF start + PageSize < Len(file) THEN start + PageSize ELSE Len(file)
           lines == SubSeq(file, start + 1, last)
<1>1. start \in Nat /\ Len(file) \in Nat
  BY PagesAssumption
<1> HIDE DEF start
<1>2. last \in Nat /\ last <= Len(file)
  BY <1>1, PagesAssumption
<1>3. start + i <= last <=> start + i <= Len(file)
  BY <1>1, PagesAssumption
<1> HIDE DEF last
<1>4. Len(lines) = IF start + 1 <= last THEN last - start ELSE 0
  BY <1>1, <1>2
<1>5. i <= Len(lines) <=> start + i <= last
  BY <1>1, <1>2, <1>4, PagesAssumption
<1>6. start + i <= last => lines[i] = file[start + i]
  BY <1>1, <1>2, PagesAssumption
<1>7. i <= Len(lines) \/ i > Len(lines)
  BY <1>1, <1>2, <1>4
<1> QED BY <1>3, <1>5, <1>6, <1>7 DEF start, last

\* The pages of the hook are those of the query that was rendered last, from the first
\* on, none left out and none twice (useInfiniteQueryResults), and the n-th page is
\* the n-th piece of the file.
THEOREM RowsInOrder == Spec => []RowsAreAPrefix
<1>1. ASSUME Inv PROVE RowsAreAPrefix
  <2> SUFFICES ASSUME NEW n \in DOMAIN pages
               PROVE  /\ pages[n].query = shown.query
                      /\ \A i \in 1 .. PageSize :
                           LET q == shown.query
                               start == (n - 1) * PageSize
                               lines == LinesOfPage(q, pages[n].page)
                           IN  IF start + i <= Len(stream[q].file)
                               THEN i <= Len(lines) /\ lines[i] = stream[q].file[start + i]
                               ELSE i > Len(lines)
    BY DEF RowsAreAPrefix
  <2>1. pages[n] = [query |-> shown.query, page |-> n] /\ shown.query \in Queries
    BY <1>1 DEF Inv, HookInv, PagesInv, TypeOK
  <2>2. n \in Nat \ {0}
    BY <1>1 DEF Inv, TypeOK
  <2>3. stream[shown.query].file \in Seq(Line)
    BY <1>1, <2>1 DEF Inv, TypeOK, RowsTypeOK, Streams
  <2>4. pages[n].query = shown.query /\ pages[n].page = n
    BY <2>1
  <2> DEFINE q == shown.query
             start == (n - 1) * PageSize
             file == stream[q].file
             end == start + PageSize
  <2>5. LinesOfPage(q, pages[n].page)
          = SubSeq(file, start + 1, IF end < Len(file) THEN end ELSE Len(file))
    BY <2>4 DEF LinesOfPage
  <2>6. ASSUME NEW i \in 1 .. PageSize
        PROVE  LET lines == LinesOfPage(q, pages[n].page)
               IN  IF start + i <= Len(file)
                   THEN i <= Len(lines) /\ lines[i] = file[start + i]
                   ELSE i > Len(lines)
    <3> HIDE DEF file
    <3> QED BY <2>2, <2>3, <2>5, LinesAreThere DEF file
  <2> QED BY <2>4, <2>6
<1> QED BY <1>1, AlwaysInv, PTL

\* No page is asked for that the server rejects (validatePagination), however late the
\* answer to a poll comes.
THEOREM NoPageIsRejected == Spec => []OnlyPagesThatExist
<1>1. ASSUME Inv PROVE OnlyPagesThatExist
  <2> SUFFICES ASSUME NEW q \in Queries, NEW p \in Pages, cached[q][p].fetching
               PROVE  ValidPage(q, p)
    BY DEF OnlyPagesThatExist
  <2>1. Known([query |-> q, page |-> p]) /\ RowInv
    BY <1>1 DEF Inv, HookInv, CacheInv
  <2>2. p = 1 \/ p <= PageCount(q)
    BY <2>1 DEF Known
  <2> QED BY <2>1, <2>2, PagesCounted DEF ValidPage
<1> QED BY <1>1, AlwaysInv, PTL
-----------------------------------------------------------------------------
(* FlattenSeq, a recursive function: it is the only one that its recursion allows,  *)
(* so that whatever satisfies the recursion is what FlattenSeq computes.            *)

\* Natural numbers have no descending chain: the least counterexample stands for an
\* induction.
LEMMA LeastNat ==
  ASSUME NEW T \in SUBSET Nat, T # {}
  PROVE  \E x \in T : \A y \in T : x <= y
<1> DEFINE R == OpToRel(<, Nat)
<1>1. \A a, b \in Nat : a < b => <<a, b>> \in R
  BY DEF OpToRel
<1>2. IsWellFoundedOn(R, Nat)
  BY NatLessThanWellFounded
<1> HIDE DEF R
<1>3. PICK x \in T : \A y \in T : ~ (<<y, x>> \in R)
  BY <1>2, WFMin
<1>4. \A y \in T : y \in Nat /\ x \in Nat /\ ~(y < x)
  BY <1>1, <1>3, Zenon
<1>5. \A y \in T : x <= y
  BY <1>4
<1> QED BY <1>5

Flattens(s, f) == f = [i \in 1 .. Len(s) |-> IF i = 1 THEN s[i] ELSE f[i - 1] \o s[i]]

LEMMA FlattensOnce ==
  ASSUME NEW s, Len(s) \in Nat, NEW f, NEW g, Flattens(s, f), Flattens(s, g)
  PROVE  f = g
<1> DEFINE Differ == {i \in 1 .. Len(s) : f[i] # g[i]}
<1>1. /\ f = [i \in 1 .. Len(s) |-> IF i = 1 THEN s[i] ELSE f[i - 1] \o s[i]]
      /\ g = [i \in 1 .. Len(s) |-> IF i = 1 THEN s[i] ELSE g[i - 1] \o s[i]]
  BY DEF Flattens
<1>2. ASSUME Differ # {} PROVE FALSE
  <2>1. Differ \in SUBSET Nat
    OBVIOUS
  <2>2. PICK x \in Differ : \A y \in Differ : x <= y
    <3> HIDE DEF Differ
    <3> QED BY <1>2, <2>1, LeastNat
  <2>3. x \in 1 .. Len(s) /\ f[x] # g[x]
    OBVIOUS
  <2>4. x # 1
    BY <1>1, <2>3
  <2>5. x - 1 \in 1 .. Len(s) /\ x - 1 \notin Differ
    BY <2>1, <2>2, <2>3, <2>4
  <2>6. f[x - 1] = g[x - 1]
    BY <2>5
  <2>7. f[x] = f[x - 1] \o s[x] /\ g[x] = g[x - 1] \o s[x]
    BY <1>1, <2>3, <2>4
  <2> QED BY <2>3, <2>6, <2>7
<1>3. \A i \in 1 .. Len(s) : f[i] = g[i]
  BY <1>2
<1>4. /\ f = [i \in 1 .. Len(s) |-> f[i]]
      /\ g = [i \in 1 .. Len(s) |-> g[i]]
  BY <1>1, Zenon
<1> QED BY <1>3, <1>4

LEMMA Flattened ==
  ASSUME NEW s, Len(s) \in Nat \ {0}, NEW f, Flattens(s, f)
  PROVE  FlattenSeq(s) = f[Len(s)]
<1> DEFINE h == CHOOSE g : Flattens(s, g)
<1>1. Flattens(s, h)
  BY Zenon
<1>2. h = f
  <2> HIDE DEF h
  <2> QED BY <1>1, FlattensOnce
<1>3. FlattenSeq(s) = h[Len(s)]
  BY DEF FlattenSeq, Flattens
<1> QED BY <1>2, <1>3

-----------------------------------------------------------------------------
(* The pages of a file, one after the other, are a prefix of it. *)

\* The last line of the first n pages.
LastLine(file, n) == IF n * PageSize < Len(file) THEN n * PageSize ELSE Len(file)

Piece(file, n) == SubSeq(file, (n - 1) * PageSize + 1, LastLine(file, n))

LEMMA LastLines ==
  ASSUME NEW file \in Seq(Line), NEW n \in Nat \ {0}
  PROVE  /\ LastLine(file, n) \in 0 .. Len(file)
         /\ LastLine(file, n - 1) \in 0 .. LastLine(file, n)
         /\ (n - 1) * PageSize \in Nat
         /\ (n - 1) * PageSize <= Len(file) => LastLine(file, n - 1) = (n - 1) * PageSize
         /\ (n - 1) * PageSize > Len(file) => LastLine(file, n) = Len(file)
                                                /\ LastLine(file, n - 1) = Len(file)
<1> DEFINE start == (n - 1) * PageSize
           end == n * PageSize
<1>1. start \in Nat /\ end \in Nat /\ end = start + PageSize /\ Len(file) \in Nat
  BY PagesAssumption
<1>2. start <= end
  BY <1>1, PagesAssumption
<1>3. /\ LastLine(file, n) = IF end < Len(file) THEN end ELSE Len(file)
      /\ LastLine(file, n - 1) = IF start < Len(file) THEN start ELSE Len(file)
  BY DEF LastLine
<1> HIDE DEF start, end
<1>4. /\ LastLine(file, n) \in 0 .. Len(file)
      /\ LastLine(file, n - 1) \in 0 .. LastLine(file, n)
  BY <1>1, <1>2, <1>3
<1>5. /\ start <= Len(file) => LastLine(file, n - 1) = start
      /\ start > Len(file) => LastLine(file, n) = Len(file) /\ LastLine(file, n - 1) = Len(file)
  BY <1>1, <1>2, <1>3
<1> QED BY <1>1, <1>4, <1>5 DEF start

LEMMA NextPiece ==
  ASSUME NEW file \in Seq(Line), NEW n \in Nat \ {0}
  PROVE  SubSeq(file, 1, LastLine(file, n - 1)) \o Piece(file, n)
           = SubSeq(file, 1, LastLine(file, n))
<1> DEFINE start == (n - 1) * PageSize
           k == LastLine(file, n - 1)
           e == LastLine(file, n)
<1>1. e \in 0 .. Len(file) /\ k \in 0 .. e /\ start \in Nat /\ Len(file) \in Nat
  <2>1. Len(file) \in Nat
    OBVIOUS
  <2> QED BY <2>1, LastLines, Zenon
<1>2. start <= Len(file) => k = start
  BY LastLines
<1>3. start > Len(file) => e = Len(file) /\ k = Len(file)
  BY LastLines
<1>4. Piece(file, n) = SubSeq(file, start + 1, e)
  BY Zenon DEF Piece
<1> HIDE DEF start, k, e
<1>5. ASSUME start <= Len(file) PROVE SubSeq(file, 1, k) \o Piece(file, n) = SubSeq(file, 1, e)
  <2>1. /\ 1 \in 1 .. Len(file) + 1
        /\ k \in 1 - 1 .. Len(file)
        /\ e \in k .. Len(file)
    BY <1>1
  <2>2. SubSeq(file, 1, k) \o SubSeq(file, k + 1, e) = SubSeq(file, 1, e)
    BY <2>1, ConcatAdjacentSubSeq
  <2> QED BY <1>2, <1>4, <1>5, <2>2
<1>6. ASSUME start > Len(file) PROVE SubSeq(file, 1, k) \o Piece(file, n) = SubSeq(file, 1, e)
  <2>1. SubSeq(file, start + 1, e) = << >>
    BY <1>1, <1>3, <1>6, SubSeqEmpty
  <2>2. SubSeq(file, 1, k) = file /\ SubSeq(file, 1, e) = file
    BY <1>3, <1>6, SubSeqFull
  <2>3. file \o << >> = file
    BY ConcatEmptySeq
  <2>4. SubSeq(file, 1, k) \o Piece(file, n) = SubSeq(file, 1, e)
    BY <1>4, <2>1, <2>2, <2>3, Zenon
  <2> QED BY <2>4
<1>7. SubSeq(file, 1, k) \o Piece(file, n) = SubSeq(file, 1, e)
  BY <1>1, <1>5, <1>6
<1> QED BY <1>7 DEF k, e

\* FlattenSeq, of the first k pages of a file.
LEMMA PiecesFlattened ==
  ASSUME NEW file \in Seq(Line), NEW k \in Nat \ {0}
  PROVE  FlattenSeq([n \in 1 .. k |-> Piece(file, n)]) = SubSeq(file, 1, LastLine(file, k))
<1> DEFINE s == [n \in 1 .. k |-> Piece(file, n)]
           f == [n \in 1 .. k |-> SubSeq(file, 1, LastLine(file, n))]
<1>1. Len(s) = k
  OBVIOUS
<1>2. ASSUME NEW i \in 1 .. k
      PROVE  f[i] = IF i = 1 THEN s[i] ELSE f[i - 1] \o s[i]
  <2>1. CASE i = 1
    <3>1. (1 - 1) * PageSize + 1 = 1
      BY PagesAssumption
    <3>2. Piece(file, 1) = SubSeq(file, 1, LastLine(file, 1))
      BY <3>1, Zenon DEF Piece
    <3> QED BY <2>1, <3>2
  <2>2. CASE i # 1
    <3>1. i - 1 \in 1 .. k /\ i \in Nat \ {0}
      BY <2>2
    <3>2. f[i - 1] = SubSeq(file, 1, LastLine(file, i - 1))
      BY <3>1
    <3> QED BY <2>2, <3>1, <3>2, NextPiece
  <2> QED BY <2>1, <2>2
<1>3. f = [i \in 1 .. k |-> f[i]]
  OBVIOUS
<1> HIDE DEF s, f
<1>4. Flattens(s, f)
  BY <1>1, <1>2, <1>3 DEF Flattens
<1>5. FlattenSeq(s) = f[k]
  BY <1>1, <1>4, Flattened
<1> QED BY <1>5 DEF s, f

-----------------------------------------------------------------------------
(* All rows. *)

\* The total of the query is the number of lines in its file, for good.
Complete(q) == /\ Finished(q)
               /\ kind[q] = "plain" => answer[q].total = Len(stream[q].file)

\* A query has been ready when it has a page in the cache or on the screen, and what
\* is on the screen is not pivoted.
CompleteInv ==
    /\ queryUuid \in Shown /\ shown.query \in Shown /\ fetchArgs.query \in Shown
    /\ \A q \in Queries, p \in Pages : cached[q][p].data = "ready" => Complete(q)
    /\ pages # <<>> => Complete(shown.query)

LEMMA StaysComplete ==
  ASSUME RowInv, NEW q \in Queries, QueryStep(q) \/ CancelQuery(q)
  PROVE  kind' = kind /\ \A x \in Queries : Complete(x) => Complete(x)'
<1>1. /\ answer \in [Queries -> [status : Statuses, total : Nat]]
      /\ stream \in [Queries -> Streams]
  BY DEF RowInv, RowsTypeOK
<1>2. kind' = kind
  BY DEF QueryStep, WarehouseRow, WarehouseDone, QueryFails, CancelQuery
<1>3. ASSUME NEW x \in Queries, Finished(x)
      PROVE  answer'[x].total = answer[x].total /\ stream'[x] = stream[x] /\ Finished(x)'
  <2>1. CASE WarehouseRow(q)
    BY <1>1, <1>3, <2>1 DEF WarehouseRow, Finished
  <2>2. CASE WarehouseDone(q)
    BY <1>1, <1>3, <2>2 DEF WarehouseDone, Finished
  <2>3. CASE QueryFails(q)
    BY <1>1, <1>3, <2>3 DEF QueryFails, Finished
  <2>4. CASE CancelQuery(q)
    BY <1>1, <1>3, <2>4 DEF CancelQuery, Finished
  <2> QED BY <2>1, <2>2, <2>3, <2>4 DEF QueryStep
<1> QED BY <1>2, <1>3 DEF Complete

LEMMA InitComplete == Init => CompleteInv
<1> SUFFICES ASSUME Init PROVE CompleteInv
  OBVIOUS
<1>1. /\ queryUuid \in Shown /\ shown.query = NoQuery /\ fetchArgs.query = NoQuery
      /\ pages = <<>>
  BY DEF Init, NoKey
<1>2. \A q \in Queries, p \in Pages : cached[q][p].data = "none"
  BY DEF Init, NoEntry
<1>3. NoQuery \in Shown
  BY DEF Shown
<1> QED BY <1>1, <1>2, <1>3 DEF CompleteInv

\* The query client: a page is ready only when its query has been.
LEMMA CompleteInCache ==
  ASSUME Inv, CompleteInv, NEW q \in Queries, NEW p \in Pages,
         Answered(q, p) \/ RequestFails(q, p) \/ PollAgain(q, p) \/ Forget(q, p)
  PROVE  CompleteInv'
<1>1. /\ cached \in [Queries -> [Pages -> Entry]] /\ FilesDone
      /\ kind \in [Queries -> Kinds]
  BY DEF Inv, TypeOK, RowInv, RowsTypeOK
<1>2. UNCHANGED <<rowVars, queryUuid, fetchArgs, pages, shown>>
  BY DEF Answered, RequestFails, PollAgain, Forget
<1>3. answer[q].status = "ready" => Complete(q)
  BY <1>1 DEF FilesDone, FileDone, Complete, Finished
<1>4. PICK e : /\ cached' = [cached EXCEPT ![q][p] = e]
               /\ e.data = "ready" => cached[q][p].data = "ready" \/ answer[q].status = "ready"
  <2>0. cached[q][p] \in Entry
    BY <1>1
  <2>1. CASE Answered(q, p)
    <3>1. CASE /\ answer[q].status = "pending"
               /\ cached' = [cached EXCEPT ![q][p] = [data |-> "pending", invalid |-> FALSE,
                              fetching |-> FALSE, timer |-> TRUE, failed |-> FALSE]]
      <4> DEFINE e == [data |-> "pending", invalid |-> FALSE,
                       fetching |-> FALSE, timer |-> TRUE, failed |-> FALSE]
      <4>1. cached' = [cached EXCEPT ![q][p] = e]
        BY <3>1
      <4>2. e.data # "ready"
        OBVIOUS
      <4> HIDE DEF e
      <4> QED BY <4>1, <4>2
    <3>2. CASE /\ answer[q].status = "ready"
               /\ cached' = [cached EXCEPT ![q][p] = [data |-> "ready", invalid |-> FALSE,
                              fetching |-> FALSE, timer |-> FALSE, failed |-> FALSE]]
      BY <3>2
    <3>3. CASE cached' = [cached EXCEPT ![q][p].fetching = FALSE, ![q][p].failed = TRUE]
      <4> DEFINE e == [cached[q][p] EXCEPT !.fetching = FALSE, !.failed = TRUE]
      <4>1. cached' = [cached EXCEPT ![q][p] = e]
        BY <1>1, <3>3
      <4>2. e.data = cached[q][p].data
        BY <2>0 DEF Entry
      <4> HIDE DEF e
      <4> QED BY <4>1, <4>2
    <3> QED BY <2>1, <3>1, <3>2, <3>3 DEF Answered
  <2>2. CASE RequestFails(q, p)
    <3> DEFINE e == [cached[q][p] EXCEPT !.fetching = FALSE, !.failed = TRUE]
    <3>1. cached' = [cached EXCEPT ![q][p] = e]
      BY <1>1, <2>2 DEF RequestFails
    <3>2. e.data = cached[q][p].data
      BY <2>0 DEF Entry
    <3> HIDE DEF e
    <3> QED BY <3>1, <3>2
  <2>3. CASE PollAgain(q, p)
    <3> DEFINE e == [cached[q][p] EXCEPT !.timer = FALSE, !.invalid = TRUE,
                       !.fetching = @ \/ shown.args = [query |-> q, page |-> p]]
    <3>1. cached' = [cached EXCEPT ![q][p] = e]
      BY <1>1, <2>3 DEF PollAgain
    <3>2. e.data = cached[q][p].data
      BY <2>0 DEF Entry
    <3> HIDE DEF e
    <3> QED BY <3>1, <3>2
  <2>4. CASE Forget(q, p)
    <3>1. cached' = [cached EXCEPT ![q][p] = NoEntry] /\ NoEntry.data = "none"
      BY <2>4 DEF Forget, NoEntry
    <3> QED BY <3>1
  <2> QED BY <2>1, <2>2, <2>3, <2>4
<1>5. ASSUME NEW x \in Queries, NEW y \in Pages, cached'[x][y].data = "ready" PROVE Complete(x)
  <2>1. CASE x = q /\ y = p
    <3>1. cached'[x][y] = e
      BY <1>1, <1>4, <2>1
    <3> QED BY <1>3, <1>4, <1>5, <2>1, <3>1 DEF CompleteInv
  <2>2. CASE x # q \/ y # p
    <3>1. cached'[x][y] = cached[x][y]
      BY <1>1, <1>4, <2>2
    <3> QED BY <1>5, <3>1 DEF CompleteInv
  <2> QED BY <2>1, <2>2
<1> QED BY <1>2, <1>5 DEF CompleteInv, Complete, Finished, Shown, rowVars

\* What is appended has come for the query that is on the screen.
LEMMA CompleteOnScreen ==
  ASSUME Inv, CompleteInv, Render
  PROVE  CompleteInv'
<1> DEFINE changed == queryUuid # shown.query
           args == IF changed THEN [query |-> queryUuid, page |-> 1] ELSE fetchArgs
<1>1. /\ shown' = Current
      /\ cached' = Observed(fetchArgs)
      /\ pages' # <<>> => ~changed /\ (pages # <<>> \/ Current.data = "ready")
      /\ fetchArgs' = IF fetchAll THEN MoreRows(args, pages, queryUuid) ELSE args
      /\ UNCHANGED <<rowVars, queryUuid>>
  BY DEF Render
<1>2. /\ fetchArgs \in Keys /\ pages \in Seq(Keys) /\ queryUuid \in Queries \cup {NoQuery}
      /\ cached \in [Queries -> [Pages -> Entry]] /\ fetchArgs.query = shown.query
  BY DEF Inv, HookInv, ArgsInv, TypeOK
<1>3. shown'.query = queryUuid
  BY <1>1 DEF Current
<1>4. args \in Keys /\ args.query \in Shown
  BY <1>2, RowsAssumption DEF Keys, Pages, CompleteInv
<1>5. fetchArgs'.query \in Shown
  <2> HIDE DEF args
  <2>1. MoreRows(args, pages, queryUuid).query = args.query
    BY <1>4 DEF MoreRows, Keys
  <2> QED BY <1>1, <1>4, <2>1
<1>6. ASSUME NEW x \in Queries, NEW y \in Pages, cached'[x][y].data = "ready" PROVE Complete(x)
  <2>1. cached'[x][y].data = cached[x][y].data
    BY <1>1, <1>2 DEF Observed, Keys, Entry
  <2> QED BY <1>6, <2>1 DEF CompleteInv
<1>7. ASSUME pages' # <<>> PROVE Complete(shown'.query)
  <2>1. queryUuid = shown.query
    BY <1>1, <1>7
  <2>2. CASE pages # <<>>
    BY <1>3, <2>1, <2>2 DEF CompleteInv
  <2>3. CASE Current.data = "ready"
    <3>1. Data(fetchArgs) = "ready"
      BY <2>3 DEF Current
    <3>2. fetchArgs.query \in Queries /\ fetchArgs.page \in Pages
      BY <1>2, <3>1 DEF Data, Keys
    <3>3. cached[fetchArgs.query][fetchArgs.page].data = "ready"
      BY <3>1 DEF Data
    <3> QED BY <1>2, <1>3, <2>1, <3>2, <3>3 DEF CompleteInv
  <2> QED BY <1>1, <1>7, <2>2, <2>3
<1>8. queryUuid \in Shown
  BY DEF CompleteInv
<1> QED BY <1>1, <1>3, <1>5, <1>6, <1>7, <1>8 DEF CompleteInv, Complete, Finished, Shown, rowVars

LEMMA CompleteStep == ASSUME Inv, CompleteInv, [Next]_vars PROVE CompleteInv'
<1>1. RowInv /\ TypeOK /\ PagesInv
  BY DEF Inv, HookInv
<1>2. ASSUME NEW q \in Queries, ServerStep(q) \/ Cancel(q) PROVE CompleteInv'
  <2>1. QueryStep(q) \/ CancelQuery(q)
    BY <1>2 DEF ServerStep, Cancel
  <2>2. UNCHANGED <<queryUuid, fetchArgs, pages, shown, cached>>
    BY <1>2 DEF ServerStep, Cancel, hookVars
  <2>3. kind' = kind /\ \A x \in Queries : Complete(x) => Complete(x)'
    BY <1>1, <2>1, StaysComplete
  <2>4. pages # <<>> => shown.query \in Queries
    BY <1>1 DEF PagesInv
  <2>5. Shown' = Shown
    BY <2>3 DEF Shown
  <2> QED BY <2>2, <2>3, <2>4, <2>5 DEF CompleteInv
<1>3. ASSUME NEW q \in Queries, NEW p \in Pages,
             Answered(q, p) \/ RequestFails(q, p) \/ PollAgain(q, p) \/ Forget(q, p)
      PROVE  CompleteInv'
  BY <1>3, CompleteInCache
<1>4. ASSUME NEW q \in Shown, ChangeQuery(q) PROVE CompleteInv'
  BY <1>4 DEF ChangeQuery, CompleteInv, Complete, Finished, Shown, rowVars
<1>5. CASE ScrollToEnd
  <2>1. /\ fetchArgs' = MoreRows(fetchArgs, shown.pages, shown.query)
        /\ UNCHANGED <<rowVars, queryUuid, pages, shown, cached>>
    BY <1>5 DEF ScrollToEnd
  <2>2. fetchArgs'.query = fetchArgs.query
    BY <1>1, <2>1 DEF MoreRows, TypeOK, Keys
  <2> QED BY <2>1, <2>2 DEF CompleteInv, Complete, Finished, Shown, rowVars
<1>6. CASE Render
  BY <1>6, CompleteOnScreen
<1>7. CASE UNCHANGED vars
  BY <1>7 DEF vars, hookVars, CompleteInv, Complete, Finished, Shown, rowVars
<1> QED BY <1>2, <1>3, <1>4, <1>5, <1>6, <1>7 DEF Next

\* The rows that the pages have together are the first lines of the file.
LEMMA RowsFetched ==
  ASSUME Inv, pages # <<>>
  PROVE  LET file == stream[shown.query].file
         IN  file \in Seq(Line) /\ FetchedRows = SubSeq(file, 1, LastLine(file, Len(pages)))
<1> DEFINE file == stream[shown.query].file
           k == Len(pages)
<1>1. /\ \A n \in DOMAIN pages : pages[n] = [query |-> shown.query, page |-> n]
      /\ shown.query \in Queries
  BY DEF Inv, HookInv, PagesInv
<1>2. pages \in Seq(Keys)
  BY DEF Inv, TypeOK
<1>3. k \in Nat \ {0} /\ DOMAIN pages = 1 .. k
  BY <1>2
<1>4. file \in Seq(Line)
  BY <1>1 DEF Inv, TypeOK, RowsTypeOK, Streams
<1>5. ASSUME NEW n \in 1 .. k
      PROVE  LinesOfPage(pages[n].query, pages[n].page) = Piece(file, n)
  <2>1. pages[n].query = shown.query /\ pages[n].page = n
    BY <1>1, <1>3
  <2>2. (n - 1) * PageSize + PageSize = n * PageSize
    BY PagesAssumption
  <2> QED BY <2>1, <2>2, Zenon DEF LinesOfPage, Piece, LastLine
<1>6. FetchedRows = FlattenSeq([n \in 1 .. k |-> Piece(file, n)])
  <2> HIDE DEF file
  <2>1. [n \in DOMAIN pages |-> LinesOfPage(pages[n].query, pages[n].page)]
          = [n \in 1 .. k |-> Piece(file, n)]
    BY <1>3, <1>5
  <2> QED BY <2>1 DEF FetchedRows
<1> HIDE DEF file, k
<1>7. FetchedRows = SubSeq(file, 1, LastLine(file, k))
  BY <1>3, <1>4, <1>6, PiecesFlattened
<1> QED BY <1>4, <1>7 DEF file, k

\* When the rows that were fetched are as many as the query has, the hook has them all
\* (hasFetchedAllRows of useInfiniteQueryResults): they are the whole file, in order,
\* through cancellations, failed requests, pages from the cache and changes of the
\* query on the screen, for every page size.
THEOREM AllRowsWhenItSaysSo == Spec => []AllRowsAreThere
<1>1. ASSUME Inv, CompleteInv PROVE AllRowsAreThere
  <2> SUFFICES ASSUME HasFetchedAllRows PROVE FetchedRows = stream[shown.query].file
    BY DEF AllRowsAreThere
  <2> DEFINE q == shown.query
             file == stream[q].file
             e == LastLine(file, Len(pages))
  <2>1. pages # <<>> /\ Len(FetchedRows) >= answer[pages[1].query].total
    BY DEF HasFetchedAllRows
  <2>2. file \in Seq(Line) /\ FetchedRows = SubSeq(file, 1, e)
    BY <1>1, <2>1, RowsFetched
  <2>3. pages \in Seq(Keys)
    BY <1>1 DEF Inv, TypeOK
  <2>4. pages[1].query = q /\ q \in Queries
    BY <1>1, <2>1, <2>3 DEF Inv, HookInv, PagesInv
  <2>5. kind[q] = "plain"
    BY <1>1, <2>4, PagesAssumption DEF CompleteInv, Shown
  <2>6. answer[q].total = Len(file)
    BY <1>1, <2>1, <2>5 DEF CompleteInv, Complete
  <2>7. e \in 0 .. Len(file)
    <3>1. Len(pages) \in Nat \ {0}
      BY <2>1, <2>3
    <3> HIDE DEF file
    <3> QED BY <2>2, <3>1, LastLines
  <2> HIDE DEF q, file, e
  <2>8. Len(FetchedRows) = e /\ Len(file) \in Nat
    BY <2>2, <2>7
  <2>9. e = Len(file)
    BY <2>1, <2>4, <2>6, <2>7, <2>8
  <2>10. FetchedRows = file
    BY <2>2, <2>9, SubSeqFull
  <2> QED BY <2>10 DEF file, q
<1>2. Init => CompleteInv
  BY InitComplete
<1>3. Inv /\ CompleteInv /\ [Next]_vars => CompleteInv'
  BY CompleteStep
<1>4. Spec => []CompleteInv
  BY <1>2, <1>3, AlwaysInv, PTL DEF Spec
<1> QED BY <1>1, <1>4, AlwaysInv, PTL

-----------------------------------------------------------------------------
(* Nothing is forgotten. *)

\* A page that the server has not made yet is asked for again, or stale.
Polled ==
    \A q \in Queries, p \in Pages :
        cached[q][p].data = "pending" => cached[q][p].timer \/ cached[q][p].invalid

\* The page of the last render is there or on its way, or it failed.
Looked ==
    LET key == shown.args
        e == cached[key.query][key.page]
    IN  key.query # NoQuery /\ e.data # "ready" => e.fetching \/ e.timer \/ e.failed

\* A page that was rendered with its rows was appended.
WasAppended == fetchArgs = shown.args /\ shown.data = "ready" => fetchArgs.page = Len(pages)

\* A chart that does not want all rows yet has another render coming.
WillWantAll == chart /\ ~fetchAll /\ fetchArgs.query # NoQuery => fetchArgs # shown.args

\* A render that wanted all rows asked for the page after those it was made of.
AskedForMore ==
    LET last == shown.pages[Len(shown.pages)]
    IN  /\ shown.fetchAll /\ shown.pages # <<>>
        /\ last.query = shown.query /\ HasNextPage(last.query, last.page)
        => fetchArgs.page = last.page + 1

OnlyCharts == fetchAll \/ shown.fetchAll => chart

MoveInv == Polled /\ Looked /\ WasAppended /\ WillWantAll /\ AskedForMore /\ OnlyCharts

LEMMA InitMoves == Init => MoveInv
<1> SUFFICES ASSUME Init PROVE MoveInv
  OBVIOUS
<1>1. /\ fetchArgs = NoKey /\ NoKey.query = NoQuery /\ pages = <<>>
      /\ shown.args = NoKey /\ shown.fetchAll = FALSE /\ shown.data = "none"
      /\ fetchAll = FALSE
  BY DEF Init, NoKey
<1>2. \A q \in Queries, p \in Pages : cached[q][p].data = "none"
  BY DEF Init, NoEntry
<1> QED BY <1>1, <1>2 DEF MoveInv, Polled, Looked, WasAppended, WillWantAll, AskedForMore, OnlyCharts

\* The number of pages of what was rendered does not change.
LEMMA MoreAsBefore ==
  ASSUME Inv, MoveInv, UNCHANGED <<fetchArgs, shown>>,
         \A q \in Queries : Finished(q) => PageCount(q)' = PageCount(q)
  PROVE  AskedForMore'
<1> DEFINE last == shown.pages[Len(shown.pages)]
<1> SUFFICES ASSUME shown.fetchAll, shown.pages # <<>>, last.query = shown.query,
                    HasNextPage(last.query, last.page)'
             PROVE  fetchArgs.page = last.page + 1
  BY DEF AskedForMore
<1>1. shown.pages \in Seq(Keys)
  BY DEF Inv, TypeOK
<1>2. Len(shown.pages) \in DOMAIN shown.pages
  BY <1>1
<1>3. last.query \in Queries /\ Finished(last.query)
  BY <1>2 DEF Inv, HookInv, PagesInv
<1>4. HasNextPage(last.query, last.page)
  BY <1>3 DEF HasNextPage
<1> QED BY <1>4 DEF MoveInv, AskedForMore

LEMMA ServerMoves ==
  ASSUME Inv, MoveInv, NEW q \in Queries, ServerStep(q) \/ Cancel(q)
  PROVE  MoveInv'
<1>1. UNCHANGED hookVars
  BY DEF ServerStep, Cancel
<1>2. Steady
  BY ServerIsSteady DEF ServerStep, Cancel, Inv
<1>3. AskedForMore'
  BY <1>1, <1>2, MoreAsBefore DEF Steady, hookVars
<1> QED BY <1>1, <1>3 DEF MoveInv, Polled, Looked, WasAppended, WillWantAll, OnlyCharts, hookVars

LEMMA EntryMoves ==
  ASSUME Inv, MoveInv, NEW q \in Queries, NEW p \in Pages, NEW e \in Entry,
         cached' = [cached EXCEPT ![q][p] = e],
         e.data = "pending" => e.timer \/ e.invalid,
         shown.args = [query |-> q, page |-> p] /\ e.data # "ready" =>
             e.fetching \/ e.timer \/ e.failed,
         UNCHANGED <<rowVars, chart, queryUuid, fetchArgs, pages, fetchAll, shown>>
  PROVE  MoveInv'
<1>1. cached \in [Queries -> [Pages -> Entry]]
  BY DEF Inv, TypeOK
<1>2. /\ cached'[q][p] = e
      /\ \A x \in Queries, y \in Pages : x # q \/ y # p => cached'[x][y] = cached[x][y]
  BY <1>1
<1>3. Polled'
  <2> SUFFICES ASSUME NEW x \in Queries, NEW y \in Pages, cached'[x][y].data = "pending"
               PROVE  cached'[x][y].timer \/ cached'[x][y].invalid
    BY DEF Polled
  <2>1. CASE x = q /\ y = p
    BY <1>2, <2>1
  <2>2. CASE x # q \/ y # p
    BY <1>2, <2>2 DEF MoveInv, Polled
  <2> QED BY <2>1, <2>2
<1>4. Looked'
  <2> DEFINE key == shown.args
  <2> SUFFICES ASSUME key.query # NoQuery, cached'[key.query][key.page].data # "ready"
               PROVE  \/ cached'[key.query][key.page].fetching
                      \/ cached'[key.query][key.page].timer
                      \/ cached'[key.query][key.page].failed
    BY DEF Looked
  <2>1. /\ key = [query |-> key.query, page |-> key.page]
        /\ key.query \in Queries /\ key.page \in Pages
    BY DEF Inv, TypeOK, Keys
  <2>2. CASE key.query = q /\ key.page = p
    BY <1>2, <2>1, <2>2
  <2>3. CASE key.query # q \/ key.page # p
    BY <1>2, <2>1, <2>3 DEF MoveInv, Looked
  <2> QED BY <2>2, <2>3
<1>5. AskedForMore'
  BY MoreAsBefore DEF PageCount, rowVars
<1> QED BY <1>3, <1>4, <1>5 DEF MoveInv, WasAppended, WillWantAll, OnlyCharts

LEMMA ClientMoves ==
  ASSUME Inv, MoveInv, NEW q \in Queries, NEW p \in Pages,
         Answered(q, p) \/ RequestFails(q, p) \/ PollAgain(q, p) \/ Forget(q, p)
  PROVE  MoveInv'
<1>1. UNCHANGED <<rowVars, chart, queryUuid, fetchArgs, pages, fetchAll, shown>>
  BY DEF Answered, RequestFails, PollAgain, Forget
<1>2. cached \in [Queries -> [Pages -> Entry]] /\ cached[q][p] \in Entry
  BY DEF Inv, TypeOK
<1>3. cached[q][p].data = "pending" => cached[q][p].timer \/ cached[q][p].invalid
  BY DEF MoveInv, Polled
<1>4. CASE cached' = [cached EXCEPT ![q][p].fetching = FALSE, ![q][p].failed = TRUE]
  <2> DEFINE e == [cached[q][p] EXCEPT !.fetching = FALSE, !.failed = TRUE]
  <2>1. /\ e \in Entry /\ e.data = cached[q][p].data /\ e.failed
        /\ e.timer = cached[q][p].timer /\ e.invalid = cached[q][p].invalid
    BY <1>2 DEF Entry
  <2>2. cached' = [cached EXCEPT ![q][p] = e]
    BY <1>2, <1>4
  <2> HIDE DEF e
  <2> QED BY <1>1, <1>3, <2>1, <2>2, EntryMoves
<1>5. ASSUME NEW data \in {"pending", "ready"}, NEW timer \in BOOLEAN,
             data = "pending" => timer,
             cached' = [cached EXCEPT ![q][p] = [data |-> data, invalid |-> FALSE,
                              fetching |-> FALSE, timer |-> timer, failed |-> FALSE]]
      PROVE  MoveInv'
  <2> DEFINE e == [data |-> data, invalid |-> FALSE,
                   fetching |-> FALSE, timer |-> timer, failed |-> FALSE]
  <2>1. e \in Entry
    BY DEF Entry
  <2>2. /\ e.data = "pending" => e.timer \/ e.invalid
        /\ e.data # "ready" => e.fetching \/ e.timer \/ e.failed
    BY <1>5
  <2>3. cached' = [cached EXCEPT ![q][p] = e]
    BY <1>5
  <2> HIDE DEF e
  <2> QED BY <1>1, <2>1, <2>2, <2>3, EntryMoves
<1>6. CASE Answered(q, p)
  BY <1>4, <1>5, <1>6 DEF Answered
<1>7. CASE RequestFails(q, p)
  BY <1>4, <1>7 DEF RequestFails
<1>8. CASE PollAgain(q, p)
  <2> DEFINE e == [cached[q][p] EXCEPT
                     !.timer = FALSE, !.invalid = TRUE,
                     !.fetching = @ \/ shown.args = [query |-> q, page |-> p]]
  <2>1. e \in Entry /\ e.invalid /\ (shown.args = [query |-> q, page |-> p] => e.fetching)
    BY <1>2 DEF Entry
  <2>2. cached' = [cached EXCEPT ![q][p] = e]
    BY <1>2, <1>8 DEF PollAgain
  <2> HIDE DEF e
  <2> QED BY <1>1, <2>1, <2>2, EntryMoves
<1>9. CASE Forget(q, p)
  <2>1. NoEntry \in Entry /\ NoEntry.data = "none"
    BY DEF NoEntry, Entry
  <2>2. /\ shown.args # [query |-> q, page |-> p]
        /\ cached' = [cached EXCEPT ![q][p] = NoEntry]
    BY <1>9 DEF Forget
  <2> QED BY <1>1, <2>1, <2>2, EntryMoves
<1> QED BY <1>6, <1>7, <1>8, <1>9

\* A table that is scrolled: the page was rendered and appended before the next one is
\* asked for.
LEMMA ScrollMoves ==
  ASSUME Inv, MoveInv, ScrollToEnd
  PROVE  MoveInv'
<1>1. /\ ~chart /\ fetchArgs' # fetchArgs
      /\ UNCHANGED <<rowVars, chart, queryUuid, pages, fetchAll, shown, cached, bounds>>
  BY DEF ScrollToEnd
<1>2. /\ fetchArgs' \in Keys /\ HookInv' /\ fetchArgs \in Keys
  BY ScrollHook DEF Inv, TypeOK
<1>3. fetchArgs'.query = fetchArgs.query
  BY <1>1, <1>2 DEF HookInv, ArgsInv, Inv
<1>4. ASSUME fetchArgs' = shown.args, shown.data = "ready" PROVE fetchArgs'.page = Len(pages)
  <2>1. fetchArgs'.page = Len(pages) + 1 \/ fetchArgs'.page = Len(pages)
    BY <1>1, <1>2 DEF HookInv, ArgsInv
  <2>2. ASSUME fetchArgs'.page = Len(pages) + 1 PROVE FALSE
    <3>1. CASE fetchArgs.page = Len(pages) + 1
      BY <1>1, <1>2, <1>3, <2>2, <3>1 DEF Keys
    <3>2. CASE fetchArgs = shown.args
      BY <1>1, <1>4, <3>2
    <3> QED BY <3>1, <3>2 DEF Inv, HookInv, ArgsInv
  <2> QED BY <2>1, <2>2
<1> QED BY <1>1, <1>4 DEF MoveInv, Polled, Looked, WasAppended, WillWantAll, AskedForMore, OnlyCharts

LEMMA RenderMoves ==
  ASSUME Inv, MoveInv, Render
  PROVE  MoveInv'
<1> DEFINE new == Current.args # shown.args \/ Current.data # shown.data
           changed == queryUuid # shown.query
           args == IF changed THEN [query |-> queryUuid, page |-> 1] ELSE fetchArgs
           appended == IF new /\ Current.data = "ready" THEN Append(pages, fetchArgs) ELSE pages
<1>1. /\ shown' = Current
      /\ cached' = Observed(fetchArgs)
      /\ pages' = IF changed THEN <<>> ELSE appended
      /\ fetchAll' = IF changed THEN FALSE ELSE chart \/ fetchAll
      /\ fetchArgs' = IF fetchAll THEN MoreRows(args, pages, queryUuid) ELSE args
      /\ UNCHANGED <<rowVars, chart, queryUuid, bounds>>
  BY DEF Render
<1>2. /\ shown'.query = queryUuid /\ shown'.args = fetchArgs /\ shown'.pages = pages
      /\ shown'.data = Data(fetchArgs) /\ shown'.fetchAll = fetchAll
  BY <1>1 DEF Current
<1>3. /\ fetchArgs \in Keys /\ pages \in Seq(Keys) /\ queryUuid \in Queries \cup {NoQuery}
      /\ cached \in [Queries -> [Pages -> Entry]]
      /\ fetchAll \in BOOLEAN /\ chart \in BOOLEAN
  BY DEF Inv, TypeOK
<1>4. fetchArgs.query = shown.query /\ fetchArgs'.query = queryUuid
  BY <1>2, RenderHook DEF HookInv, ArgsInv, Inv
<1>5. \A q \in Queries, p \in Pages :
        /\ cached'[q][p].data = cached[q][p].data
        /\ cached'[q][p].timer = cached[q][p].timer
        /\ cached'[q][p].invalid = cached[q][p].invalid
        /\ cached'[q][p].failed = cached[q][p].failed
        /\ cached[q][p].fetching => cached'[q][p].fetching
        /\ fetchArgs = [query |-> q, page |-> p] /\ fetchArgs # shown.args =>
             \/ cached'[q][p].fetching
             \/ cached[q][p].data # "none" /\ ~cached[q][p].invalid
  <2>1. CASE fetchArgs = shown.args \/ fetchArgs.query = NoQuery
    <3>1. cached' = cached
      BY <1>1, <2>1 DEF Observed
    <3> QED BY <2>1, <3>1, PagesAssumption
  <2>2. CASE fetchArgs # shown.args /\ fetchArgs.query # NoQuery
    <3> DEFINE x == fetchArgs.query
               y == fetchArgs.page
               e == [cached[x][y] EXCEPT
                       !.fetching = @ \/ Data(fetchArgs) = "none" \/ cached[x][y].invalid]
    <3>1. x \in Queries /\ y \in Pages /\ cached[x][y] \in Entry
      BY <1>3, <2>2 DEF Keys
    <3>2. cached' = [cached EXCEPT ![x][y] = e]
      BY <1>1, <1>3, <2>2, <3>1 DEF Observed
    <3>3. Data(fetchArgs) = cached[x][y].data
      BY <2>2 DEF Data
    <3>4. /\ e.data = cached[x][y].data /\ e.timer = cached[x][y].timer
          /\ e.invalid = cached[x][y].invalid /\ e.failed = cached[x][y].failed
          /\ cached[x][y].fetching => e.fetching
          /\ e.fetching \/ (cached[x][y].data # "none" /\ ~cached[x][y].invalid)
      BY <3>1, <3>3 DEF Entry
    <3> HIDE DEF e
    <3>5. /\ cached'[x][y] = e
          /\ \A q \in Queries, p \in Pages : q # x \/ p # y => cached'[q][p] = cached[q][p]
      BY <1>3, <3>1, <3>2
    <3> SUFFICES ASSUME NEW q \in Queries, NEW p \in Pages
          PROVE  /\ cached'[q][p].data = cached[q][p].data
                 /\ cached'[q][p].timer = cached[q][p].timer
                 /\ cached'[q][p].invalid = cached[q][p].invalid
                 /\ cached'[q][p].failed = cached[q][p].failed
                 /\ cached[q][p].fetching => cached'[q][p].fetching
                 /\ fetchArgs = [query |-> q, page |-> p] =>
                      \/ cached'[q][p].fetching
                      \/ cached[q][p].data # "none" /\ ~cached[q][p].invalid
      OBVIOUS
    <3>6. CASE q = x /\ p = y
      BY <3>4, <3>5, <3>6
    <3>7. CASE q # x \/ p # y
      BY <3>5, <3>7
    <3> QED BY <3>6, <3>7
  <2> QED BY <2>1, <2>2
<1>6. Polled'
  BY <1>5 DEF MoveInv, Polled
<1>7. Looked'
  <2> DEFINE e == cached[fetchArgs.query][fetchArgs.page]
             f == cached'[fetchArgs.query][fetchArgs.page]
  <2> SUFFICES ASSUME fetchArgs.query # NoQuery, f.data # "ready"
               PROVE  f.fetching \/ f.timer \/ f.failed
    BY <1>2 DEF Looked
  <2>1. /\ fetchArgs = [query |-> fetchArgs.query, page |-> fetchArgs.page]
        /\ fetchArgs.query \in Queries /\ fetchArgs.page \in Pages
    BY <1>3 DEF Keys
  <2>2. e \in Entry
    BY <1>3, <2>1
  <2>3. /\ f.data = e.data /\ f.timer = e.timer /\ f.failed = e.failed
        /\ e.fetching => f.fetching
        /\ fetchArgs # shown.args => f.fetching \/ (e.data # "none" /\ ~e.invalid)
    BY <1>5, <2>1
  <2>4. e.data = "pending" => e.timer \/ e.invalid
    BY <2>1 DEF MoveInv, Polled
  <2>5. fetchArgs = shown.args => e.fetching \/ e.timer \/ e.failed
    BY <2>3 DEF MoveInv, Looked
  <2> HIDE DEF e, f
  <2> QED BY <2>2, <2>3, <2>4, <2>5 DEF Entry
<1>8. fetchArgs' = fetchArgs => ~changed
  BY <1>4
<1>9. WasAppended'
  <2> SUFFICES ASSUME fetchArgs' = fetchArgs, Data(fetchArgs) = "ready"
               PROVE  fetchArgs.page = Len(pages')
    BY <1>2 DEF WasAppended
  <2>1. ~changed /\ pages' = appended /\ Current.data = "ready" /\ Current.args = fetchArgs
    BY <1>1, <1>8 DEF Current
  <2>2. CASE new
    <3>1. fetchArgs.page = Len(pages) + 1
      BY <2>1, <2>2 DEF Inv, HookInv, ArgsInv
    <3>2. pages' = Append(pages, fetchArgs)
      BY <2>1, <2>2
    <3> QED BY <1>3, <3>1, <3>2
  <2>3. CASE ~new
    <3>1. fetchArgs = shown.args /\ shown.data = "ready" /\ pages' = pages
      BY <2>1, <2>3
    <3> QED BY <3>1 DEF MoveInv, WasAppended
  <2> QED BY <2>2, <2>3
<1>10. WillWantAll'
  <2> SUFFICES ASSUME chart, fetchArgs' = fetchArgs PROVE fetchAll'
    BY <1>1, <1>2 DEF WillWantAll
  <2> QED BY <1>1, <1>8
<1>11. AskedForMore'
  <2> DEFINE last == pages[Len(pages)]
  <2> SUFFICES ASSUME fetchAll, pages # <<>>, last.query = queryUuid,
                      HasNextPage(last.query, last.page)
               PROVE  fetchArgs'.page = last.page + 1
    <3>1. answer' = answer
      BY <1>1 DEF rowVars
    <3> QED BY <1>2, <3>1 DEF AskedForMore, HasNextPage, PageCount
  <2>1. fetchArgs' = [args EXCEPT !.page = last.page + 1]
    <3> HIDE DEF args
    <3> QED BY <1>1 DEF MoreRows
  <2>2. args \in Keys
    BY <1>3, RowsAssumption DEF Keys, Pages
  <2> HIDE DEF args, last
  <2> QED BY <2>1, <2>2 DEF Keys
<1>12. OnlyCharts'
  BY <1>1, <1>2, <1>3 DEF MoveInv, OnlyCharts
<1> QED BY <1>6, <1>7, <1>9, <1>10, <1>11, <1>12 DEF MoveInv

LEMMA MoveStep == ASSUME Inv, MoveInv, [Next]_vars PROVE MoveInv'
<1>1. ASSUME NEW q \in Shown, ChangeQuery(q) PROVE MoveInv'
  <2>1. UNCHANGED <<rowVars, chart, fetchArgs, pages, fetchAll, shown, cached>>
    BY <1>1 DEF ChangeQuery
  <2>2. AskedForMore'
    BY <2>1, MoreAsBefore DEF PageCount, rowVars
  <2> QED BY <2>1, <2>2 DEF MoveInv, Polled, Looked, WasAppended, WillWantAll, OnlyCharts
<1>2. CASE UNCHANGED vars
  <2>1. UNCHANGED <<rowVars, chart, fetchArgs, pages, fetchAll, shown, cached>>
    BY <1>2 DEF vars, hookVars
  <2>2. AskedForMore'
    BY <2>1, MoreAsBefore DEF PageCount, rowVars
  <2> QED BY <2>1, <2>2 DEF MoveInv, Polled, Looked, WasAppended, WillWantAll, OnlyCharts
<1> QED BY <1>1, <1>2, ServerMoves, ClientMoves, ScrollMoves, RenderMoves DEF Next

\* The rows of all pages of a query are all rows.
LEMMA LastPage ==
  ASSUME NEW t \in Nat, NEW k \in Nat \ {0}, k >= (t + PageSize - 1) \div PageSize
  PROVE  k * PageSize >= t
<1> DEFINE d == (t + PageSize - 1) \div PageSize
           r == (t + PageSize - 1) % PageSize
<1>1. d \in Int /\ r \in 0 .. PageSize - 1 /\ t + PageSize - 1 = PageSize * d + r
  BY PagesAssumption, SMT
<1>2. k >= d
  OBVIOUS
<1> HIDE DEF d, r
<1>3. PageSize * k >= PageSize * d
  BY <1>1, <1>2, PagesAssumption, SMT
<1>4. k * PageSize = PageSize * k
  BY PagesAssumption, SMT
<1> QED BY <1>1, <1>3, <1>4, PagesAssumption, SMT

\* Without a page after the last one that was fetched, all rows were fetched.
LEMMA AllPagesAllRows ==
  ASSUME Inv, CompleteInv, pages # <<>>, ~HasNextPage(shown.query, Len(pages))
  PROVE  HasFetchedAllRows
<1> DEFINE q == shown.query
           file == stream[q].file
           k == Len(pages)
<1>1. pages \in Seq(Keys) /\ k \in Nat \ {0}
  BY DEF Inv, TypeOK
<1>2. pages[1].query = q /\ q \in Queries
  BY <1>1 DEF Inv, HookInv, PagesInv
<1>3. kind[q] = "plain"
  BY <1>2, PagesAssumption DEF CompleteInv, Shown
<1>4. file \in Seq(Line) /\ FetchedRows = SubSeq(file, 1, LastLine(file, k))
  BY RowsFetched
<1>5. answer[q].total = Len(file) /\ Len(file) \in Nat
  BY <1>3, <1>4 DEF CompleteInv, Complete
<1>6. k * PageSize >= Len(file)
  <2>1. CASE k >= PageCount(q)
    <3>1. k >= (Len(file) + PageSize - 1) \div PageSize
      BY <1>5, <2>1 DEF PageCount
    <3> HIDE DEF file, k
    <3> QED BY <1>1, <1>5, <3>1, LastPage
  <2>2. CASE PageCount(q) = 0
    <3>1. PageCount(q) = (Len(file) + PageSize - 1) \div PageSize
      BY <1>5 DEF PageCount
    <3> HIDE DEF file, k
    <3> QED BY <1>1, <1>5, <2>2, <3>1, LastPage
  <2> QED BY <2>1, <2>2 DEF HasNextPage
<1> HIDE DEF q, file, k
<1>7. k * PageSize \in Nat
  BY <1>1, PagesAssumption
<1>8. LastLine(file, k) = Len(file)
  BY <1>5, <1>6, <1>7 DEF LastLine
<1>9. Len(FetchedRows) = Len(file)
  BY <1>4, <1>5, <1>8
<1> QED BY <1>2, <1>5, <1>9 DEF HasFetchedAllRows

\* With everything rendered that was set and nothing on its way, the rows are there, in
\* a chart all of them, unless the page failed (useInfiniteQueryResults): no change of
\* the query, no poll that ends while another page is on the screen and no page that
\* the query client forgets leaves the hook waiting for nothing.
THEOREM NothingIsForgotten == Spec => []ScreenIsNotStuck
<1>1. ASSUME Inv, CompleteInv, MoveInv PROVE ScreenIsNotStuck
  <2> SUFFICES ASSUME queryUuid # NoQuery, Current = shown, ~Waiting, ~Failed
               PROVE  pages # <<>> /\ (chart => HasFetchedAllRows)
    BY DEF ScreenIsNotStuck
  <2>1. /\ shown.query = queryUuid /\ shown.args = fetchArgs /\ shown.pages = pages
        /\ shown.fetchAll = fetchAll /\ shown.data = Data(fetchArgs)
    BY DEF Current
  <2>2. /\ fetchArgs.query = queryUuid /\ fetchArgs \in Keys /\ pages \in Seq(Keys)
        /\ \A n \in DOMAIN pages : pages[n] = [query |-> queryUuid, page |-> n]
    BY <1>1, <2>1 DEF Inv, HookInv, ArgsInv, PagesInv, TypeOK
  <2>3. Data(fetchArgs) = "ready"
    BY <1>1, <2>1, <2>2 DEF MoveInv, Looked, Waiting, Failed, Data
  <2>4. fetchArgs.page = Len(pages) /\ fetchArgs.page \in Nat \ {0}
    BY <1>1, <2>1, <2>2, <2>3 DEF MoveInv, WasAppended, Keys, Pages
  <2>5. pages # <<>> /\ Len(pages) \in DOMAIN pages
    BY <2>2, <2>4
  <2>6. ASSUME chart PROVE HasFetchedAllRows
    <3>1. shown.fetchAll
      BY <1>1, <2>1, <2>2, <2>6 DEF MoveInv, WillWantAll
    <3>2. pages[Len(pages)] = [query |-> queryUuid, page |-> Len(pages)]
      BY <2>2, <2>5
    <3>3. fetchArgs.page # Len(pages) + 1
      BY <2>4
    <3>4. ~HasNextPage(shown.query, Len(pages))
      BY <1>1, <2>1, <2>5, <3>1, <3>2, <3>3 DEF MoveInv, AskedForMore
    <3> QED BY <1>1, <2>5, <3>4, AllPagesAllRows
  <2> QED BY <2>5, <2>6
<1>2. Spec => []CompleteInv
  <2>1. Init => CompleteInv
    BY InitComplete
  <2>2. Inv /\ CompleteInv /\ [Next]_vars => CompleteInv'
    BY CompleteStep
  <2> QED BY <2>1, <2>2, AlwaysInv, PTL DEF Spec
<1>3. Init => MoveInv
  BY InitMoves
<1>4. Inv /\ MoveInv /\ [Next]_vars => MoveInv'
  BY MoveStep
<1>5. Spec => []MoveInv
  BY <1>3, <1>4, AlwaysInv, PTL DEF Spec
<1> QED BY <1>1, <1>2, <1>5, AlwaysInv, PTL
=============================================================================
