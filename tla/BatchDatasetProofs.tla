-------------------------- MODULE BatchDatasetProofs --------------------------
(***************************************************************************)
(* Proof about BatchDataset: however often the jobs of a batch died or were*)
(* reclaimed, and in whatever order the rows of a cell are read, the cells *)
(* of a finished job's row match their columns and each other, for every   *)
(* number of points and outputs and any names of columns.                  *)
(***************************************************************************)
EXTENDS BatchDataset, SweepResultsProofs

\* A dictionary that is updated with another: the update wins.
LEMMA UpdateWins ==
    ASSUME NEW old, NEW new
    PROVE  /\ DOMAIN Updated(old, new) = (DOMAIN old) \cup (DOMAIN new)
           /\ \A c \in DOMAIN new : Updated(old, new)[c] = new[c]
           /\ \A c \in (DOMAIN old) \ (DOMAIN new) : Updated(old, new)[c] = old[c]
BY DEF Updated

\* Each output of a finished job has a row of the last execution at each point.
LEMMA LastExecutionWrote ==
    ASSUME ResultsInv, NEW j \in Jobs, status[j] = "done",
           NEW i \in 0 .. points[j] - 1, NEW o \in OutputNames
    PROVE  \E q \in RowsOf(j, o, i) : results[j][q].run = attempt[j]
<1>1. PICK k \in DOMAIN Outputs : o = Outputs[k]
  BY DEF OutputNames
<1> QED BY <1>1 DEF ResultsInv, JobInv, RowsInOrder

\* No row is of an execution that is still to come.
LEMMA RowsAreOfThePast ==
    ASSUME ResultsInv, NEW j \in Jobs, NEW q \in DOMAIN results[j],
           ~(results[j][q].run < attempt[j])
    PROVE  results[j][q].run = attempt[j]
<1>1. /\ results[j][q].run <= attempt[j]
      /\ results[j][q].run \in Nat /\ attempt[j] \in Nat
  BY RunsAreNumbers DEF ResultsInv, ResultsTypeOK, JobInv, RowsInOrder
<1> QED BY <1>1

\* Whichever row of an output and a point is read last, the cell is of that output
\* and that point; and of the last execution if no other has written it.
LEMMA CellsFit ==
    ASSUME ResultsInv, NEW j \in Jobs, status[j] = "done",
           NEW i \in 0 .. points[j] - 1, NEW o \in OutputNames,
           NEW last \in LastRows(j, i)
    PROVE  /\ o \in DOMAIN Cells(j, last) /\ last[o] \in RowsOf(j, o, i)
           /\ Cells(j, last)[o] = results[j][last[o]]
           /\ Cells(j, last)[o].output = o /\ Cells(j, last)[o].point = i
           /\ ~Rewritten(j, o, i) => Cells(j, last)[o].run = attempt[j]
<1>1. o \in OutputsAt(j, i)
  BY LastExecutionWrote DEF OutputsAt
<1>2. o \in DOMAIN Cells(j, last) /\ last[o] \in RowsOf(j, o, i)
  BY <1>1 DEF LastRows, Cells
<1>3. Cells(j, last)[o] = results[j][last[o]]
  BY <1>2 DEF Cells
<1>4. /\ last[o] \in DOMAIN results[j]
      /\ results[j][last[o]].output = o /\ results[j][last[o]].point = i
  BY <1>2 DEF RowsOf
<1>5. ASSUME ~Rewritten(j, o, i) PROVE results[j][last[o]].run = attempt[j]
  BY <1>2, <1>4, <1>5, RowsAreOfThePast DEF Rewritten
<1> QED BY <1>2, <1>3, <1>4, <1>5

\* Which cell the imaginary part of an output is, if it has one.
LEMMA ImagCellOf ==
    ASSUME NEW j, NEW i, NEW last, NEW imag \in LastComplexRows(j, i, last),
           NEW o \in ComplexAt(j, i)
    PROVE  /\ ImagName(o) \in DOMAIN ImagCells(j, imag)
           /\ ImagCells(j, imag)[ImagName(o)] = results[j][imag[o]]
<1> DEFINE Of(c) == CHOOSE p \in DOMAIN imag : ImagName(p) = c
<1>1. o \in DOMAIN imag /\ DOMAIN imag \subseteq OutputNames
  BY DEF LastComplexRows, ComplexAt
<1>2. Of(ImagName(o)) = o
  <2>1. \A p \in DOMAIN imag : ImagName(p) = ImagName(o) => p = o
    BY <1>1, ColumnsAssumption, Zenon
  <2> QED BY <1>1, <2>1, Zenon
<1>3. ImagCells(j, imag) =
        [c \in {ImagName(p) : p \in DOMAIN imag} |-> results[j][imag[Of(c)]]]
  BY Zenon DEF ImagCells
<1>4. ImagName(o) \in {ImagName(p) : p \in DOMAIN imag}
  BY <1>1, Zenon
<1> HIDE DEF Of
<1> QED BY <1>2, <1>3, <1>4

\* A complex value's imaginary part is of the same row.
LEMMA ImagCellsFit ==
    ASSUME ResultsInv, NEW j \in Jobs, status[j] = "done",
           NEW i \in 0 .. points[j] - 1, NEW o \in OutputNames,
           NEW last \in LastRows(j, i), NEW imag \in LastComplexRows(j, i, last),
           Cells(j, last)[o].complex
    PROVE  /\ ImagName(o) \in DOMAIN ImagCells(j, imag)
           /\ ImagCells(j, imag)[ImagName(o)] = Cells(j, last)[o]
<1>1. last[o] \in ComplexRows(j, o, i) /\ Cells(j, last)[o] = results[j][last[o]]
  BY CellsFit DEF ComplexRows
<1>2. o \in ComplexAt(j, i) /\ imag[o] = last[o]
  BY <1>1 DEF ComplexAt, LastComplexRows
<1> QED BY <1>1, <1>2, ImagCellOf

\* If only the last execution has written, a real value's column has no sibling.
LEMMA NoStaleImaginary ==
    ASSUME ResultsInv, NEW j \in Jobs, status[j] = "done",
           NEW i \in 0 .. points[j] - 1, NEW o \in OutputNames,
           NEW last \in LastRows(j, i), NEW imag \in LastComplexRows(j, i, last),
           ~Rewritten(j, o, i), ~Cells(j, last)[o].complex
    PROVE  ImagName(o) \notin DOMAIN ImagCells(j, imag)
<1>1. /\ last[o] \in RowsOf(j, o, i) /\ ~results[j][last[o]].complex
      /\ results[j][last[o]].run = attempt[j]
  BY CellsFit
<1>2. ASSUME NEW q \in RowsOf(j, o, i) PROVE q = last[o]
  <2>1. /\ q \in DOMAIN results[j] /\ last[o] \in DOMAIN results[j]
        /\ results[j][q].output = results[j][last[o]].output
        /\ results[j][q].point = results[j][last[o]].point
    BY <1>1 DEF RowsOf
  <2>2. results[j][q].run = attempt[j]
    BY <2>1, RowsAreOfThePast DEF Rewritten
  <2> QED BY <1>1, <2>1, <2>2 DEF ResultsInv, JobInv, RowsInOrder
<1>3. o \notin ComplexAt(j, i)
  BY <1>1, <1>2 DEF ComplexAt, ComplexRows
<1>4. DOMAIN imag = ComplexAt(j, i) /\ ComplexAt(j, i) \subseteq OutputNames
  BY DEF LastComplexRows, ComplexAt
<1>5. \A p \in DOMAIN imag : ImagName(p) # ImagName(o)
  <2>1. \A p \in OutputNames : ImagName(p) = ImagName(o) => p = o
    BY ColumnsAssumption, Zenon
  <2> QED BY <1>3, <1>4, <2>1
<1>6. DOMAIN ImagCells(j, imag) = {ImagName(p) : p \in DOMAIN imag}
  BY Zenon DEF ImagCells
<1> QED BY <1>5, <1>6

LEMMA ColumnsOfOutputs ==
    ASSUME NEW j, NEW i, NEW last \in LastRows(j, i),
           NEW imag \in LastComplexRows(j, i, last)
    PROVE  /\ DOMAIN Cells(j, last) \subseteq OutputNames
           /\ DOMAIN ImagCells(j, imag) \subseteq {ImagName(o) : o \in OutputNames}
BY DEF Cells, ImagCells, LastRows, LastComplexRows, OutputsAt, ComplexAt

\* What the row holds, by whose column it is.
RowHolds(j, i, last, imag, cells) ==
    /\ \A c \in DOMAIN Cells(j, last) : c \in DOMAIN cells /\ cells[c] = Cells(j, last)[c]
    /\ \A c \in (DOMAIN ImagCells(j, imag)) \ OutputNames :
         c \in DOMAIN cells /\ cells[c] = ImagCells(j, imag)[c]
    /\ \A c \in FreeParams(j) : cells[c] = ParamsOf[j][c]
    /\ \A c \in FreeKeys(j, i) : cells[c] = KeyCells(j, i)[c]
    /\ DOMAIN cells = (DOMAIN KeyCells(j, i)) \cup (DOMAIN ParamsOf[j])
                         \cup (DOMAIN ImagCells(j, imag)) \cup (DOMAIN Cells(j, last))

LEMMA RowOverwrites ==
    ASSUME NEW j, NEW i, NEW last \in LastRows(j, i),
           NEW imag \in LastComplexRows(j, i, last)
    PROVE  RowHolds(j, i, last, imag, DatasetRow(j, i, last, imag))
<1> DEFINE a == Updated(KeyCells(j, i), ParamsOf[j])
           b == Updated(a, ImagCells(j, imag))
<1>1. DatasetRow(j, i, last, imag) = Updated(b, Cells(j, last))
  BY DEF DatasetRow
<1>2. /\ DOMAIN a = (DOMAIN KeyCells(j, i)) \cup (DOMAIN ParamsOf[j])
      /\ \A c \in DOMAIN ParamsOf[j] : a[c] = ParamsOf[j][c]
      /\ \A c \in (DOMAIN KeyCells(j, i)) \ (DOMAIN ParamsOf[j]) : a[c] = KeyCells(j, i)[c]
  BY UpdateWins, Zenon
<1>3. /\ DOMAIN b = (DOMAIN a) \cup (DOMAIN ImagCells(j, imag))
      /\ \A c \in DOMAIN ImagCells(j, imag) : b[c] = ImagCells(j, imag)[c]
      /\ \A c \in (DOMAIN a) \ (DOMAIN ImagCells(j, imag)) : b[c] = a[c]
  BY UpdateWins, Zenon
<1> DEFINE r == DatasetRow(j, i, last, imag)
<1>4. /\ DOMAIN r = (DOMAIN b) \cup (DOMAIN Cells(j, last))
      /\ \A c \in DOMAIN Cells(j, last) : r[c] = Cells(j, last)[c]
      /\ \A c \in (DOMAIN b) \ (DOMAIN Cells(j, last)) : r[c] = b[c]
  <2> HIDE DEF a, b
  <2>1. /\ DOMAIN Updated(b, Cells(j, last)) = (DOMAIN b) \cup (DOMAIN Cells(j, last))
        /\ \A c \in DOMAIN Cells(j, last) : Updated(b, Cells(j, last))[c] = Cells(j, last)[c]
        /\ \A c \in (DOMAIN b) \ (DOMAIN Cells(j, last)) : Updated(b, Cells(j, last))[c] = b[c]
    BY UpdateWins, Zenon
  <2> QED BY <1>1, <2>1
<1>5. /\ DOMAIN Cells(j, last) \subseteq OutputNames
      /\ DOMAIN ImagCells(j, imag) \subseteq OutputColumns
      /\ OutputNames \subseteq OutputColumns
  BY ColumnsOfOutputs DEF OutputColumns
<1> HIDE DEF a, b, r
<1>6. /\ \A c \in FreeParams(j) : r[c] = ParamsOf[j][c]
      /\ \A c \in FreeKeys(j, i) : r[c] = KeyCells(j, i)[c]
  BY <1>2, <1>3, <1>4, <1>5 DEF FreeParams, FreeKeys
<1>7. /\ \A c \in DOMAIN Cells(j, last) : c \in DOMAIN r /\ r[c] = Cells(j, last)[c]
      /\ \A c \in (DOMAIN ImagCells(j, imag)) \ OutputNames :
           c \in DOMAIN r /\ r[c] = ImagCells(j, imag)[c]
  BY <1>3, <1>4, <1>5
<1>8. DOMAIN r = (DOMAIN KeyCells(j, i)) \cup (DOMAIN ParamsOf[j])
                   \cup (DOMAIN ImagCells(j, imag)) \cup (DOMAIN Cells(j, last))
  BY <1>2, <1>3, <1>4
<1> QED BY <1>6, <1>7, <1>8 DEF r, RowHolds

\* The points of a finished job's rows are the points of its sweep.
LEMMA DatasetHasAllPoints ==
    ASSUME ResultsInv, NEW j \in Jobs, status[j] = "done"
    PROVE  DatasetPoints(j) = IF Outputs = <<>> THEN {} ELSE 0 .. points[j] - 1
<1>1. /\ RowsInOrder(j) /\ results[j] \in Seq(ResultRow) /\ points[j] \in Nat
      /\ \A q \in DOMAIN results[j] :
           results[j][q].point \in Nat /\ results[j][q].output \in OutputNames
  BY RunsAreNumbers DEF ResultsInv, ResultsTypeOK, JobInv
<1>2. CASE Outputs = <<>>
  <2>1. OutputNames = {}
    BY <1>2 DEF OutputNames
  <2> QED BY <1>1, <1>2, <2>1 DEF DatasetPoints
<1>3. CASE Outputs # <<>>
  <2>1. DatasetPoints(j) \subseteq 0 .. points[j] - 1
    BY <1>1 DEF DatasetPoints, RowsInOrder
  <2>2. ASSUME NEW p \in 0 .. points[j] - 1 PROVE p \in DatasetPoints(j)
    <3>1. 1 \in DOMAIN Outputs
      BY <1>3, ResultsAssumption
    <3>2. PICK q \in RowsOf(j, Outputs[1], p) : results[j][q].run = attempt[j]
      BY <1>1, <3>1 DEF RowsInOrder
    <3> QED BY <3>2 DEF RowsOf, DatasetPoints
  <2> QED BY <1>3, <2>1, <2>2
<1> QED BY <1>2, <1>3

\* The columns of one output in one row.
LEMMA OutputCells ==
    ASSUME ResultsInv, NEW j \in Jobs, status[j] = "done",
           NEW i \in 0 .. points[j] - 1, NEW o \in OutputNames,
           NEW last \in LastRows(j, i), NEW imag \in LastComplexRows(j, i, last)
    PROVE  OutputCellsMatch(j, o, i, DatasetRow(j, i, last, imag))
<1> DEFINE cells == DatasetRow(j, i, last, imag)
           c == ImagName(o)
<1>0. RowHolds(j, i, last, imag, cells)
  BY RowOverwrites
<1> HIDE DEF cells
<1>1. /\ o \in DOMAIN Cells(j, last)
      /\ Cells(j, last)[o].output = o /\ Cells(j, last)[o].point = i
      /\ ~Rewritten(j, o, i) => Cells(j, last)[o].run = attempt[j]
  BY CellsFit
<1>2. o \in DOMAIN cells /\ cells[o] = Cells(j, last)[o]
  BY <1>0, <1>1 DEF RowHolds
<1>3. ASSUME cells[o].complex, c \notin OutputNames
      PROVE  c \in DOMAIN cells /\ cells[c] = cells[o]
  <2>1. Cells(j, last)[o].complex
    BY <1>2, <1>3
  <2>2. c \in DOMAIN ImagCells(j, imag) /\ ImagCells(j, imag)[c] = Cells(j, last)[o]
    BY <2>1, ImagCellsFit
  <2>3. c \in DOMAIN cells /\ cells[c] = ImagCells(j, imag)[c]
    BY <1>0, <1>3, <2>2 DEF RowHolds
  <2> HIDE DEF c
  <2> QED BY <1>2, <2>2, <2>3
<1>4. ASSUME ~Rewritten(j, o, i), ~cells[o].complex,
             c \notin OutputNames \cup DOMAIN ParamsOf[j] \cup DOMAIN KeyCells(j, i)
      PROVE  c \notin DOMAIN cells
  <2>1. ~Cells(j, last)[o].complex
    BY <1>2, <1>4
  <2>2. c \notin DOMAIN ImagCells(j, imag)
    BY <1>4, <2>1, NoStaleImaginary
  <2>3. DOMAIN Cells(j, last) \subseteq OutputNames
    BY ColumnsOfOutputs
  <2>4. DOMAIN cells = (DOMAIN KeyCells(j, i)) \cup (DOMAIN ParamsOf[j])
                         \cup (DOMAIN ImagCells(j, imag)) \cup (DOMAIN Cells(j, last))
    BY <1>0 DEF RowHolds
  <2> HIDE DEF c
  <2> QED BY <1>4, <2>2, <2>3, <2>4
<1> QED BY <1>1, <1>2, <1>3, <1>4 DEF OutputCellsMatch, cells

\* In whatever order the rows of a cell come back from the table, the finished
\* job's rows are complete, and the cells of each match their columns and their
\* imaginary parts (dataset.py:39-64, queue.py:187-192).
THEOREM DatasetMatchesInAnyOrder == ResultsSpec => []DatasetCellsMatch
<1>1. ASSUME ResultsInv PROVE DatasetCellsMatch
  <2> SUFFICES ASSUME NEW j \in Jobs, status[j] = "done", NEW i \in DatasetPoints(j),
                      NEW last \in LastRows(j, i),
                      NEW imag \in LastComplexRows(j, i, last)
               PROVE  LET cells == DatasetRow(j, i, last, imag) IN
                      /\ \A o \in OutputNames : OutputCellsMatch(j, o, i, cells)
                      /\ \A p \in FreeParams(j) : cells[p] = ParamsOf[j][p]
                      /\ \A k \in FreeKeys(j, i) : cells[k] = KeyCells(j, i)[k]
    BY <1>1, DatasetHasAllPoints, Zenon DEF DatasetCellsMatch
  <2>1. i \in 0 .. points[j] - 1
    BY <1>1, DatasetHasAllPoints
  <2>2. \A o \in OutputNames : OutputCellsMatch(j, o, i, DatasetRow(j, i, last, imag))
    BY <1>1, <2>1, OutputCells
  <2>3. RowHolds(j, i, last, imag, DatasetRow(j, i, last, imag))
    BY RowOverwrites
  <2> QED BY <2>2, <2>3 DEF RowHolds
<1> QED BY <1>1, ResultsInvariant, PTL

=============================================================================
