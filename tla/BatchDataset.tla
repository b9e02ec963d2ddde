----------------------------- MODULE BatchDataset -----------------------------
(***************************************************************************)
(* The dataset of a batch (dataset.py): the results table flattened to one *)
(* row per job and sweep point, while its jobs run, die and run again.     *)
(***************************************************************************)
EXTENDS SweepResults

CONSTANT ParamsOf \* job -> its scalar parameters, a function from their names

ImagName(o) == o \o "__imag"

\* The suffix tells the columns of two outputs apart.
ASSUME ColumnsAssumption ==
    \A o, p \in OutputNames : ImagName(o) = ImagName(p) => o = p

\* The keys of per_point.
DatasetPoints(j) == {results[j][q].point : q \in DOMAIN results[j]}

ComplexRows(j, o, i) == {q \in RowsOf(j, o, i) : results[j][q].complex}

OutputsAt(j, i) == {o \in OutputNames : RowsOf(j, o, i) # {}}
ComplexAt(j, i) == {o \in OutputNames : ComplexRows(j, o, i) # {}}

\* list_results sorts by output and point alone, so the rows that several
\* executions have written for one cell come in an order SQL leaves open, and the
\* last to come overwrites the cell: last[o] is that row, any of them.
LastRows(j, i) ==
    {last \in [OutputsAt(j, i) -> DOMAIN results[j]] :
        \A o \in OutputsAt(j, i) : last[o] \in RowsOf(j, o, i)}

\* Bug: an imaginary part that is there already is kept.
BugLastComplexRows(j, i, last) ==
    {imag \in [ComplexAt(j, i) -> DOMAIN results[j]] :
        \A o \in ComplexAt(j, i) : imag[o] \in ComplexRows(j, o, i)}

\* The cell of an imaginary part is written only by rows that have one; imag[o] is
\* the last of them: any, but last[o] itself if that has one.
LastComplexRows(j, i, last) ==
    {imag \in [ComplexAt(j, i) -> DOMAIN results[j]] :
        \A o \in ComplexAt(j, i) :
            /\ imag[o] \in ComplexRows(j, o, i)
            /\ last[o] \in ComplexRows(j, o, i) => imag[o] = last[o]}

Cells(j, last) == [o \in DOMAIN last |-> results[j][last[o]]]

ImagCells(j, imag) ==
    LET Of(c) == CHOOSE o \in DOMAIN imag : ImagName(o) = c
    IN  [c \in {ImagName(o) : o \in DOMAIN imag} |-> results[j][imag[Of(c)]]]

KeyCells(j, i) == [job_id |-> j, sweep_index |-> i, sweep_value |-> i]

\* The dictionary old after the entries of new are stored in it.
Updated(old, new) ==
    [c \in (DOMAIN old) \cup (DOMAIN new) |-> IF c \in DOMAIN new THEN new[c] ELSE old[c]]

\* One dictionary for all columns: the parameters overwrite the key, then come the
\* outputs, where an imaginary part sorts before an output that bears its name.
DatasetRow(j, i, last, imag) ==
    Updated(Updated(Updated(KeyCells(j, i), ParamsOf[j]), ImagCells(j, imag)), Cells(j, last))

-----------------------------------------------------------------------------

OutputColumns == OutputNames \cup {ImagName(o) : o \in OutputNames}

\* An earlier execution has written this output at this point.
Rewritten(j, o, i) == \E q \in RowsOf(j, o, i) : results[j][q].run < attempt[j]

\* The parameters that are in the way of no other column, and the key likewise.
FreeParams(j) == (DOMAIN ParamsOf[j]) \ OutputColumns
FreeKeys(j, i) == (DOMAIN KeyCells(j, i)) \ (DOMAIN ParamsOf[j] \cup OutputColumns)

\* What the row of point i holds in the columns of output o. Imaginary parts are
\* spoken of only if no other column bears their name.
OutputCellsMatch(j, o, i, cells) ==
    LET c == ImagName(o) IN
    /\ o \in DOMAIN cells
    /\ cells[o].output = o /\ cells[o].point = i
    /\ ~Rewritten(j, o, i) => cells[o].run = attempt[j]
    /\ cells[o].complex /\ c \notin OutputNames =>
           c \in DOMAIN cells /\ cells[c] = cells[o]
    /\ /\ ~Rewritten(j, o, i) /\ ~cells[o].complex
       /\ c \notin OutputNames \cup DOMAIN ParamsOf[j] \cup DOMAIN KeyCells(j, i)
       => c \notin DOMAIN cells

\* In whatever order the rows of a cell are read, a job that is done has a row at
\* every point of its sweep, each output in it at its own point, a complex value
\* with its own imaginary part and never one of another execution. Where only the
\* last execution has written, the cell is of it, and a real value has no imaginary
\* part at all; elsewhere it may be of any execution, and a real one may stand
\* beside an imaginary part an earlier one has left. A parameter keeps its column if
\* no output takes it, the key its own if neither does. A model without outputs has
\* no rows in the dataset (dataset.py:39-64, queue.py:187-192).
DatasetCellsMatch == \A j \in Jobs : status[j] = "done" =>
    /\ DatasetPoints(j) = IF Outputs = <<>> THEN {} ELSE 0 .. points[j] - 1
    /\ \A i \in DatasetPoints(j) :
         \A last \in LastRows(j, i) : \A imag \in LastComplexRows(j, i, last) :
           LET cells == DatasetRow(j, i, last, imag) IN
           /\ \A o \in OutputNames : OutputCellsMatch(j, o, i, cells)
           /\ \A p \in FreeParams(j) : cells[p] = ParamsOf[j][p]
           /\ \A k \in FreeKeys(j, i) : cells[k] = KeyCells(j, i)[k]

=============================================================================
