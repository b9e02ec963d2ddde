----------------------------- MODULE SweepResults -----------------------------
(***************************************************************************)
(* From what the backend evaluates to the rows of the results table        *)
(* (worker.py, mode_selection.py).                                         *)
(*                                                                         *)
(* The backend returns one flat array per output, with a value for each    *)
(* sweep point, or for each point and eigenmode. The worker cuts it into   *)
(* points, picks a mode in each, and inserts row after row, each INSERT a  *)
(* transaction of its own; it may die between any two, and the job is then *)
(* run again. Jobs run one after the other: rows carry their job's id, so  *)
(* jobs that run side by side do not meet here.                            *)
(***************************************************************************)
EXTENDS Integers, Sequences, FiniteSets

CONSTANTS Jobs,         \* the jobs of one batch
          Outputs,      \* the outputs of the model, in the manifest's order
          MaxPoints,    \* bound: values that a job sweeps over
          MaxModes,     \* bound: eigenmodes the solver finds
          Neffs,        \* values of neff and of its target
          MayBeComplex, \* outputs whose values may come with an imaginary part
          MaxAttempts,
          Nil

OutputNames == {Outputs[i] : i \in DOMAIN Outputs}

ASSUME ResultsAssumption ==
    /\ Outputs \in Seq(OutputNames)
    /\ \A k, l \in DOMAIN Outputs : Outputs[k] = Outputs[l] => k = l
    /\ MaxPoints \in Nat \ {0}
    /\ MaxModes \in Nat \ {0}
    /\ Neffs \subseteq Int
    /\ MayBeComplex \subseteq OutputNames
    /\ Nil \notin Nat
    /\ MaxAttempts \in Nat \ {0}
    /\ Nil \notin Jobs

VARIABLES
    points,     \* the job's number of sweep points, 1 without a sweep
    selects,    \* its model's manifest has a mode_selection
    status,     \* jobs.status and, for a claimed job, where process_one stands
    attempt,    \* jobs.attempt
    results,    \* results table: the rows of each job, in the order of insertion
    selections, \* mode_selection table, the same
    raw,        \* what the backend has evaluated for the claimed job
    index,      \* sweep_index of the loop over the points
    output,     \* position of the loop over the outputs
    selected    \* selected_index

asked == <<points, selects>>
locals == <<raw, index, output, selected>>
row == <<status, attempt>>
resultVars == <<asked, row, results, selections, locals>>

\* A value, named by what it is the value of. Points and modes count from 0.
Value(name, i, k) == [output |-> name, point |-> i, mode |-> k]

\* What evaluate() returns for an output with k values per point, point by point.
Flat(name, n, k) ==
    [q \in 1 .. n * k |-> Value(name, (q - 1) \div k, (q - 1) % k)]

\* ... and an array that does not fit: it has a value too many.
Misfit(name, n, k) == Append(Flat(name, n, k), Value(name, n, 0))

\* modes: how many the solver finds. An output has a value for each, or one.
OutputArrays(name, n, modes) ==
    {Flat(name, n, 1), Flat(name, n, modes), Misfit(name, n, modes)}

\* The target is a value per point, which COMSOL may repeat for each mode.
NeffArrays(n, modes) == [1 .. n * modes -> Neffs]
TargetArrays(n, modes) == UNION {
    {t, [q \in 1 .. n * modes |-> t[((q - 1) \div modes) + 1]]} : t \in [1 .. n -> Neffs]}

ResultsInit ==
    /\ points \in [Jobs -> 1 .. MaxPoints]
    /\ selects \in [Jobs -> BOOLEAN]
    /\ status = [j \in Jobs |-> "queued"]
    /\ attempt = [j \in Jobs |-> 1]
    /\ results = [j \in Jobs |-> <<>>]
    /\ selections = [j \in Jobs |-> <<>>]
    /\ raw = Nil /\ index = 0 /\ output = 1 /\ selected = Nil

\* run is the execution that has inserted the row, which the tables do not tell.
ResultRow == [output : OutputNames, point : 0 .. MaxPoints - 1, run : 1 .. MaxAttempts,
              value : [output : OutputNames, point : Nat, mode : Nat], complex : BOOLEAN]

SelectionRow == [point : 0 .. MaxPoints - 1, run : 1 .. MaxAttempts, modes : 1 .. MaxModes]

ResultsTypeOK ==
    /\ points \in [Jobs -> 1 .. MaxPoints]
    /\ selects \in [Jobs -> BOOLEAN]
    /\ status \in [Jobs -> {"queued", "solved", "point", "outputs", "done", "failed"}]
    /\ attempt \in [Jobs -> 1 .. MaxAttempts]
    /\ results \in [Jobs -> Seq(ResultRow)]
    /\ selections \in [Jobs -> Seq(SelectionRow)]
    /\ index \in 0 .. MaxPoints
    /\ output \in 1 .. Len(Outputs) + 1
    /\ selected \in (0 .. MaxModes - 1) \cup {Nil}

-----------------------------------------------------------------------------
(* The pure functions. *)

Divides(n, total) == total % n = 0

\* Bug: as if the array came mode by mode.
BugSliceForPoint(flat, i, n) ==
    [k \in 1 .. Len(flat) \div n |-> flat[(k - 1) * n + i + 1]]

\* _slice_for_point, where the length is a multiple of n.
SliceForPoint(flat, i, n) ==
    LET per == Len(flat) \div n IN SubSeq(flat, i * per + 1, (i + 1) * per)

Distance(a, b) == IF a < b THEN b - a ELSE a - b

\* Bug: positions counted from 1.
BugNearestIndex(neffs, target) ==
    CHOOSE k \in 1 .. Len(neffs) : \A l \in 1 .. Len(neffs) :
        Distance(neffs[k], target) <= Distance(neffs[l], target)

\* nearest_index: distances.index(min(distances)) is the first of the nearest.
NearestIndex(neffs, target) ==
    LET distance(k) == Distance(neffs[k + 1], target)
        nearest == {k \in 0 .. Len(neffs) - 1 :
                      \A l \in 0 .. Len(neffs) - 1 : distance(k) <= distance(l)}
    IN CHOOSE k \in nearest : \A l \in nearest : k <= l

\* _resolve_point_value, where it does not raise.
Resolves(values) ==
    Len(values) = 1 \/ (selected # Nil /\ selected < Len(values))

ResolvePointValue(values) == IF Len(values) = 1 THEN values[1] ELSE values[selected + 1]

-----------------------------------------------------------------------------
Running(j) == status[j] \in {"solved", "point", "outputs"}

Goto(j, there) == status' = [status EXCEPT ![j] = there]

\* Claimed, and solved.
Solve(j) ==
    /\ status[j] = "queued"
    /\ \A k \in Jobs : ~Running(k)
    /\ Goto(j, "solved")
    /\ UNCHANGED <<asked, attempt, results, selections, locals>>

\* Every array is fetched before the first row is written.
Evaluate(j) ==
    /\ status[j] = "solved"
    /\ \E modes \in 1 .. MaxModes :
         \E arrays \in [OutputNames -> UNION {OutputArrays(o, points[j], modes) : o \in OutputNames}],
            neff \in IF selects[j] THEN NeffArrays(points[j], modes) ELSE {Nil},
            target \in IF selects[j] THEN TargetArrays(points[j], modes) ELSE {Nil} :
              /\ \A o \in OutputNames : arrays[o] \in OutputArrays(o, points[j], modes)
              /\ \E complex \in SUBSET MayBeComplex :
                   raw' = [outputs |-> arrays, complex |-> complex,
                           neff |-> neff, target |-> target]
    /\ index' = 0
    /\ Goto(j, "point")
    /\ UNCHANGED <<asked, attempt, results, selections, output, selected>>

\* The head of the loop over the points, with its INSERT into mode_selection.
NextPoint(j) ==
    LET n == points[j]
        neffs == SliceForPoint(raw.neff, index, n)
        target == SliceForPoint(raw.target, index, n)[1]
    IN
    /\ status[j] = "point" /\ index < n
    /\ IF selects[j]
       THEN /\ selected' = NearestIndex(neffs, target)
            /\ selections' = [selections EXCEPT ![j] =
                                Append(@, [point |-> index, run |-> attempt[j], modes |-> Len(neffs)])]
       ELSE selected' = Nil /\ UNCHANGED selections
    /\ output' = 1
    /\ Goto(j, "outputs")
    /\ UNCHANGED <<asked, attempt, results, raw, index>>

\* write_result for one output of the point.
WriteResult(j) ==
    LET name == Outputs[output]
        flat == raw.outputs[name]
        values == SliceForPoint(flat, index, points[j])
    IN
    /\ status[j] = "outputs" /\ output <= Len(Outputs)
    /\ Divides(points[j], Len(flat)) /\ Resolves(values)
    /\ results' = [results EXCEPT ![j] =
                     Append(@, [output |-> name, point |-> index, run |-> attempt[j],
                                value |-> ResolvePointValue(values),
                                complex |-> name \in raw.complex])]
    /\ output' = output + 1
    /\ UNCHANGED <<asked, row, selections, raw, index, selected>>

PointDone(j) ==
    /\ status[j] = "outputs" /\ output > Len(Outputs)
    /\ index' = index + 1
    /\ Goto(j, "point")
    /\ UNCHANGED <<asked, attempt, results, selections, raw, output, selected>>

Leave == raw' = Nil /\ index' = 0 /\ output' = 1 /\ selected' = Nil

\* Bug: the last point is left out.
BugMarkDone(j) ==
    /\ status[j] = "point" /\ index + 1 = points[j]
    /\ Goto(j, "done")
    /\ Leave
    /\ UNCHANGED <<asked, attempt, results, selections>>

MarkDone(j) ==
    /\ status[j] = "point" /\ index = points[j]
    /\ Goto(j, "done")
    /\ Leave
    /\ UNCHANGED <<asked, attempt, results, selections>>

\* process_one catches it: mark_failed, whatever the class. The rows written stay.
Fail(j) ==
    /\ Running(j)
    /\ Goto(j, "failed")
    /\ Leave
    /\ UNCHANGED <<asked, attempt, results, selections>>

RequeueOrFail(j) ==
    IF attempt[j] < MaxAttempts
    THEN /\ attempt' = [attempt EXCEPT ![j] = @ + 1]
         /\ Goto(j, "queued")
    ELSE Goto(j, "failed") /\ UNCHANGED attempt

\* The process dies or is killed, and requeue_or_fail deals with its job.
Die(j) ==
    /\ Running(j)
    /\ Leave
    /\ RequeueOrFail(j)
    /\ UNCHANGED <<asked, results, selections>>

\* The watchdog goes by the rows it has read: the job may have ended since, and
\* requeue_or_fail does not look at its status.
ReclaimEnded(j) ==
    /\ status[j] \in {"done", "failed"}
    /\ RequeueOrFail(j)
    /\ UNCHANGED <<asked, results, selections, locals>>

ResultsNext == \E j \in Jobs :
    \/ Solve(j) \/ Evaluate(j) \/ NextPoint(j) \/ WriteResult(j) \/ PointDone(j)
    \/ MarkDone(j) \/ Fail(j) \/ Die(j) \/ ReclaimEnded(j)

ResultsSpec == ResultsInit /\ [][ResultsNext]_resultVars

-----------------------------------------------------------------------------
(* Properties. *)

\* Mode k of the point has a neff as near to the point's target as any other's,
\* and nearer than any before it. Read off the flat arrays, without the slices.
IsSelectedMode(k, n) ==
    LET modes == Len(raw.neff) \div n
        target == raw.target[index * (Len(raw.target) \div n) + 1]
        off(l) == Distance(raw.neff[index * modes + l + 1], target)
    IN \A l \in 0 .. modes - 1 : off(k) <= off(l) /\ (l < k => off(k) < off(l))

\* Every row inserted is of its own output and its own sweep point and, when the
\* output has a value per mode, of the mode whose neff is nearest to the point's
\* target: however many modes there are and in whichever of its shapes each array
\* comes. An array that does not fit writes no row (worker.py:41-72, 168-188).
RowsFitTheirPoints == [][
    \A j \in Jobs : results'[j] # results[j] =>
        LET new == results'[j][Len(results'[j])]
            n == points[j]
            flat == raw.outputs[new.output]
        IN /\ new.point = index /\ new.value.point = index
           /\ new.value.output = new.output
           /\ Divides(n, Len(flat))
           /\ Len(flat) > n => selects[j] /\ IsSelectedMode(new.value.mode, n)]_resultVars

RowsOf(j, o, i) ==
    {q \in DOMAIN results[j] : results[j][q].output = o /\ results[j][q].point = i}

SelectionsOf(j, i) == {q \in DOMAIN selections[j] : selections[j][q].point = i}

\* A finished job has a row for every output and sweep point, and a mode selection
\* for every point if it makes any. A row is written again only by another
\* execution: there are never more of one kind than executions, whether these
\* were cut short or reclaimed once done (worker.py:168-190, queue.py:243-290).
RowsCountExecutions == \A j \in Jobs : \A i \in 0 .. points[j] - 1 :
    /\ \A o \in OutputNames : Cardinality(RowsOf(j, o, i)) <= attempt[j]
    /\ Cardinality(SelectionsOf(j, i)) <= attempt[j]
    /\ status[j] = "done" =>
         /\ \A o \in OutputNames : RowsOf(j, o, i) # {}
         /\ selects[j] = (SelectionsOf(j, i) # {})

-----------------------------------------------------------------------------
(* The inductive invariants behind them.                                    *)

Looping(j) == status[j] \in {"point", "outputs"}

\* No two jobs are in a worker at once; the locals are of the one that is.
OneAtATime == \A j, k \in Jobs : Running(j) /\ Running(k) => j = k

Fits(j, modes) ==
    /\ raw.outputs \in [OutputNames -> UNION {OutputArrays(o, points[j], modes) : o \in OutputNames}]
    /\ \A o \in OutputNames : raw.outputs[o] \in OutputArrays(o, points[j], modes)
    /\ selects[j] => /\ raw.neff \in NeffArrays(points[j], modes)
                     /\ raw.target \in TargetArrays(points[j], modes)

\* In the loops the arrays fit the job, and the mode picked is the point's.
LoopInOrder(j) ==
    /\ Looping(j) => index <= points[j] /\ \E modes \in 1 .. MaxModes : Fits(j, modes)
    /\ status[j] = "outputs" =>
         /\ index < points[j]
         /\ IF selects[j]
            THEN /\ selected \in 0 .. Len(raw.neff) \div points[j] - 1
                 /\ IsSelectedMode(selected, points[j])
            ELSE selected = Nil

LoopInv == \A j \in Jobs : LoopInOrder(j)

\* Output k of point p has had its turn in the running execution; likewise the
\* selection of a mode for p.
Reached(j, p, k) == p < index \/ (p = index /\ status[j] = "outputs" /\ k < output)
Picked(j, p) == p < index \/ (p = index /\ status[j] = "outputs")

\* An execution inserts a row of a kind at most once, in the order of the loops and
\* after those of earlier executions, and has itself inserted all it has passed.
RowsInOrder(j) ==
    /\ \A q \in DOMAIN results[j] :
         results[j][q].run <= attempt[j] /\ results[j][q].point < points[j]
    /\ \A q, r \in DOMAIN results[j] : q < r => results[j][q].run <= results[j][r].run
    /\ \A q, r \in DOMAIN results[j] :
         /\ results[j][q].output = results[j][r].output
         /\ results[j][q].point = results[j][r].point
         /\ results[j][q].run = results[j][r].run
         => q = r
    /\ status[j] \in {"queued", "solved"} =>
         \A q \in DOMAIN results[j] : results[j][q].run < attempt[j]
    /\ Looping(j) => \A q \in DOMAIN results[j], k \in DOMAIN Outputs :
         results[j][q].run = attempt[j] /\ results[j][q].output = Outputs[k] =>
             Reached(j, results[j][q].point, k)
    /\ \A p \in 0 .. points[j] - 1, k \in DOMAIN Outputs :
         (Looping(j) /\ Reached(j, p, k)) \/ status[j] = "done" =>
             \E q \in RowsOf(j, Outputs[k], p) : results[j][q].run = attempt[j]

RowsInv == \A j \in Jobs : RowsInOrder(j)

SelectionsInOrder(j) ==
    /\ ~selects[j] => selections[j] = <<>>
    /\ \A q \in DOMAIN selections[j] : selections[j][q].run <= attempt[j]
    /\ \A q, r \in DOMAIN selections[j] :
         /\ selections[j][q].point = selections[j][r].point
         /\ selections[j][q].run = selections[j][r].run
         => q = r
    /\ status[j] \in {"queued", "solved"} =>
         \A q \in DOMAIN selections[j] : selections[j][q].run < attempt[j]
    /\ Looping(j) => \A q \in DOMAIN selections[j] :
         selections[j][q].run = attempt[j] => Picked(j, selections[j][q].point)
    /\ \A p \in 0 .. points[j] - 1 :
         selects[j] /\ ((Looping(j) /\ Picked(j, p)) \/ status[j] = "done") =>
             SelectionsOf(j, p) # {}

SelectionsInv == \A j \in Jobs : SelectionsInOrder(j)

=============================================================================
