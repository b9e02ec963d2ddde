-------------------------- MODULE SweepResultsProofs --------------------------
(***************************************************************************)
(* Proofs about SweepResults: its types, that rows are of their own point, *)
(* output and nearest mode, and that a finished job has all of them, each  *)
(* as often as it was executed at most.                                    *)
(***************************************************************************)
EXTENDS SweepResults, FiniteSetTheorems, FunctionTheorems, SequenceTheorems,
        WellFoundedInduction, TLAPS

-----------------------------------------------------------------------------
(* Arithmetic of flat arrays.                                               *)

LEMMA DivMul ==
    ASSUME NEW n \in Nat \ {0}, NEW m \in Nat
    PROVE  (n * m) \div n = m /\ (n * m) % n = 0
BY SMTT(30)

LEMMA DivMod ==
    ASSUME NEW i \in Nat, NEW l \in Nat, NEW k \in Nat, l < k
    PROVE  (i * k + l) \div k = i /\ (i * k + l) % k = l
BY SMTT(30)

\* One value too many divides among several points for no number of modes.
LEMMA OneTooMany ==
    ASSUME NEW n \in Nat, n > 1, NEW m \in Nat
    PROVE  (n * m + 1) % n # 0
<1>1. (m * n + 1) % n = 1
  BY DivMod
<1> QED BY <1>1

LEMMA QuotientBounds ==
    ASSUME NEW n \in Nat \ {0}, NEW t \in Nat
    PROVE  /\ t \div n \in Nat
           /\ t % n = 0 => t = n * (t \div n)
BY SMTT(30)

\* Position l of point i lies inside the array.
LEMMA PositionInside ==
    ASSUME NEW n \in Nat, NEW k \in Nat, NEW i \in 0 .. n - 1, NEW l \in 0 .. k - 1
    PROVE  /\ i * k + l + 1 \in 1 .. n * k
           /\ (i + 1) * k = i * k + k
           /\ (i + 1) * k <= n * k
           /\ i * k \in Nat
<1>1. (i + 1) * k <= n * k
  <2>1. \A a, b, c \in Nat : a <= b => a * c <= b * c
    OBVIOUS
  <2> QED BY <2>1
<1>2. (i + 1) * k = i * k + k /\ i * k \in Nat
  OBVIOUS
<1> QED BY <1>1, <1>2

LEMMA DivBelow ==
    ASSUME NEW n \in Nat, NEW k \in Nat \ {0}, NEW t \in Nat, t < n * k
    PROVE  t \div k \in 0 .. n - 1
<1> DEFINE d == t \div k
<1>1. d \in Nat /\ k * d <= t
  BY SMTT(30)
<1> HIDE DEF d
<1>2. d < n
  <2>1. SUFFICES ASSUME n <= d PROVE FALSE
    BY <1>1
  <2>2. n * k <= d * k
    <3>1. \A a, b, c \in Nat : a <= b => a * c <= b * c
      OBVIOUS
    <3> QED BY <1>1, <2>1, <3>1
  <2> QED BY <1>1, <2>2
<1> QED BY <1>1, <1>2 DEF d

LEMMA LeastNatural ==
    ASSUME NEW T \in SUBSET Nat, T # {}
    PROVE  \E x \in T : \A y \in T : x <= y
<1>1. \A x, y \in Nat : x < y => <<x, y>> \in OpToRel(<, Nat)
  BY DEF OpToRel
<1>2. \E R : IsWellFoundedOn(R, Nat) /\ \A x, y \in Nat : x < y => <<x, y>> \in R
  BY <1>1, NatLessThanWellFounded, Zenon
<1>3. PICK R : IsWellFoundedOn(R, Nat) /\ \A x, y \in Nat : x < y => <<x, y>> \in R
  BY <1>2, Zenon
<1>4. T \subseteq Nat
  OBVIOUS
<1>5. \E x \in T : \A y \in T : ~(<<y, x>> \in R)
  <2>1. IsWellFoundedOn(R, Nat)
    BY <1>3, Zenon
  <2> QED BY <1>4, <2>1, WFMin, Zenon
<1>6. PICK x \in T : \A y \in T : ~(<<y, x>> \in R)
  BY <1>5, Zenon
<1>7. ASSUME NEW y \in T PROVE x <= y
  <2>1. ~(<<y, x>> \in R)
    BY <1>6, Zenon
  <2>2. y \in Nat /\ x \in Nat
    BY <1>4
  <2>3. y < x => <<y, x>> \in R
    BY <2>2, <1>3, Zenon
  <2> QED BY <2>1, <2>2, <2>3
<1> QED BY <1>7

-----------------------------------------------------------------------------
(* The pure functions.                                                      *)

\* nearest_index returns the first of the positions nearest to the target.
LEMMA NearestIndexIsFirstNearest ==
    ASSUME NEW neffs \in Seq(Int), Len(neffs) > 0, NEW t \in Int
    PROVE  LET k == NearestIndex(neffs, t)
               off(l) == Distance(neffs[l + 1], t)
           IN  /\ k \in 0 .. Len(neffs) - 1
               /\ \A l \in 0 .. Len(neffs) - 1 : off(k) <= off(l) /\ (l < k => off(k) < off(l))
<1> DEFINE D == 0 .. Len(neffs) - 1
           off(l) == Distance(neffs[l + 1], t)
           nearest == {k \in D : \A l \in D : off(k) <= off(l)}
<1>1. \A l \in D : off(l) \in Nat
  BY DEF Distance
<1>2. nearest # {}
  <2> DEFINE T == {off(l) : l \in D}
  <2>1. T \in SUBSET Nat /\ T # {}
    <3>1. 0 \in D
      OBVIOUS
    <3> QED BY <1>1, <3>1
  <2>2. PICK x \in T : \A y \in T : x <= y
    BY <2>1, LeastNatural
  <2>3. PICK k \in D : x = off(k)
    OBVIOUS
  <2>4. \A l \in D : off(k) <= off(l)
    BY <2>2, <2>3
  <2> QED BY <2>4
<1>3. nearest \in SUBSET Nat
  OBVIOUS
<1>4. \E k \in nearest : \A l \in nearest : k <= l
  BY <1>2, <1>3, LeastNatural
<1>5. NearestIndex(neffs, t) = CHOOSE k \in nearest : \A l \in nearest : k <= l
  BY DEF NearestIndex
<1> DEFINE k == NearestIndex(neffs, t)
<1>6. k \in nearest /\ \A l \in nearest : k <= l
  BY <1>4, <1>5
<1>7. k \in D /\ \A l \in D : off(k) <= off(l)
  BY <1>6
<1> HIDE DEF k
<1>8. ASSUME NEW l \in D, l < k PROVE off(k) < off(l)
  <2>1. l \notin nearest
    BY <1>6, <1>8, <1>7
  <2>2. PICK r \in D : ~(off(l) <= off(r))
    BY <2>1
  <2>3. off(k) <= off(r) /\ off(k) \in Nat /\ off(r) \in Nat /\ off(l) \in Nat
    BY <1>1, <1>7
  <2> QED BY <2>2, <2>3
<1> QED BY <1>7, <1>8 DEF k

\* _slice_for_point cuts out the values of its point.
LEMMA SliceOfPoint ==
    ASSUME NEW S, NEW flat \in Seq(S), NEW n \in Nat \ {0}, Divides(n, Len(flat)),
           NEW i \in 0 .. n - 1
    PROVE  /\ SliceForPoint(flat, i, n) \in Seq(S)
           /\ Len(SliceForPoint(flat, i, n)) = Len(flat) \div n
           /\ \A l \in 0 .. Len(flat) \div n - 1 :
                 SliceForPoint(flat, i, n)[l + 1] = flat[i * (Len(flat) \div n) + l + 1]
<1> DEFINE per == Len(flat) \div n
<1>1. per \in Nat /\ Len(flat) = n * per
  BY QuotientBounds DEF Divides
<1>2. SliceForPoint(flat, i, n) = SubSeq(flat, i * per + 1, (i + 1) * per)
  BY DEF SliceForPoint
<1> HIDE DEF per
<1>3. /\ i * per \in Nat /\ (i + 1) * per = i * per + per /\ (i + 1) * per <= n * per
  <2>1. CASE per = 0
    BY <2>1
  <2>2. CASE per > 0
    <3>1. 0 \in 0 .. per - 1
      BY <1>1, <2>2
    <3> QED BY <1>1, <3>1, PositionInside
  <2> QED BY <1>1, <2>1, <2>2
<1> DEFINE a == i * per
           slice == SliceForPoint(flat, i, n)
<1>4. slice = SubSeq(flat, a + 1, a + per)
  BY <1>1, <1>2, <1>3
<1>a. a \in Nat /\ a + per <= Len(flat) /\ per \in Nat
  BY <1>1, <1>3
<1> HIDE DEF a, slice
<1>5. /\ SubSeq(flat, a + 1, a + per) \in Seq(S)
      /\ Len(SubSeq(flat, a + 1, a + per)) = per
      /\ \A l \in 0 .. per - 1 : SubSeq(flat, a + 1, a + per)[l + 1] = flat[a + l + 1]
  BY <1>a
<1>6. /\ slice \in Seq(S)
      /\ Len(slice) = per
      /\ \A l \in 0 .. per - 1 : slice[l + 1] = flat[a + l + 1]
  BY <1>4, <1>5
<1> QED BY <1>6 DEF per, a, slice

LEMMA SliceOfInts ==
    ASSUME NEW flat \in Seq(Int), NEW n \in Nat \ {0}, Divides(n, Len(flat)),
           NEW i \in 0 .. n - 1
    PROVE  /\ SliceForPoint(flat, i, n) \in Seq(Int)
           /\ Len(SliceForPoint(flat, i, n)) = Len(flat) \div n
           /\ \A l \in 0 .. Len(flat) \div n - 1 :
                 SliceForPoint(flat, i, n)[l + 1] = flat[i * (Len(flat) \div n) + l + 1]
BY SliceOfPoint, Zenon

PointValues == [output : OutputNames, point : Nat, mode : Nat]

\* Value l of point i in an array with k values per point.
LEMMA FlatArray ==
    ASSUME NEW name \in OutputNames, NEW n \in Nat \ {0}, NEW k \in Nat \ {0}
    PROVE  /\ Flat(name, n, k) \in Seq(PointValues)
           /\ Len(Flat(name, n, k)) = n * k
           /\ \A i \in 0 .. n - 1, l \in 0 .. k - 1 :
                 Flat(name, n, k)[i * k + l + 1] = Value(name, i, l)
<1>1. n * k \in Nat
  OBVIOUS
<1>2. \A t \in Nat : t \div k \in Nat /\ t % k \in Nat
  OBVIOUS
<1> DEFINE m == n * k
<1>3. Flat(name, n, k) = [q \in 1 .. m |-> Value(name, (q - 1) \div k, (q - 1) % k)]
  BY DEF Flat
<1>4. m \in Nat
  BY <1>1
<1>5. ASSUME NEW i \in 0 .. n - 1, NEW l \in 0 .. k - 1
      PROVE  Flat(name, n, k)[i * k + l + 1] = Value(name, i, l)
  <2> DEFINE a == i * k
  <2>1. a \in Nat /\ a + l + 1 \in 1 .. m
    BY PositionInside
  <2>2. (a + l) \div k = i /\ (a + l) % k = l
    BY DivMod
  <2> HIDE DEF a, m
  <2>3. (a + l + 1) - 1 = a + l
    BY <2>1
  <2>4. Flat(name, n, k)[a + l + 1] = Value(name, i, l)
    BY <1>3, <2>1, <2>2, <2>3
  <2> QED BY <2>4 DEF a
<1>6. /\ Flat(name, n, k) \in Seq(PointValues)
      /\ Len(Flat(name, n, k)) = m
  <2> HIDE DEF m
  <2>1. \A q \in 1 .. m : Value(name, (q - 1) \div k, (q - 1) % k) \in PointValues
    BY <1>2, <1>4 DEF Value, PointValues
  <2> QED BY <1>3, <1>4, <2>1
<1> QED BY <1>5, <1>6

\* What a point gets of an output, in whichever of its shapes the array comes.
LEMMA OutputAtPoint ==
    ASSUME NEW name \in OutputNames, NEW n \in Nat \ {0}, NEW modes \in Nat \ {0},
           NEW flat \in OutputArrays(name, n, modes), Divides(n, Len(flat)),
           NEW i \in 0 .. n - 1
    PROVE  LET values == SliceForPoint(flat, i, n) IN
           /\ values \in Seq(PointValues)
           /\ \E k \in {1, modes} :
                /\ k <= Len(values)
                /\ \A l \in 0 .. k - 1 : values[l + 1] = Value(name, i, l)
                /\ Len(values) # 1 => k = modes
           /\ Len(values) = 1 => Len(flat) = n
<1> DEFINE values == SliceForPoint(flat, i, n)
           per == Len(flat) \div n
<1>1. ASSUME flat \in Seq(PointValues)
      PROVE  /\ values \in Seq(PointValues) /\ Len(values) = per
             /\ \A l \in 0 .. per - 1 : values[l + 1] = flat[i * per + l + 1]
             /\ Len(flat) = n * per /\ per \in Nat
  <2>1. /\ values \in Seq(PointValues) /\ Len(values) = per
        /\ \A l \in 0 .. per - 1 : values[l + 1] = flat[i * per + l + 1]
    BY <1>1, SliceOfPoint, Zenon
  <2>2. Len(flat) \in Nat
    BY <1>1
  <2>3. Len(flat) = n * per /\ per \in Nat
    BY <2>2, QuotientBounds, Zenon DEF Divides
  <2> QED BY <2>1, <2>3, Zenon
<1>2. ASSUME NEW k \in Nat \ {0}, flat = Flat(name, n, k)
      PROVE  /\ values \in Seq(PointValues) /\ Len(values) = k /\ Len(flat) = n * k
             /\ \A l \in 0 .. k - 1 : values[l + 1] = Value(name, i, l)
  <2>1. flat \in Seq(PointValues) /\ Len(flat) = n * k
    BY <1>2, FlatArray
  <2>2. per = k
    BY <2>1, DivMul
  <2>3. \A l \in 0 .. k - 1 : flat[i * k + l + 1] = Value(name, i, l)
    <3>1. \A l \in 0 .. k - 1 : Flat(name, n, k)[i * k + l + 1] = Value(name, i, l)
      BY FlatArray, Zenon
    <3> QED BY <1>2, <3>1, Zenon
  <2> HIDE DEF values, per
  <2> QED BY <1>1, <2>1, <2>2, <2>3
<1>3. CASE flat = Flat(name, n, 1)
  <2>1. /\ values \in Seq(PointValues) /\ Len(values) = 1 /\ Len(flat) = n * 1
        /\ \A l \in 0 .. 1 - 1 : values[l + 1] = Value(name, i, l)
    <3>1. 1 \in Nat \ {0}
      OBVIOUS
    <3> QED BY <1>2, <1>3, <3>1, Zenon
  <2> HIDE DEF values
  <2>2. Len(flat) = n
    BY <2>1
  <2> QED BY <2>1, <2>2 DEF values
<1>4. CASE flat = Flat(name, n, modes)
  <2>1. /\ values \in Seq(PointValues) /\ Len(values) = modes /\ Len(flat) = n * modes
        /\ \A l \in 0 .. modes - 1 : values[l + 1] = Value(name, i, l)
    BY <1>2, <1>4
  <2> HIDE DEF values
  <2>2. modes = 1 => Len(flat) = n
    BY <2>1
  <2> QED BY <2>1, <2>2 DEF values
<1>5. CASE flat = Misfit(name, n, modes)
  <2> DEFINE whole == Flat(name, n, modes)
  <2>1. /\ whole \in Seq(PointValues) /\ Len(whole) = n * modes
        /\ \A p \in 0 .. n - 1, l \in 0 .. modes - 1 :
             whole[p * modes + l + 1] = Value(name, p, l)
    BY FlatArray, Zenon
  <2>a. n * modes \in Nat
    OBVIOUS
  <2>2. flat = Append(whole, Value(name, n, 0)) /\ Value(name, n, 0) \in PointValues
    BY <1>5 DEF Misfit, Value, PointValues
  <2> HIDE DEF whole
  <2>3. flat \in Seq(PointValues) /\ Len(flat) = n * modes + 1
    BY <2>1, <2>2, <2>a
  <2>4. n = 1
    BY <2>3, OneTooMany DEF Divides
  <2>5. i = 0 /\ Len(flat) = modes + 1 /\ Len(whole) = modes
    BY <2>1, <2>3, <2>4
  <2>6. per = modes + 1
    BY <2>4, <2>5
  <2>7. \A l \in 0 .. modes - 1 : flat[l + 1] = Value(name, 0, l)
    <3>1. \A l \in 0 .. modes - 1 : whole[l + 1] = Value(name, 0, l)
      BY <2>1, <2>4
    <3>2. \A l \in 0 .. modes - 1 : flat[l + 1] = whole[l + 1]
      BY <2>1, <2>2, <2>5
    <3> QED BY <3>1, <3>2
  <2>8. \A l \in 0 .. modes : values[l + 1] = flat[l + 1]
    <3> HIDE DEF values
    <3>1. \A l \in 0 .. per - 1 : i * per + l + 1 = l + 1
      <4>1. i * per = 0
        BY <2>5, <2>6
      <4> QED BY <4>1, <2>6
    <3>2. \A l \in 0 .. per - 1 : values[l + 1] = flat[i * per + l + 1]
      BY <1>1, <2>3, Zenon
    <3>3. \A l \in 0 .. per - 1 : values[l + 1] = flat[l + 1]
      BY <3>1, <3>2, Zenon
    <3>4. per - 1 = modes
      BY <2>6
    <3> QED BY <3>3, <3>4, Zenon
  <2> HIDE DEF values
  <2> QED BY <1>1, <2>3, <2>5, <2>6, <2>7, <2>8 DEF values
<1> QED BY <1>3, <1>4, <1>5 DEF OutputArrays

-----------------------------------------------------------------------------
(* The inductive invariant, step by step.                                   *)

JobInv(j) == LoopInOrder(j) /\ RowsInOrder(j) /\ SelectionsInOrder(j)

ResultsInv == ResultsTypeOK /\ OneAtATime /\ \A j \in Jobs : JobInv(j)

\* A step of one job that leaves the rows of the others alone.
StepOf(j) ==
    /\ points' = points /\ selects' = selects
    /\ \A k \in Jobs \ {j} :
         /\ status'[k] = status[k] /\ attempt'[k] = attempt[k]
         /\ results'[k] = results[k] /\ selections'[k] = selections[k]

\* The locals are of the job that takes the step or of none, or it leaves them alone
\* and is in no worker itself.
OwnLocals(j) ==
    \/ Running(j)
    \/ \A k \in Jobs : ~Running(k)
    \/ UNCHANGED locals /\ ~Running(j)'

\* Jobs that are not running do not look at the locals of the one that is.
LEMMA OthersStay ==
    ASSUME ResultsInv, NEW j \in Jobs, StepOf(j), OwnLocals(j)
    PROVE  \A k \in Jobs \ {j} : JobInv(k)'
<1>1. ASSUME NEW k \in Jobs \ {j} PROVE JobInv(k)'
  <2>1. JobInv(k) /\ (~Running(k) \/ UNCHANGED locals)
    BY DEF ResultsInv, OneAtATime, OwnLocals
  <2>2. /\ status'[k] = status[k] /\ attempt'[k] = attempt[k]
        /\ results'[k] = results[k] /\ selections'[k] = selections[k]
        /\ points'[k] = points[k] /\ selects'[k] = selects[k]
    BY DEF StepOf
  <2>3. CASE ~Running(k)
    <3>1. ~Looping(k) /\ status[k] # "outputs" /\ status[k] # "solved"
      BY <2>3 DEF Running, Looping
    <3>2. LoopInOrder(k)'
      BY <2>2, <3>1 DEF LoopInOrder, Looping
    <3>3. RowsInOrder(k)'
      BY <2>1, <2>2, <3>1 DEF JobInv, RowsInOrder, Looping, RowsOf
    <3>4. SelectionsInOrder(k)'
      BY <2>1, <2>2, <3>1 DEF JobInv, SelectionsInOrder, Looping, SelectionsOf
    <3> QED BY <3>2, <3>3, <3>4 DEF JobInv
  <2>4. CASE UNCHANGED locals
    <3>1. UNCHANGED <<raw, index, output, selected>>
      BY <2>4 DEF locals
    <3>2. LoopInOrder(k)'
      BY <2>1, <2>2, <3>1 DEF JobInv, LoopInOrder, Looping, Fits, IsSelectedMode
    <3>3. RowsInOrder(k)'
      BY <2>1, <2>2, <3>1 DEF JobInv, RowsInOrder, Looping, Reached, RowsOf
    <3>4. SelectionsInOrder(k)'
      BY <2>1, <2>2, <3>1 DEF JobInv, SelectionsInOrder, Looping, Picked, SelectionsOf
    <3> QED BY <3>2, <3>3, <3>4 DEF JobInv
  <2> QED BY <2>1, <2>3, <2>4
<1> QED BY <1>1

\* What is left to show of a step: the types and the job that takes it.
LEMMA StepKeepsInv ==
    ASSUME ResultsInv, NEW j \in Jobs, StepOf(j), OwnLocals(j),
           ResultsTypeOK', JobInv(j)'
    PROVE  ResultsInv'
<1>1. \A k \in Jobs : JobInv(k)'
  BY OthersStay
<1>2. OneAtATime'
  BY DEF ResultsInv, OneAtATime, OwnLocals, StepOf, Running
<1> QED BY <1>1, <1>2 DEF ResultsInv

\* The rows as sequences of records.
LEMMA RunsAreNumbers ==
    ASSUME ResultsTypeOK, NEW j \in Jobs
    PROVE  /\ results[j] \in Seq(ResultRow) /\ selections[j] \in Seq(SelectionRow)
           /\ \A q \in DOMAIN results[j] :
                /\ results[j][q].run \in Nat \ {0} /\ results[j][q].point \in 0 .. MaxPoints - 1
                /\ results[j][q].output \in OutputNames
           /\ \A q \in DOMAIN selections[j] :
                /\ selections[j][q].run \in Nat \ {0} /\ selections[j][q].point \in 0 .. MaxPoints - 1
<1> USE ResultsAssumption
<1>1. results[j] \in Seq(ResultRow) /\ selections[j] \in Seq(SelectionRow)
  BY DEF ResultsTypeOK
<1>2. \A q \in DOMAIN results[j] : results[j][q] \in ResultRow
  BY <1>1
<1>3. \A q \in DOMAIN selections[j] : selections[j][q] \in SelectionRow
  BY <1>1
<1>4. \A r \in ResultRow : r.run \in Nat \ {0} /\ r.point \in 0 .. MaxPoints - 1 /\ r.output \in OutputNames
  BY DEF ResultRow
<1>5. \A r \in SelectionRow : r.run \in Nat \ {0} /\ r.point \in 0 .. MaxPoints - 1
  BY DEF SelectionRow
<1> QED BY <1>1, <1>2, <1>3, <1>4, <1>5

LEMMA InitInv == ResultsInit => ResultsInv
<1> SUFFICES ASSUME ResultsInit PROVE ResultsInv
  OBVIOUS
<1> USE ResultsAssumption
<1>1. ResultsTypeOK
  BY DEF ResultsInit, ResultsTypeOK
<1>2. ASSUME NEW j \in Jobs PROVE JobInv(j)
  <2>1. status[j] = "queued" /\ results[j] = <<>> /\ selections[j] = <<>>
    BY DEF ResultsInit
  <2> QED BY <2>1 DEF JobInv, LoopInOrder, RowsInOrder, SelectionsInOrder, Looping
<1>3. OneAtATime
  BY DEF ResultsInit, OneAtATime, Running
<1> QED BY <1>1, <1>2, <1>3 DEF ResultsInv

LEMMA SolveKeepsInv ==
    ASSUME ResultsInv, NEW j \in Jobs, Solve(j) PROVE ResultsInv'
<1>1. ResultsTypeOK'
  BY DEF ResultsInv, ResultsTypeOK, Solve, Goto, asked, locals
<1>2. StepOf(j) /\ \A k \in Jobs : ~Running(k)
  BY DEF Solve, Goto, asked, locals, StepOf
<1>3. /\ status[j] = "queued" /\ status'[j] = "solved"
      /\ UNCHANGED <<points, selects, attempt, results, selections>>
  BY DEF ResultsInv, ResultsTypeOK, Solve, Goto, asked
<1>4. JobInv(j)'
  <2>1. LoopInOrder(j)'
    BY <1>3 DEF LoopInOrder, Looping
  <2>2. RowsInOrder(j)'
    BY <1>3 DEF ResultsInv, JobInv, RowsInOrder, Looping
  <2>3. SelectionsInOrder(j)'
    BY <1>3 DEF ResultsInv, JobInv, SelectionsInOrder, Looping
  <2> QED BY <2>1, <2>2, <2>3 DEF JobInv
<1> QED BY <1>1, <1>2, <1>4, StepKeepsInv DEF OwnLocals

\* Leaving process_one: no loop any more.
LEMMA FailKeepsInv ==
    ASSUME ResultsInv, NEW j \in Jobs, Fail(j) PROVE ResultsInv'
<1> USE ResultsAssumption
<1>1. ResultsTypeOK'
  BY DEF ResultsInv, ResultsTypeOK, Fail, Goto, asked, Leave
<1>2. StepOf(j) /\ Running(j)
  BY DEF Fail, Goto, asked, StepOf
<1>3. /\ status'[j] = "failed"
      /\ UNCHANGED <<points, selects, attempt, results, selections>>
  BY DEF ResultsInv, ResultsTypeOK, Fail, Goto, asked
<1>4. JobInv(j)'
  <2>1. LoopInOrder(j)'
    BY <1>3 DEF LoopInOrder, Looping
  <2>2. RowsInOrder(j)'
    BY <1>3 DEF ResultsInv, JobInv, RowsInOrder, Looping
  <2>3. SelectionsInOrder(j)'
    BY <1>3 DEF ResultsInv, JobInv, SelectionsInOrder, Looping
  <2> QED BY <2>1, <2>2, <2>3 DEF JobInv
<1> QED BY <1>1, <1>2, <1>4, StepKeepsInv DEF OwnLocals

\* requeue_or_fail, whatever the job was doing, while no other is in a worker: what
\* it has written is of an earlier attempt.
LEMMA RequeueKeepsInv ==
    ASSUME ResultsInv, NEW j \in Jobs, RequeueOrFail(j),
           (Running(j) /\ Leave) \/ UNCHANGED locals,
           UNCHANGED <<asked, results, selections>>
    PROVE  ResultsInv'
<1> USE ResultsAssumption
<1>1. /\ \/ /\ attempt[j] < MaxAttempts
            /\ attempt' = [attempt EXCEPT ![j] = attempt[j] + 1]
            /\ status' = [status EXCEPT ![j] = "queued"]
         \/ attempt' = attempt /\ status' = [status EXCEPT ![j] = "failed"]
      /\ UNCHANGED <<points, selects, results, selections>>
  BY DEF RequeueOrFail, Goto, asked
<1>2. ResultsTypeOK'
  <2>1. index' \in 0 .. MaxPoints /\ output' \in 1 .. Len(Outputs) + 1
        /\ selected' \in (0 .. MaxModes - 1) \cup {Nil}
    BY DEF ResultsInv, ResultsTypeOK, Leave, locals
  <2>2. attempt' \in [Jobs -> 1 .. MaxAttempts]
    <3>1. CASE attempt' = attempt
      BY <3>1 DEF ResultsInv, ResultsTypeOK
    <3>2. CASE attempt[j] < MaxAttempts /\ attempt' = [attempt EXCEPT ![j] = attempt[j] + 1]
      <4>1. attempt[j] + 1 \in 1 .. MaxAttempts
        BY <3>2 DEF ResultsInv, ResultsTypeOK
      <4> QED BY <3>2, <4>1 DEF ResultsInv, ResultsTypeOK
    <3> QED BY <1>1, <3>1, <3>2
  <2>3. status' \in [Jobs -> {"queued", "solved", "point", "outputs", "done", "failed"}]
    BY <1>1 DEF ResultsInv, ResultsTypeOK
  <2> QED BY <1>1, <2>1, <2>2, <2>3 DEF ResultsInv, ResultsTypeOK
<1>3. StepOf(j)
  <2>1. \A k \in Jobs \ {j} : status'[k] = status[k] /\ attempt'[k] = attempt[k]
    BY <1>1 DEF ResultsInv, ResultsTypeOK
  <2> QED BY <1>1, <2>1 DEF StepOf
<1>4. \/ status'[j] = "failed" /\ attempt'[j] = attempt[j]
      \/ status'[j] = "queued" /\ attempt'[j] = attempt[j] + 1
  BY <1>1 DEF ResultsInv, ResultsTypeOK
<1>5. attempt[j] \in Nat
  BY DEF ResultsInv, ResultsTypeOK
<1>6. /\ \A q \in DOMAIN results[j] : results[j][q].run \in Nat
      /\ \A q \in DOMAIN selections[j] : selections[j][q].run \in Nat
  BY RunsAreNumbers DEF ResultsInv
<1>a. OwnLocals(j)
  BY <1>4 DEF OwnLocals, Running
<1>7. JobInv(j)'
  <2>1. LoopInOrder(j)'
    BY <1>4 DEF LoopInOrder, Looping
  <2>2. RowsInOrder(j)'
    BY <1>1, <1>4, <1>5, <1>6 DEF ResultsInv, JobInv, RowsInOrder, Looping
  <2>3. SelectionsInOrder(j)'
    BY <1>1, <1>4, <1>5, <1>6 DEF ResultsInv, JobInv, SelectionsInOrder, Looping
  <2> QED BY <2>1, <2>2, <2>3 DEF JobInv
<1> QED BY <1>2, <1>3, <1>a, <1>7, StepKeepsInv

LEMMA DieKeepsInv ==
    ASSUME ResultsInv, NEW j \in Jobs, Die(j) PROVE ResultsInv'
BY RequeueKeepsInv DEF Die

\* A job that has ended is reclaimed while another one may be in a worker.
LEMMA ReclaimEndedKeepsInv ==
    ASSUME ResultsInv, NEW j \in Jobs, ReclaimEnded(j) PROVE ResultsInv'
BY RequeueKeepsInv DEF ReclaimEnded

\* The loop has passed every point, so every row is there.
LEMMA MarkDoneKeepsInv ==
    ASSUME ResultsInv, NEW j \in Jobs, MarkDone(j) PROVE ResultsInv'
<1> USE ResultsAssumption
<1>1. ResultsTypeOK'
  <2>1. /\ status' = [status EXCEPT ![j] = "done"] /\ Leave
        /\ UNCHANGED <<points, selects, attempt, results, selections>>
    BY DEF MarkDone, Goto, asked
  <2> QED BY <2>1 DEF ResultsInv, ResultsTypeOK, Leave
<1>2. StepOf(j) /\ Running(j)
  BY DEF MarkDone, Goto, asked, StepOf, Running
<1>3. /\ status[j] = "point" /\ status'[j] = "done" /\ index = points[j]
      /\ UNCHANGED <<points, selects, attempt, results, selections>>
  BY DEF ResultsInv, ResultsTypeOK, MarkDone, Goto, asked
<1>4. points[j] \in Nat
  BY DEF ResultsInv, ResultsTypeOK
<1>5. JobInv(j)'
  <2>1. LoopInOrder(j)'
    BY <1>3 DEF LoopInOrder, Looping
  <2>2. \A p \in 0 .. points[j] - 1, k \in DOMAIN Outputs : Reached(j, p, k) /\ Picked(j, p)
    BY <1>3, <1>4 DEF Reached, Picked
  <2>3. RowsInOrder(j)'
    BY <1>3, <2>2 DEF ResultsInv, JobInv, RowsInOrder, Looping, RowsOf
  <2>4. \A p \in 0 .. points[j] - 1 : Picked(j, p)
    BY <1>3, <1>4 DEF Picked
  <2>5. SelectionsInOrder(j)'
    BY <1>3, <2>4 DEF ResultsInv, JobInv, SelectionsInOrder, Looping, SelectionsOf
  <2> QED BY <2>1, <2>3, <2>5 DEF JobInv
<1> QED BY <1>1, <1>2, <1>5, StepKeepsInv DEF OwnLocals

\* All outputs of the point are written: so far as the loop over the points goes,
\* that is the head of the next.
LEMMA PointDoneKeepsInv ==
    ASSUME ResultsInv, NEW j \in Jobs, PointDone(j) PROVE ResultsInv'
<1> USE ResultsAssumption
<1>1. /\ status[j] = "outputs" /\ output > Len(Outputs)
      /\ status' = [status EXCEPT ![j] = "point"] /\ index' = index + 1
      /\ UNCHANGED <<points, selects, attempt, results, selections, raw, output, selected>>
  BY DEF PointDone, Goto, asked
<1>2. /\ status'[j] = "point" /\ points[j] \in 1 .. MaxPoints
      /\ index \in Nat /\ output \in Nat /\ Len(Outputs) \in Nat
  BY <1>1 DEF ResultsInv, ResultsTypeOK
<1>3. /\ index < points[j] /\ \E modes \in 1 .. MaxModes : Fits(j, modes)
  BY <1>1 DEF ResultsInv, JobInv, LoopInOrder, Looping
<1>4. ResultsTypeOK'
  <2>1. index' \in 0 .. MaxPoints
    BY <1>1, <1>2, <1>3
  <2> QED BY <1>1, <2>1 DEF ResultsInv, ResultsTypeOK
<1>5. StepOf(j) /\ Running(j)
  BY <1>1 DEF StepOf, Running
<1>6. ASSUME NEW p \in Nat, NEW k \in DOMAIN Outputs
      PROVE  (Reached(j, p, k))' <=> Reached(j, p, k)
  <2>1. k < output /\ k \in Nat
    BY <1>1, <1>2
  <2>2. p < index + 1 <=> p < index \/ p = index
    BY <1>2
  <2> QED BY <1>1, <1>2, <2>1, <2>2 DEF Reached
<1>7. ASSUME NEW p \in Nat PROVE (Picked(j, p))' <=> Picked(j, p)
  BY <1>1, <1>2 DEF Picked
<1>8. JobInv(j)'
  <2>1. LoopInOrder(j)'
    <3>1. \E modes \in 1 .. MaxModes : Fits(j, modes)'
      BY <1>1, <1>3 DEF Fits
    <3>2. index' <= points'[j]
      BY <1>1, <1>2, <1>3
    <3> QED BY <1>2, <3>1, <3>2 DEF LoopInOrder, Looping
  <2>2. RowsInOrder(j)'
    <3>1. \A q \in DOMAIN results[j] : results[j][q].point \in Nat
      BY RunsAreNumbers DEF ResultsInv
    <3>2. Looping(j) /\ status'[j] \notin {"queued", "solved", "done"} /\ RowsInOrder(j)
      BY <1>1, <1>2 DEF Looping, ResultsInv, JobInv
    <3>3. /\ results'[j] = results[j] /\ attempt'[j] = attempt[j] /\ points'[j] = points[j]
          /\ \A o, p : (RowsOf(j, o, p))' = RowsOf(j, o, p)
      BY <1>1 DEF RowsOf
    <3> QED BY <1>6, <3>1, <3>2, <3>3 DEF RowsInOrder
  <2>3. SelectionsInOrder(j)'
    <3>1. \A q \in DOMAIN selections[j] : selections[j][q].point \in Nat
      BY RunsAreNumbers DEF ResultsInv
    <3>2. Looping(j) /\ status'[j] \notin {"queued", "solved", "done"} /\ SelectionsInOrder(j)
      BY <1>1, <1>2 DEF Looping, ResultsInv, JobInv
    <3>3. /\ selections'[j] = selections[j] /\ attempt'[j] = attempt[j]
          /\ points'[j] = points[j] /\ selects'[j] = selects[j]
          /\ \A p : (SelectionsOf(j, p))' = SelectionsOf(j, p)
      BY <1>1 DEF SelectionsOf
    <3> QED BY <1>7, <3>1, <3>2, <3>3 DEF SelectionsInOrder
  <2> QED BY <2>1, <2>2, <2>3 DEF JobInv
<1> QED BY <1>4, <1>5, <1>8, StepKeepsInv DEF OwnLocals

\* A new execution has written nothing yet.
LEMMA EvaluateKeepsInv ==
    ASSUME ResultsInv, NEW j \in Jobs, Evaluate(j) PROVE ResultsInv'
<1> USE ResultsAssumption
<1>1. /\ status[j] = "solved" /\ status' = [status EXCEPT ![j] = "point"] /\ index' = 0
      /\ UNCHANGED <<points, selects, attempt, results, selections, output, selected>>
  BY DEF Evaluate, Goto, asked
<1>2. status'[j] = "point" /\ points[j] \in Nat
  BY <1>1 DEF ResultsInv, ResultsTypeOK
<1>3. ResultsTypeOK'
  BY <1>1 DEF ResultsInv, ResultsTypeOK
<1>4. StepOf(j) /\ Running(j)
  BY <1>1 DEF StepOf, Running
<1>5. \E modes \in 1 .. MaxModes : Fits(j, modes)'
  <2>1. PICK modes \in 1 .. MaxModes :
         \E arrays \in [OutputNames -> UNION {OutputArrays(o, points[j], modes) : o \in OutputNames}],
            neff \in IF selects[j] THEN NeffArrays(points[j], modes) ELSE {Nil},
            target \in IF selects[j] THEN TargetArrays(points[j], modes) ELSE {Nil} :
              /\ \A o \in OutputNames : arrays[o] \in OutputArrays(o, points[j], modes)
              /\ \E complex \in SUBSET MayBeComplex :
                   raw' = [outputs |-> arrays, complex |-> complex,
                           neff |-> neff, target |-> target]
    BY Zenon DEF Evaluate
  <2>2. PICK arrays \in [OutputNames -> UNION {OutputArrays(o, points[j], modes) : o \in OutputNames}],
             neff \in IF selects[j] THEN NeffArrays(points[j], modes) ELSE {Nil},
             target \in IF selects[j] THEN TargetArrays(points[j], modes) ELSE {Nil},
             complex \in SUBSET MayBeComplex :
              /\ \A o \in OutputNames : arrays[o] \in OutputArrays(o, points[j], modes)
              /\ raw' = [outputs |-> arrays, complex |-> complex,
                         neff |-> neff, target |-> target]
    BY <2>1, Zenon
  <2>3. raw'.outputs = arrays /\ raw'.neff = neff /\ raw'.target = target
    BY <2>2
  <2>4. Fits(j, modes)'
    BY <1>1, <2>2, <2>3 DEF Fits
  <2> QED BY <2>4
<1>6. JobInv(j)'
  <2>1. LoopInOrder(j)'
    BY <1>1, <1>2, <1>5 DEF LoopInOrder, Looping
  <2>2. /\ \A p \in 0 .. points[j] - 1, k \in DOMAIN Outputs : ~(Reached(j, p, k))'
        /\ \A p \in 0 .. points[j] - 1 : ~(Picked(j, p))'
    BY <1>1, <1>2 DEF Reached, Picked
  <2>3. RowsInOrder(j)'
    <3>1. /\ \A q \in DOMAIN results[j] : results[j][q].run < attempt[j]
          /\ \A q \in DOMAIN results[j] : results[j][q].run \in Nat
          /\ attempt[j] \in Nat
      BY <1>1, RunsAreNumbers DEF ResultsInv, ResultsTypeOK, JobInv, RowsInOrder
    <3>2. \A q \in DOMAIN results[j] : results[j][q].run # attempt[j]
      BY <3>1
    <3>3. status'[j] \notin {"queued", "solved", "done"} /\ RowsInOrder(j)
      BY <1>2 DEF ResultsInv, JobInv
    <3>4. results'[j] = results[j] /\ attempt'[j] = attempt[j] /\ points'[j] = points[j]
      BY <1>1
    <3> QED BY <2>2, <3>2, <3>3, <3>4 DEF RowsInOrder
  <2>4. SelectionsInOrder(j)'
    <3>1. /\ \A q \in DOMAIN selections[j] : selections[j][q].run < attempt[j]
          /\ \A q \in DOMAIN selections[j] : selections[j][q].run \in Nat
          /\ attempt[j] \in Nat
      BY <1>1, RunsAreNumbers DEF ResultsInv, ResultsTypeOK, JobInv, SelectionsInOrder
    <3>2. \A q \in DOMAIN selections[j] : selections[j][q].run # attempt[j]
      BY <3>1
    <3>3. status'[j] \notin {"queued", "solved", "done"} /\ SelectionsInOrder(j)
      BY <1>2 DEF ResultsInv, JobInv
    <3>4. /\ selections'[j] = selections[j] /\ attempt'[j] = attempt[j]
          /\ points'[j] = points[j] /\ selects'[j] = selects[j]
      BY <1>1
    <3> QED BY <2>2, <3>2, <3>3, <3>4 DEF SelectionsInOrder
  <2> QED BY <2>1, <2>3, <2>4 DEF JobInv
<1> QED BY <1>3, <1>4, <1>6, StepKeepsInv DEF OwnLocals

\* Where the arrays fit, the mode nearest to the target of the point is picked.
LEMMA SelectedAtPoint ==
    ASSUME ResultsInv, NEW j \in Jobs, selects[j], index < points[j],
           NEW modes \in 1 .. MaxModes, Fits(j, modes)
    PROVE  LET n == points[j]
               neffs == SliceForPoint(raw.neff, index, n)
               k == NearestIndex(neffs, SliceForPoint(raw.target, index, n)[1])
           IN  /\ Len(neffs) = modes
               /\ Len(raw.neff) \div n = modes
               /\ k \in 0 .. modes - 1
               /\ IsSelectedMode(k, n)
<1> USE ResultsAssumption
<1> DEFINE n == points[j]
           neffs == SliceForPoint(raw.neff, index, n)
           tper == Len(raw.target) \div n
           target == SliceForPoint(raw.target, index, n)[1]
           k == NearestIndex(neffs, target)
<1>1. n \in Nat \ {0} /\ index \in 0 .. n - 1 /\ modes \in Nat \ {0}
  BY DEF ResultsInv, ResultsTypeOK
<1>2. raw.neff \in NeffArrays(n, modes) /\ raw.target \in TargetArrays(n, modes)
  BY DEF Fits
<1> HIDE DEF n
<1>slice. ASSUME NEW flat \in Seq(Int), Divides(n, Len(flat))
         PROVE  /\ SliceForPoint(flat, index, n) \in Seq(Int)
                /\ Len(SliceForPoint(flat, index, n)) = Len(flat) \div n
                /\ \A l \in 0 .. Len(flat) \div n - 1 :
                      SliceForPoint(flat, index, n)[l + 1] = flat[index * (Len(flat) \div n) + l + 1]
  BY <1>1, <1>slice, SliceOfInts
<1>3. n * modes \in Nat
  BY <1>1
<1>4. raw.neff \in Seq(Int) /\ Len(raw.neff) = n * modes
  <2> DEFINE m == n * modes
  <2>1. raw.neff \in [1 .. m -> Int] /\ m \in Nat
    BY <1>2, <1>3 DEF NeffArrays
  <2> HIDE DEF m
  <2>2. raw.neff \in Seq(Int) /\ Len(raw.neff) = m
    BY <2>1
  <2> QED BY <2>2 DEF m
<1>5. Divides(n, Len(raw.neff)) /\ Len(raw.neff) \div n = modes
  BY <1>1, <1>4, DivMul DEF Divides
<1>6. /\ neffs \in Seq(Int) /\ Len(neffs) = modes
      /\ \A l \in 0 .. modes - 1 : neffs[l + 1] = raw.neff[index * modes + l + 1]
  <2>1. /\ SliceForPoint(raw.neff, index, n) \in Seq(Int)
        /\ Len(SliceForPoint(raw.neff, index, n)) = Len(raw.neff) \div n
        /\ \A l \in 0 .. Len(raw.neff) \div n - 1 :
              SliceForPoint(raw.neff, index, n)[l + 1] = raw.neff[index * (Len(raw.neff) \div n) + l + 1]
    BY <1>4, <1>5, <1>slice, Zenon
  <2> QED BY <1>5, <2>1, Zenon
<1>7. /\ raw.target \in Seq(Int) /\ Len(raw.target) \in {n, n * modes}
  <2> DEFINE m == n * modes
  <2>1. PICK t \in [1 .. n -> Neffs] :
           raw.target \in {t, [q \in 1 .. m |-> t[((q - 1) \div modes) + 1]]}
    BY <1>2 DEF TargetArrays
  <2>2. CASE raw.target = t
    <3>1. t \in [1 .. n -> Int]
      OBVIOUS
    <3>2. t \in Seq(Int) /\ Len(t) = n
      BY <1>1, <3>1
    <3> QED BY <2>2, <3>2
  <2>3. CASE raw.target = [q \in 1 .. m |-> t[((q - 1) \div modes) + 1]]
    <3>1. ASSUME NEW q \in 1 .. m PROVE t[((q - 1) \div modes) + 1] \in Int
      <4>1. (q - 1) \div modes \in 0 .. n - 1
        <5>1. q - 1 \in Nat /\ q - 1 < n * modes
          BY <1>3
        <5> QED BY <1>1, <5>1, DivBelow, Zenon
      <4>2. ((q - 1) \div modes) + 1 \in 1 .. n
        BY <1>1, <4>1
      <4>3. t[((q - 1) \div modes) + 1] \in Neffs
        BY <4>2
      <4> QED BY <4>3
    <3> HIDE DEF m
    <3>2. m \in Nat
      BY <1>3 DEF m
    <3>3. raw.target \in Seq(Int) /\ Len(raw.target) = m
      BY <2>3, <3>1, <3>2
    <3> QED BY <3>3 DEF m
  <2> QED BY <2>1, <2>2, <2>3
<1>8. Divides(n, Len(raw.target)) /\ tper \in {1, modes}
  <2>1. CASE Len(raw.target) = n
    <3>1. Len(raw.target) = n * 1
      BY <1>1, <2>1
    <3>2. Divides(n, n * 1) /\ (n * 1) \div n = 1
      BY <1>1, DivMul DEF Divides
    <3> QED BY <3>1, <3>2
  <2>2. CASE Len(raw.target) = n * modes
    <3>1. Divides(n, n * modes) /\ (n * modes) \div n = modes
      BY <1>1, DivMul DEF Divides
    <3> QED BY <2>2, <3>1, Zenon
  <2> QED BY <1>7, <2>1, <2>2
<1>9. target = raw.target[index * tper + 1] /\ target \in Int
  <2>1. /\ SliceForPoint(raw.target, index, n) \in Seq(Int)
        /\ Len(SliceForPoint(raw.target, index, n)) = tper
        /\ \A l \in 0 .. tper - 1 :
              SliceForPoint(raw.target, index, n)[l + 1] = raw.target[index * tper + l + 1]
    BY <1>7, <1>8, <1>slice, Zenon
  <2> HIDE DEF tper
  <2>2. 0 \in 0 .. tper - 1 /\ tper \in Nat \ {0}
    BY <1>1, <1>8
  <2>3. index * tper + 0 + 1 = index * tper + 1
    <3>1. index * tper \in Nat
      BY <1>1, <2>2
    <3> QED BY <3>1
  <2>4. SliceForPoint(raw.target, index, n)[0 + 1] = raw.target[index * tper + 1]
    BY <2>1, <2>2, <2>3, Zenon
  <2>5. target = raw.target[index * tper + 1]
    BY <2>4
  <2>6. target \in Int
    BY <2>1, <2>2
  <2> QED BY <2>5, <2>6
<1> HIDE DEF target, tper, neffs
<1>10. /\ k \in 0 .. modes - 1
       /\ \A l \in 0 .. modes - 1 :
            /\ Distance(neffs[k + 1], target) <= Distance(neffs[l + 1], target)
            /\ l < k => Distance(neffs[k + 1], target) < Distance(neffs[l + 1], target)
  <2>1. neffs \in Seq(Int) /\ Len(neffs) > 0 /\ Len(neffs) = modes /\ target \in Int
    BY <1>1, <1>6, <1>9
  <2>2. /\ NearestIndex(neffs, target) \in 0 .. Len(neffs) - 1
        /\ \A l \in 0 .. Len(neffs) - 1 :
             /\ Distance(neffs[NearestIndex(neffs, target) + 1], target)
                  <= Distance(neffs[l + 1], target)
             /\ l < NearestIndex(neffs, target) =>
                  Distance(neffs[NearestIndex(neffs, target) + 1], target)
                    < Distance(neffs[l + 1], target)
    BY <2>1, NearestIndexIsFirstNearest, Zenon
  <2> QED BY <2>1, <2>2, Zenon
<1> HIDE DEF k
<1>11. IsSelectedMode(k, n)
  <2>1. target = raw.target[index * (Len(raw.target) \div n) + 1]
    BY <1>9 DEF tper
  <2> QED BY <1>5, <1>6, <1>10, <2>1, Zenon DEF IsSelectedMode
<1> QED BY <1>5, <1>6, <1>10, <1>11 DEF k, neffs, target, n

LEMMA NextPointKeepsInv ==
    ASSUME ResultsInv, NEW j \in Jobs, NextPoint(j) PROVE ResultsInv'
<1> USE ResultsAssumption
<1> DEFINE n == points[j]
           neffs == SliceForPoint(raw.neff, index, n)
           pick == NearestIndex(neffs, SliceForPoint(raw.target, index, n)[1])
           new == [point |-> index, run |-> attempt[j], modes |-> Len(neffs)]
<1>1. /\ status[j] = "point" /\ index < n /\ output' = 1
      /\ status' = [status EXCEPT ![j] = "outputs"]
      /\ UNCHANGED <<points, selects, attempt, results, raw, index>>
  BY DEF NextPoint, Goto, asked
<1>2. /\ selects[j] => /\ selected' = pick
                       /\ selections' = [selections EXCEPT ![j] = Append(@, new)]
      /\ ~selects[j] => selected' = Nil /\ selections' = selections
  BY DEF NextPoint
<1>3. /\ status'[j] = "outputs" /\ n \in 1 .. MaxPoints /\ index \in 0 .. MaxPoints - 1
      /\ index \in Nat /\ attempt[j] \in 1 .. MaxAttempts
      /\ selections[j] \in Seq(SelectionRow)
  BY <1>1 DEF ResultsInv, ResultsTypeOK
<1>4. PICK modes \in 1 .. MaxModes : Fits(j, modes)
  BY <1>1 DEF ResultsInv, JobInv, LoopInOrder, Looping
<1>5. selects[j] => /\ Len(neffs) = modes /\ Len(raw.neff) \div n = modes
                    /\ pick \in 0 .. modes - 1 /\ IsSelectedMode(pick, n)
  BY <1>1, <1>4, SelectedAtPoint, Zenon
<1> HIDE DEF pick, neffs
<1>6. selects[j] => new \in SelectionRow
  BY <1>3, <1>4, <1>5 DEF SelectionRow
<1>7. selections'[j] = IF selects[j] THEN Append(selections[j], new) ELSE selections[j]
  BY <1>2 DEF ResultsInv, ResultsTypeOK
<1> HIDE DEF new
<1>8. ResultsTypeOK'
  <2>1. selected' \in (0 .. MaxModes - 1) \cup {Nil}
    BY <1>2, <1>4, <1>5
  <2>2. selections' \in [Jobs -> Seq(SelectionRow)]
    <3>1. CASE selects[j]
      <4>1. Append(selections[j], new) \in Seq(SelectionRow)
        BY <1>3, <1>6, <3>1
      <4> QED BY <1>2, <3>1, <4>1 DEF ResultsInv, ResultsTypeOK
    <3>2. CASE ~selects[j]
      BY <1>2, <3>2 DEF ResultsInv, ResultsTypeOK
    <3> QED BY <3>1, <3>2
  <2>3. output' \in 1 .. Len(Outputs) + 1
    BY <1>1
  <2> QED BY <1>1, <2>1, <2>2, <2>3 DEF ResultsInv, ResultsTypeOK
<1>9. StepOf(j) /\ Running(j)
  <2>1. \A k \in Jobs \ {j} : selections'[k] = selections[k]
    BY <1>2 DEF ResultsInv, ResultsTypeOK
  <2> QED BY <1>1, <2>1 DEF StepOf, Running
<1>10. JobInv(j)'
  <2>1. LoopInOrder(j)'
    <3>1. index' < points'[j] /\ index' <= points'[j]
      BY <1>1, <1>3
    <3>2. Fits(j, modes)'
      BY <1>1, <1>4 DEF Fits
    <3>3. CASE selects[j]
      <4>1. selected' \in 0 .. Len(raw'.neff) \div points'[j] - 1
        BY <1>1, <1>2, <1>5, <3>3
      <4>2. (IsSelectedMode(selected, points[j]))'
        <5>1. IsSelectedMode(pick, n) /\ selected' = pick
          BY <1>2, <1>5, <3>3
        <5> QED BY <1>1, <5>1 DEF IsSelectedMode
      <4> QED BY <1>1, <1>3, <3>1, <3>2, <3>3, <4>1, <4>2 DEF LoopInOrder, Looping
    <3>4. CASE ~selects[j]
      BY <1>1, <1>2, <1>3, <3>1, <3>2, <3>4 DEF LoopInOrder, Looping
    <3> QED BY <3>3, <3>4
  <2>2. RowsInOrder(j)'
    <3>1. \A q \in DOMAIN results[j] : results[j][q].point \in Nat
      BY RunsAreNumbers DEF ResultsInv
    <3>2. Looping(j) /\ status'[j] \notin {"queued", "solved", "done"} /\ RowsInOrder(j)
      BY <1>1, <1>3 DEF Looping, ResultsInv, JobInv
    <3>3. /\ results'[j] = results[j] /\ attempt'[j] = attempt[j] /\ points'[j] = points[j]
          /\ \A o, p : (RowsOf(j, o, p))' = RowsOf(j, o, p)
      BY <1>1 DEF RowsOf
    <3>4. \A p \in Nat, k \in DOMAIN Outputs : (Reached(j, p, k))' <=> Reached(j, p, k)
      BY <1>1, <1>3 DEF Reached
    <3> QED BY <3>1, <3>2, <3>3, <3>4 DEF RowsInOrder
  <2>3. SelectionsInOrder(j)'
    <3>1. /\ Looping(j) /\ status'[j] \notin {"queued", "solved", "done"}
          /\ SelectionsInOrder(j)
      BY <1>1, <1>3 DEF Looping, ResultsInv, JobInv
    <3>2. /\ \A p \in Nat : Picked(j, p) <=> p < index
          /\ \A p \in Nat : (Picked(j, p))' <=> (p < index \/ p = index)
      BY <1>1, <1>3 DEF Picked
    <3>3. /\ attempt'[j] = attempt[j] /\ points'[j] = points[j] /\ selects'[j] = selects[j]
      BY <1>1
    <3>4. /\ \A q \in DOMAIN selections[j] : selections[j][q].point \in Nat
          /\ \A q \in DOMAIN selections[j] : selections[j][q].run \in Nat
      BY RunsAreNumbers DEF ResultsInv
    <3>5. CASE ~selects[j]
      BY <1>7, <3>1, <3>3, <3>5 DEF SelectionsInOrder
    <3>6. CASE selects[j]
      <4> DEFINE len == Len(selections[j])
      <4>1. /\ len \in Nat /\ DOMAIN selections[j] = 1 .. len
            /\ DOMAIN selections'[j] = 1 .. len + 1
            /\ \A q \in 1 .. len : selections'[j][q] = selections[j][q]
            /\ selections'[j][len + 1] = new
        BY <1>3, <1>7, <3>6
      <4>2. new.point = index /\ new.run = attempt[j]
        BY DEF new
      <4> HIDE DEF len
      <4>3. \A q \in 1 .. len : selections[j][q].run = attempt[j] => selections[j][q].point < index
        BY <3>1, <3>2, <3>4, <4>1 DEF SelectionsInOrder
      <4>4. \A q \in 1 .. len + 1 : q \in 1 .. len \/ q = len + 1
        BY <4>1
      <4>5. \A q \in 1 .. len + 1 : selections'[j][q].run <= attempt'[j]
        <5>1. \A q \in 1 .. len : selections[j][q].run <= attempt[j]
          BY <3>1, <4>1 DEF SelectionsInOrder
        <5>2. \A q \in 1 .. len : selections'[j][q].run <= attempt[j]
          BY <4>1, <5>1
        <5>3. selections'[j][len + 1].run = attempt[j] /\ attempt[j] <= attempt[j]
          BY <1>3, <4>1, <4>2
        <5> QED BY <3>3, <4>4, <5>2, <5>3
      <4>6. ASSUME NEW q \in 1 .. len + 1, NEW r \in 1 .. len + 1,
                   selections'[j][q].point = selections'[j][r].point,
                   selections'[j][q].run = selections'[j][r].run
            PROVE  q = r
        <5>1. CASE q \in 1 .. len /\ r \in 1 .. len
          BY <3>1, <4>1, <4>6, <5>1 DEF SelectionsInOrder
        <5>2. \A x \in 1 .. len :
                ~(selections[j][x].point = new.point /\ selections[j][x].run = new.run)
          BY <1>3, <4>2, <4>3
        <5> QED BY <4>1, <4>4, <4>6, <5>1, <5>2
      <4>7. \A q \in 1 .. len + 1 :
              selections'[j][q].run = attempt'[j] => (Picked(j, selections[j][q].point))'
        <5>1. \A q \in 1 .. len + 1 : selections'[j][q].run = attempt'[j] =>
                 /\ selections'[j][q].point \in Nat
                 /\ selections'[j][q].point < index \/ selections'[j][q].point = index
          BY <1>3, <3>3, <3>4, <4>1, <4>2, <4>3, <4>4
        <5> QED BY <1>1, <1>3, <5>1 DEF Picked
      <4>8. ASSUME NEW p \in 0 .. points'[j] - 1, (Picked(j, p))'
            PROVE  (SelectionsOf(j, p))' # {}
        <5>1. p \in Nat
          OBVIOUS
        <5>2. CASE p < index
          <6>1. SelectionsOf(j, p) # {}
            BY <3>1, <3>2, <3>3, <3>6, <5>1, <5>2 DEF SelectionsInOrder
          <6>2. PICK q \in 1 .. len : selections[j][q].point = p
            BY <4>1, <6>1 DEF SelectionsOf
          <6>3. q \in DOMAIN selections'[j] /\ selections'[j][q].point = p
            BY <4>1, <6>2
          <6> QED BY <6>3 DEF SelectionsOf
        <5>3. CASE p = index
          <6>1. len + 1 \in DOMAIN selections'[j] /\ selections'[j][len + 1].point = p
            BY <4>1, <4>2, <5>3
          <6> QED BY <6>1 DEF SelectionsOf
        <5> QED BY <3>2, <4>8, <5>1, <5>2, <5>3
      <4> QED BY <3>1, <3>3, <3>6, <4>1, <4>5, <4>6, <4>7, <4>8 DEF SelectionsInOrder
    <3> QED BY <3>5, <3>6
  <2> QED BY <2>1, <2>2, <2>3 DEF JobInv
<1> QED BY <1>8, <1>9, <1>10, StepKeepsInv DEF OwnLocals

\* What write_result takes for the output it is at.
LEMMA WrittenValue ==
    ASSUME ResultsInv, NEW j \in Jobs, status[j] = "outputs", output \in DOMAIN Outputs,
           Divides(points[j], Len(raw.outputs[Outputs[output]])),
           Resolves(SliceForPoint(raw.outputs[Outputs[output]], index, points[j]))
    PROVE  LET n == points[j]
               flat == raw.outputs[Outputs[output]]
               v == ResolvePointValue(SliceForPoint(flat, index, n))
           IN  /\ v \in PointValues
               /\ v.output = Outputs[output] /\ v.point = index
               /\ Len(flat) > n => selects[j] /\ IsSelectedMode(v.mode, n)
<1> USE ResultsAssumption
<1> DEFINE n == points[j]
           name == Outputs[output]
           flat == raw.outputs[name]
           values == SliceForPoint(flat, index, n)
           v == ResolvePointValue(values)
<1>1. name \in OutputNames
  BY DEF OutputNames
<1>2. LoopInOrder(j) /\ n \in Nat \ {0} /\ index \in Nat
  BY DEF ResultsInv, ResultsTypeOK, JobInv
<1>3. /\ index < n
      /\ selected # Nil => /\ selects[j]
                           /\ selected \in 0 .. Len(raw.neff) \div n - 1
                           /\ IsSelectedMode(selected, n)
  BY <1>2 DEF LoopInOrder
<1>4. PICK modes \in 1 .. MaxModes : Fits(j, modes)
  BY <1>2 DEF LoopInOrder, Looping
<1>5. flat \in OutputArrays(name, n, modes)
  BY <1>1, <1>4 DEF Fits
<1>6. selected # Nil => selected \in 0 .. modes - 1
  <2>1. ASSUME selects[j] PROVE Len(raw.neff) \div n = modes
    BY <1>2, <1>3, <1>4, <2>1, SelectedAtPoint
  <2> QED BY <1>3, <2>1
<1>7. modes \in Nat \ {0} /\ index \in 0 .. n - 1 /\ Divides(n, Len(flat))
  BY <1>2, <1>3
<1>8. /\ values \in Seq(PointValues)
      /\ \E k \in {1, modes} :
           /\ k <= Len(values)
           /\ \A l \in 0 .. k - 1 : values[l + 1] = Value(name, index, l)
           /\ Len(values) # 1 => k = modes
      /\ Len(values) = 1 => Len(flat) = n
  <2> HIDE DEF name, n, flat
  <2> QED BY <1>1, <1>2, <1>5, <1>7, OutputAtPoint
<1>9. PICK k \in {1, modes} :
         /\ k <= Len(values)
         /\ \A l \in 0 .. k - 1 : values[l + 1] = Value(name, index, l)
         /\ Len(values) # 1 => k = modes
  BY <1>8
<1>10. Resolves(values)
  OBVIOUS
<1> HIDE DEF values, flat, name, n
<1>11. Value(name, index, 0) \in PointValues /\ \A l \in Nat : Value(name, index, l) \in PointValues
  BY <1>1, <1>2 DEF Value, PointValues
<1>12. CASE Len(values) = 1
  <2>1. v = Value(name, index, 0)
    <3>1. 0 \in 0 .. k - 1
      BY <1>7
    <3>2. values[0 + 1] = Value(name, index, 0)
      BY <1>9, <3>1
    <3> QED BY <1>12, <3>2 DEF ResolvePointValue
  <2>2. ~(Len(flat) > n)
    BY <1>2, <1>8, <1>12
  <2> QED BY <1>11, <2>1, <2>2 DEF Value, name, n, flat, values
<1>13. CASE Len(values) # 1
  <2>1. selected # Nil /\ k = modes
    BY <1>9, <1>10, <1>13 DEF Resolves
  <2>2. selected \in 0 .. modes - 1
    BY <1>6, <2>1
  <2>3. v = values[selected + 1]
    BY <1>13 DEF ResolvePointValue
  <2>4. v = Value(name, index, selected)
    BY <1>9, <2>1, <2>2, <2>3
  <2>5. v.mode = selected /\ v.output = name /\ v.point = index /\ v \in PointValues
    BY <1>11, <2>2, <2>4 DEF Value
  <2> HIDE DEF v
  <2> QED BY <1>3, <2>1, <2>5 DEF name, n, flat, values, v
<1> QED BY <1>12, <1>13

LEMMA WriteResultKeepsInv ==
    ASSUME ResultsInv, NEW j \in Jobs, WriteResult(j) PROVE ResultsInv'
<1> USE ResultsAssumption
<1> DEFINE n == points[j]
           name == Outputs[output]
           flat == raw.outputs[name]
           v == ResolvePointValue(SliceForPoint(flat, index, n))
           new == [output |-> name, point |-> index, run |-> attempt[j],
                   value |-> v, complex |-> name \in raw.complex]
           len == Len(results[j])
<1>1. /\ status[j] = "outputs" /\ output <= Len(Outputs) /\ output' = output + 1
      /\ results' = [results EXCEPT ![j] = Append(@, new)]
      /\ UNCHANGED <<points, selects, status, attempt, selections, raw, index, selected>>
  BY DEF WriteResult, asked, row
<1>2. /\ n \in 1 .. MaxPoints /\ index \in Nat /\ attempt[j] \in 1 .. MaxAttempts
      /\ output \in DOMAIN Outputs /\ output \in Nat /\ name \in OutputNames
      /\ results[j] \in Seq(ResultRow)
  BY <1>1 DEF ResultsInv, ResultsTypeOK, OutputNames
<1>3. LoopInOrder(j) /\ RowsInOrder(j) /\ SelectionsInOrder(j) /\ index < n
  BY <1>1 DEF ResultsInv, JobInv, LoopInOrder
<1>4. v \in PointValues
  BY <1>1, <1>2, WrittenValue DEF WriteResult
<1>5. new.output = name /\ new.point = index /\ new.run = attempt[j]
  OBVIOUS
<1>6. new \in ResultRow
  <2> HIDE DEF v
  <2>1. (name \in raw.complex) \in BOOLEAN
    OBVIOUS
  <2>2. index \in 0 .. MaxPoints - 1
    BY <1>2, <1>3
  <2> DEFINE c == name \in raw.complex
  <2>3. c \in BOOLEAN
    BY <2>1
  <2> HIDE DEF c, name
  <2>4. [output |-> name, point |-> index, run |-> attempt[j], value |-> v, complex |-> c]
          \in ResultRow
    BY <1>2, <1>4, <2>2, <2>3 DEF ResultRow, PointValues
  <2> QED BY <2>4 DEF c, name
<1>7. results'[j] = Append(results[j], new)
  BY <1>1 DEF ResultsInv, ResultsTypeOK
<1> HIDE DEF new
<1>8. ResultsTypeOK'
  <2>1. Append(results[j], new) \in Seq(ResultRow)
    BY <1>2, <1>6
  <2>2. results' \in [Jobs -> Seq(ResultRow)]
    BY <1>1, <2>1 DEF ResultsInv, ResultsTypeOK
  <2>3. output' \in 1 .. Len(Outputs) + 1
    BY <1>1, <1>2
  <2> QED BY <1>1, <2>2, <2>3 DEF ResultsInv, ResultsTypeOK
<1>9. StepOf(j) /\ Running(j)
  <2>1. \A k \in Jobs \ {j} : results'[k] = results[k]
    BY <1>1 DEF ResultsInv, ResultsTypeOK
  <2> QED BY <1>1, <2>1 DEF StepOf, Running
<1>10. /\ len \in Nat /\ DOMAIN results[j] = 1 .. len
       /\ DOMAIN results'[j] = 1 .. len + 1
       /\ \A q \in 1 .. len : results'[j][q] = results[j][q]
       /\ results'[j][len + 1] = new
  BY <1>2, <1>7
<1> HIDE DEF len
<1>11. \A q \in 1 .. len + 1 : q \in 1 .. len \/ q = len + 1
  BY <1>10
<1>12. Looping(j) /\ Looping(j)' /\ status'[j] = "outputs"
  BY <1>1 DEF Looping
<1>a. /\ index' = index /\ output' = output + 1
      /\ status[j] = "outputs" /\ status'[j] = "outputs"
  BY <1>1
<1>13. \A q \in 1 .. len :
         /\ results[j][q].run \in Nat /\ results[j][q].point \in Nat
         /\ results[j][q].output \in OutputNames
  BY <1>10, RunsAreNumbers DEF ResultsInv
<1>14. RowsInOrder(j)'
  <2>1. \A q \in 1 .. len + 1 :
          results'[j][q].run <= attempt'[j] /\ results'[j][q].point < points'[j]
    <3>1. \A q \in 1 .. len : results[j][q].run <= attempt[j] /\ results[j][q].point < n
      BY <1>3, <1>10 DEF RowsInOrder
    <3>2. /\ results'[j][len + 1].run = attempt[j] /\ attempt[j] <= attempt[j]
          /\ results'[j][len + 1].point < n
      BY <1>2, <1>3, <1>5, <1>10
    <3> QED BY <1>1, <1>10, <1>11, <3>1, <3>2
  <2>a. ASSUME NEW q \in 1 .. len + 1, NEW r \in 1 .. len + 1, q < r
        PROVE  results'[j][q].run <= results'[j][r].run
    <3>1. q \in 1 .. len
      BY <1>10, <2>a
    <3>2. CASE r \in 1 .. len
      BY <1>3, <1>10, <2>a, <3>1, <3>2 DEF RowsInOrder
    <3>3. CASE r = len + 1
      BY <1>1, <1>5, <1>10, <2>1, <3>3
    <3> QED BY <1>11, <3>2, <3>3
  <2>2. ASSUME NEW q \in 1 .. len,
               results[j][q].output = name, results[j][q].point = index,
               results[j][q].run = attempt[j]
        PROVE  FALSE
    <3>1. Reached(j, index, output)
      BY <1>2, <1>3, <1>10, <1>12, <2>2 DEF RowsInOrder
    <3> QED BY <1>2, <3>1 DEF Reached
  <2>3. ASSUME NEW q \in 1 .. len + 1, NEW r \in 1 .. len + 1,
               results'[j][q].output = results'[j][r].output,
               results'[j][q].point = results'[j][r].point,
               results'[j][q].run = results'[j][r].run
        PROVE  q = r
    <3>1. CASE q \in 1 .. len /\ r \in 1 .. len
      BY <1>3, <1>10, <2>3, <3>1 DEF RowsInOrder
    <3> QED BY <1>5, <1>10, <1>11, <2>2, <2>3, <3>1
  <2>4. /\ \A p \in Nat, k \in DOMAIN Outputs : Reached(j, p, k) => (Reached(j, p, k))'
        /\ \A p \in Nat, k \in DOMAIN Outputs :
              (Reached(j, p, k))' => Reached(j, p, k) \/ (p = index /\ k = output)
    <3>1. \A k \in DOMAIN Outputs : k \in Nat
      OBVIOUS
    <3> QED BY <1>2, <1>a, <3>1 DEF Reached
  <2>5. ASSUME NEW q \in 1 .. len + 1, NEW k \in DOMAIN Outputs,
               results'[j][q].run = attempt'[j], results'[j][q].output = Outputs[k]
        PROVE  (Reached(j, results[j][q].point, k))'
    <3>1. CASE q \in 1 .. len
      <4>1. Reached(j, results[j][q].point, k)
        BY <1>1, <1>3, <1>10, <1>12, <2>5, <3>1 DEF RowsInOrder
      <4>2. results'[j][q].point = results[j][q].point /\ results[j][q].point \in Nat
        BY <1>10, <1>13, <3>1
      <4>3. Reached(j, results'[j][q].point, k)
        BY <4>1, <4>2
      <4>4. k \in Nat
        OBVIOUS
      <4> QED BY <1>2, <1>a, <4>2, <4>3, <4>4 DEF Reached
    <3>2. CASE q = len + 1
      <4>1. k = output
        BY <1>2, <1>5, <1>10, <2>5, <3>2
      <4>2. results'[j][q].point = index
        BY <1>5, <1>10, <3>2
      <4> QED BY <1>2, <1>a, <4>1, <4>2 DEF Reached
    <3> QED BY <1>11, <3>1, <3>2
  <2>6. ASSUME NEW p \in 0 .. points'[j] - 1, NEW k \in DOMAIN Outputs, (Reached(j, p, k))'
        PROVE  \E q \in (RowsOf(j, Outputs[k], p))' : results'[j][q].run = attempt'[j]
    <3>1. p \in Nat
      OBVIOUS
    <3>2. CASE Reached(j, p, k)
      <4>1. \E q \in RowsOf(j, Outputs[k], p) : results[j][q].run = attempt[j]
        BY <1>1, <1>3, <1>12, <3>1, <3>2 DEF RowsInOrder
      <4>2. PICK q \in 1 .. len : /\ results[j][q].output = Outputs[k]
                                  /\ results[j][q].point = p /\ results[j][q].run = attempt[j]
        BY <1>10, <4>1 DEF RowsOf
      <4>3. /\ q \in DOMAIN results'[j] /\ results'[j][q].output = Outputs[k]
            /\ results'[j][q].point = p /\ results'[j][q].run = attempt'[j]
        BY <1>1, <1>10, <4>2
      <4> QED BY <4>3 DEF RowsOf
    <3>3. CASE p = index /\ k = output
      <4>1. /\ len + 1 \in DOMAIN results'[j]
            /\ results'[j][len + 1].output = Outputs[k] /\ results'[j][len + 1].point = p
            /\ results'[j][len + 1].run = attempt'[j]
        BY <1>1, <1>5, <1>10, <3>3
      <4> QED BY <4>1 DEF RowsOf
    <3> QED BY <2>4, <2>6, <3>1, <3>2, <3>3
  <2> QED BY <1>10, <1>12, <2>1, <2>a, <2>3, <2>5, <2>6 DEF RowsInOrder
<1>15. LoopInOrder(j)'
  BY <1>1, <1>3 DEF LoopInOrder, Looping, Fits, IsSelectedMode
<1>16. SelectionsInOrder(j)'
  <2>1. \A p : (Picked(j, p))' <=> Picked(j, p)
    BY <1>1 DEF Picked
  <2>2. \A p : (SelectionsOf(j, p))' = SelectionsOf(j, p)
    BY <1>1 DEF SelectionsOf
  <2> QED BY <1>1, <1>3, <2>1, <2>2 DEF SelectionsInOrder, Looping
<1>17. JobInv(j)'
  BY <1>14, <1>15, <1>16 DEF JobInv
<1> QED BY <1>8, <1>9, <1>17, StepKeepsInv DEF OwnLocals

LEMMA NextKeepsInv == ResultsInv /\ [ResultsNext]_resultVars => ResultsInv'
<1> SUFFICES ASSUME ResultsInv, [ResultsNext]_resultVars PROVE ResultsInv'
  OBVIOUS
<1>1. CASE ResultsNext
  <2>1. PICK j \in Jobs :
          \/ Solve(j) \/ Evaluate(j) \/ NextPoint(j) \/ WriteResult(j) \/ PointDone(j)
          \/ MarkDone(j) \/ Fail(j) \/ Die(j) \/ ReclaimEnded(j)
    BY <1>1 DEF ResultsNext
  <2> QED BY <2>1, SolveKeepsInv, EvaluateKeepsInv, NextPointKeepsInv, WriteResultKeepsInv,
             PointDoneKeepsInv, MarkDoneKeepsInv, FailKeepsInv, DieKeepsInv,
             ReclaimEndedKeepsInv
<1>2. CASE UNCHANGED resultVars
  <2>1. UNCHANGED <<points, selects, status, attempt, results, selections, raw, index, output, selected>>
    BY <1>2 DEF resultVars, asked, row, locals
  <2>2. ResultsTypeOK' /\ OneAtATime'
    BY <2>1 DEF ResultsInv, ResultsTypeOK, OneAtATime, Running
  <2>3. ASSUME NEW j \in Jobs PROVE JobInv(j)'
    <3>1. LoopInOrder(j)'
      BY <2>1 DEF ResultsInv, JobInv, LoopInOrder, Looping, Fits, IsSelectedMode
    <3>2. RowsInOrder(j)'
      BY <2>1 DEF ResultsInv, JobInv, RowsInOrder, Looping, Reached, RowsOf
    <3>3. SelectionsInOrder(j)'
      BY <2>1 DEF ResultsInv, JobInv, SelectionsInOrder, Looping, Picked, SelectionsOf
    <3> QED BY <3>1, <3>2, <3>3 DEF JobInv
  <2> QED BY <2>2, <2>3 DEF ResultsInv
<1> QED BY <1>1, <1>2

\* In the loops the arrays fit, the mode picked is the point's, and an execution
\* has inserted what it has passed, once (worker.py:130-192).
THEOREM ResultsInvariant == ResultsSpec => []ResultsInv
<1>1. QED BY InitInv, NextKeepsInv, PTL DEF ResultsSpec

\* Every execution leaves well-formed rows, and indices within the job's points.
THEOREM ResultsTypeCorrect == ResultsSpec => []ResultsTypeOK
<1>1. ResultsInv => ResultsTypeOK
  BY DEF ResultsInv
<1> QED BY <1>1, ResultsInvariant, PTL

\* Positions told apart by a number from 1 to m are m at most.
LEMMA CountByRun ==
    ASSUME NEW S, NEW m \in Nat, NEW run \in [S -> 1 .. m],
           \A q, r \in S : run[q] = run[r] => q = r
    PROVE  Cardinality(S) <= m
<1>1. run \in Injection(S, 1 .. m)
  BY DEF Injection, IsInjective
<1>2. IsFiniteSet(1 .. m) /\ Cardinality(1 .. m) = m
  BY FS_Interval
<1>3. Cardinality(S) <= Cardinality(1 .. m)
  BY <1>1, <1>2, FS_Injection, Zenon
<1> QED BY <1>2, <1>3

\* A row and a mode selection per point and execution at most, and all of them
\* once the job is done (worker.py:168-190, queue.py:243-290).
THEOREM FinishedJobsHaveTheirRows == ResultsSpec => []RowsCountExecutions
<1>1. ASSUME ResultsInv PROVE RowsCountExecutions
  <2> SUFFICES ASSUME NEW j \in Jobs, NEW i \in 0 .. points[j] - 1
               PROVE  /\ \A o \in OutputNames : Cardinality(RowsOf(j, o, i)) <= attempt[j]
                      /\ Cardinality(SelectionsOf(j, i)) <= attempt[j]
                      /\ status[j] = "done" =>
                           /\ \A o \in OutputNames : RowsOf(j, o, i) # {}
                           /\ selects[j] = (SelectionsOf(j, i) # {})
    BY DEF RowsCountExecutions
  <2>1. /\ attempt[j] \in Nat /\ selects[j] \in BOOLEAN
        /\ RowsInOrder(j) /\ SelectionsInOrder(j)
    BY <1>1, ResultsAssumption DEF ResultsInv, ResultsTypeOK, JobInv
  <2>2. /\ \A q \in DOMAIN results[j] : results[j][q].run \in 1 .. attempt[j]
        /\ \A q \in DOMAIN selections[j] : selections[j][q].run \in 1 .. attempt[j]
    <3>1. /\ \A q \in DOMAIN results[j] : results[j][q].run \in Nat \ {0}
          /\ \A q \in DOMAIN selections[j] : selections[j][q].run \in Nat \ {0}
      BY <1>1, RunsAreNumbers DEF ResultsInv
    <3> QED BY <2>1, <3>1 DEF RowsInOrder, SelectionsInOrder
  <2>3. ASSUME NEW o \in OutputNames PROVE Cardinality(RowsOf(j, o, i)) <= attempt[j]
    <3> DEFINE run == [q \in RowsOf(j, o, i) |-> results[j][q].run]
    <3>1. run \in [RowsOf(j, o, i) -> 1 .. attempt[j]]
      BY <2>2 DEF RowsOf
    <3>2. \A q, r \in RowsOf(j, o, i) : run[q] = run[r] => q = r
      BY <2>1 DEF RowsOf, RowsInOrder
    <3> HIDE DEF run
    <3> QED BY <2>1, <3>1, <3>2, CountByRun
  <2>4. Cardinality(SelectionsOf(j, i)) <= attempt[j]
    <3> DEFINE run == [q \in SelectionsOf(j, i) |-> selections[j][q].run]
    <3>1. run \in [SelectionsOf(j, i) -> 1 .. attempt[j]]
      BY <2>2 DEF SelectionsOf
    <3>2. \A q, r \in SelectionsOf(j, i) : run[q] = run[r] => q = r
      BY <2>1 DEF SelectionsOf, SelectionsInOrder
    <3> HIDE DEF run
    <3> QED BY <2>1, <3>1, <3>2, CountByRun
  <2>5. ASSUME status[j] = "done", NEW o \in OutputNames PROVE RowsOf(j, o, i) # {}
    <3>1. PICK k \in DOMAIN Outputs : o = Outputs[k]
      BY DEF OutputNames
    <3> QED BY <2>1, <2>5, <3>1 DEF RowsInOrder
  <2>6. ASSUME status[j] = "done" PROVE selects[j] = (SelectionsOf(j, i) # {})
    <3>1. CASE selects[j]
      BY <2>1, <2>6, <3>1 DEF SelectionsInOrder
    <3>2. CASE ~selects[j]
      <4>1. selections[j] = <<>>
        BY <2>1, <3>2 DEF SelectionsInOrder
      <4>2. SelectionsOf(j, i) = {}
        BY <4>1 DEF SelectionsOf
      <4> QED BY <2>1, <3>2, <4>2
    <3> QED BY <3>1, <3>2
  <2> QED BY <2>3, <2>4, <2>5, <2>6
<1> QED BY <1>1, ResultsInvariant, PTL

\* Every row is of its own output and sweep point, and of the mode nearest to the
\* target of the point if there is one per mode (worker.py:41-72, 168-188).
THEOREM RowsAreOfTheirPoints == ResultsSpec => RowsFitTheirPoints
<1> DEFINE Fit ==
      \A j \in Jobs : results'[j] # results[j] =>
        LET new == results'[j][Len(results'[j])]
            n == points[j]
            flat == raw.outputs[new.output]
        IN /\ new.point = index /\ new.value.point = index
           /\ new.value.output = new.output
           /\ Divides(n, Len(flat))
           /\ Len(flat) > n => selects[j] /\ IsSelectedMode(new.value.mode, n)
<1>1. ASSUME ResultsInv, [ResultsNext]_resultVars PROVE [Fit]_resultVars
  <2> SUFFICES ASSUME ResultsNext, NEW j \in Jobs, results'[j] # results[j]
               PROVE  LET new == results'[j][Len(results'[j])]
                          n == points[j]
                          flat == raw.outputs[new.output]
                      IN /\ new.point = index /\ new.value.point = index
                         /\ new.value.output = new.output
                         /\ Divides(n, Len(flat))
                         /\ Len(flat) > n => selects[j] /\ IsSelectedMode(new.value.mode, n)
    BY <1>1, Zenon
  <2>1. \/ UNCHANGED results
        \/ \E k \in Jobs : WriteResult(k)
    BY DEF ResultsNext, Solve, Evaluate, NextPoint, PointDone, MarkDone, Fail, Die,
           ReclaimEnded
  <2>2. PICK k \in Jobs : WriteResult(k)
    BY <2>1
  <2>3. k = j
    BY <1>1, <2>2 DEF WriteResult, ResultsInv, ResultsTypeOK
  <2> DEFINE n == points[j]
             name == Outputs[output]
             flat == raw.outputs[name]
             v == ResolvePointValue(SliceForPoint(flat, index, n))
             new == [output |-> name, point |-> index, run |-> attempt[j],
                     value |-> v, complex |-> name \in raw.complex]
  <2>4. /\ status[j] = "outputs" /\ output \in DOMAIN Outputs /\ Divides(n, Len(flat))
        /\ Resolves(SliceForPoint(flat, index, n))
        /\ results' = [results EXCEPT ![j] = Append(@, new)]
    BY <1>1, <2>2, <2>3, ResultsAssumption DEF WriteResult, ResultsInv, ResultsTypeOK
  <2>5. results'[j] = Append(results[j], new) /\ results[j] \in Seq(ResultRow)
    BY <1>1, <2>4 DEF ResultsInv, ResultsTypeOK
  <2>6. /\ v.output = name /\ v.point = index
        /\ Len(flat) > n => selects[j] /\ IsSelectedMode(v.mode, n)
    BY <1>1, <2>4, WrittenValue
  <2>7. new.output = name /\ new.point = index /\ new.value = v
    OBVIOUS
  <2> HIDE DEF new
  <2>8. results'[j][Len(results'[j])] = new
    BY <2>5
  <2> HIDE DEF v
  <2> QED BY <2>4, <2>6, <2>7, <2>8
<1> QED BY <1>1, ResultsInvariant, PTL DEF ResultsSpec, RowsFitTheirPoints

=============================================================================
