--------------------------- MODULE MphSessionProofs ---------------------------
(***************************************************************************)
(* Proofs about MphSession: it implements ModelSession, so that what is    *)
(* proved there holds with the real backend too; a job reads its own       *)
(* solve; and every value solved with is one its manifest allows.          *)
(***************************************************************************)
EXTENDS MphSession, ModelSessionProofs

\* What validation lets through, for one name.
LEMMA ValidParam ==
    ASSUME NEW m \in Models, NEW d, ValidParams(ManifestOf[m], d), NEW p \in DOMAIN d
    PROVE  /\ p \in DOMAIN ManifestOf[m].parameters
           /\ p \in Params
           /\ IsList(d[p]) => /\ p = SweepOf[m] /\ d[p] \in Lists
                              /\ ValidList(ManifestOf[m].parameters[p], d[p])
           /\ ~IsList(d[p]) => ValidValue(ManifestOf[m].parameters[p], d[p])
BY MphManifestAssumption DEF ValidParams, IsList

\* What is known of an accepted job.
LEMMA AcceptedJob ==
    ASSUME NEW j \in Accepted
    PROVE  /\ j \in Submittable /\ j \in Job
           /\ \A p \in DOMAIN j.params :
                /\ p \in DOMAIN ManifestOf[j.model].parameters
                /\ j.params[p] \in Texts
                /\ ValidValue(ManifestOf[j.model].parameters[p], j.params[p])
           /\ j.sweep # Nil =>
                /\ j.sweep \in Lists
                /\ SweepOf[j.model] \in DOMAIN ManifestOf[j.model].parameters
                /\ ValidList(ManifestOf[j.model].parameters[SweepOf[j.model]], j.sweep)
<1>1. PICK r \in Requests : ValidParams(ManifestOf[r.model], r.params) /\ j = JobOf(r)
  BY DEF Accepted
<1> DEFINE m == r.model
           s == SweepOf[m]
           swept == s \in DOMAIN r.params /\ IsList(r.params[s])
           D == DOMAIN r.params \ (IF swept THEN {s} ELSE {})
<1>2. /\ m \in Models
      /\ \A p \in DOMAIN r.params : r.params[p] \in Texts \cup Lists
  BY DEF Requests
<1>3. /\ j.model = m
      /\ j.params = [p \in D |-> r.params[p]]
      /\ j.sweep = IF swept THEN r.params[s] ELSE Nil
      /\ j = [model |-> j.model, params |-> j.params, sweep |-> j.sweep]
  BY <1>1 DEF JobOf, Scalars
<1>4. ASSUME NEW p \in D
      PROVE  /\ p \in Params /\ p \in DOMAIN ManifestOf[m].parameters
             /\ r.params[p] \in Texts
             /\ ValidValue(ManifestOf[m].parameters[p], r.params[p])
  <2>1. p \in DOMAIN r.params /\ ~IsList(r.params[p])
    BY <1>1, <1>2, ValidParam
  <2>2. r.params[p] \in Texts
    BY <1>2, <2>1 DEF IsList
  <2> QED BY <1>1, <1>2, <2>1, <2>2, ValidParam
<1>5. D \subseteq Params
  BY <1>4
<1>6. j.params \in [D -> Values]
  BY <1>3, <1>4, MphManifestAssumption
<1>7. j.params \in ParamDicts
  BY <1>5, <1>6 DEF ParamDicts
<1>8. swept => /\ r.params[s] \in Lists /\ s \in Params /\ s # Nil /\ s \notin D
               /\ s \in DOMAIN ManifestOf[m].parameters
               /\ ValidList(ManifestOf[m].parameters[s], r.params[s])
  BY <1>1, <1>2, ValidParam, MphManifestAssumption
<1>9. j.sweep \in Sweeps \cup {Nil}
  BY <1>3, <1>8, MphManifestAssumption
<1> HIDE DEF swept, s, D
<1>10. j \in Job
  BY <1>2, <1>3, <1>7, <1>9 DEF Job
<1>11. j \in Submittable
  <2>1. j.sweep # Nil => SweepOf[j.model] # Nil /\ SweepOf[j.model] \notin DOMAIN j.params
    BY <1>3, <1>6, <1>8 DEF s
  <2> QED BY <1>10, <2>1 DEF Submittable
<1>12. \A p \in DOMAIN j.params :
          /\ p \in DOMAIN ManifestOf[j.model].parameters
          /\ j.params[p] \in Texts
          /\ ValidValue(ManifestOf[j.model].parameters[p], j.params[p])
  BY <1>3, <1>4
<1> QED BY <1>3, <1>8, <1>10, <1>11, <1>12 DEF s

-----------------------------------------------------------------------------
(* MphSession implements ModelSession.                                      *)

LEMMA MphStepIsSessionStep == [MphNext]_mphVars => [SessionNext]_sessionVars
<1> SUFFICES ASSUME [MphNext]_mphVars PROVE [SessionNext]_sessionVars
  OBVIOUS
<1>1. CASE MphTakeJob
  BY <1>1, AcceptedJob DEF MphTakeJob, SessionNext
<1>2. CASE MphLoad \/ MphRelease \/ MphOther \/ MphDone \/ MphSolve
  BY <1>2 DEF MphLoad, MphRelease, MphOther, MphDone, MphSolve, SessionNext
<1>3. CASE ConfigureSweep \/ DisableSweep
  BY <1>3 DEF ConfigureSweep, DisableSweep, SessionNext
<1>4. CASE MphRaise \/ MphRaiseHalfSet \/ MphRestart
  BY <1>4 DEF MphRaise, MphRaiseHalfSet, MphRestart, SessionNext
<1>5. CASE Evaluate \/ UNCHANGED mphVars
  BY <1>5 DEF Evaluate, mphVars
<1> QED BY <1>1, <1>2, <1>3, <1>4, <1>5 DEF MphNext

\* Every behaviour with the real backend, fed by validated submissions, is one of
\* ModelSession: half-done calls of the backend add nothing that it lacks.
THEOREM MphImplementsSession == MphSpec => SessionSpec
<1>1. MphInit => SessionInit
  BY DEF MphInit
<1> QED BY <1>1, MphStepIsSessionStep, PTL DEF MphSpec, SessionSpec

\* ... and so it is well typed and solves each job as asked.
LEMMA MphSessionInvariant == MphSpec => [](SessionTypeOK /\ SessionInv)
BY MphImplementsSession, SessionInvariant, PTL

\* What ModelSession promises holds for the worker with its real backend, too: the
\* worker's bookkeeping keeps its types,
THEOREM MphSessionTypeCorrect == MphSpec => []SessionTypeOK
BY MphImplementsSession, SessionTypeCorrect, PTL

\* a mesh that is not rebuilt is up to date unless a job has failed before,
THEOREM MphMeshSkipIsSafe == MphSpec => []SkipsSafelyWithoutFailures
BY MphImplementsSession, MeshSkipIsSafe, PTL

\* and model, manifest, parameters and sweep of each solve are the job's own.
THEOREM MphSolvesAsAsked == MphSpec => []SolvesWhatWasAsked
BY MphImplementsSession, JobsAreSolvedAsAsked, PTL

-----------------------------------------------------------------------------
(* Results are read from the job's own solve.                               *)

MphInv == MphTypeOK /\ JobIsAccepted /\ EvaluatedInv /\ SweepStateInv /\ DatasetInv

LEMMA MphInvInit == MphInit => MphInv
BY DEF MphInit, SessionInit, MphInv, MphTypeOK, JobIsAccepted, EvaluatedInv, SweepStateInv,
       DatasetInv

\* A new value of the datasets is one when its parts are.
LEMMA DatasetsOf ==
    ASSUME NEW a \in {Own, Last, Old}, NEW b \in Sweeps \cup {Old, Nil}
    PROVE  [default |-> a, parametric |-> b] \in Datasets
BY DEF Datasets

LEMMA DatasetParts ==
    ASSUME NEW d \in Datasets
    PROVE  /\ d.default \in {Own, Last, Old} /\ d.parametric \in Sweeps \cup {Old, Nil}
           /\ [d EXCEPT !.default = Own] \in Datasets
           /\ [d EXCEPT !.default = Own].default = Own
           /\ [d EXCEPT !.default = Own].parametric = d.parametric
BY DEF Datasets

\* Switching a node off leaves its values.
LEMMA NodeOff ==
    ASSUME NEW n \in Node
    PROVE  /\ [n EXCEPT !.on = FALSE] \in Node
           /\ [n EXCEPT !.on = FALSE].on = FALSE
           /\ n.values \in Sweeps \cup {Nil} /\ n.on \in BOOLEAN
BY DEF Node

LEMMA NodeOf ==
    ASSUME NEW v \in Sweeps \cup {Nil}, NEW b \in BOOLEAN
    PROVE  [values |-> v, on |-> b] \in Node
BY DEF Node

\* The jobs and handles of the session, where there are any.
LEMMA MphJob ==
    ASSUME SessionTypeOK, SessionInv, pc # "idle"
    PROVE  job \in Job /\ job.model \in Models /\ job.sweep \in Sweeps \cup {Nil}
BY DEF SessionTypeOK, SessionInv, Job

\* What HalfConfigured may leave is a node.
LEMMA HalfConfiguredNode ==
    ASSUME SessionTypeOK, SessionInv, MphTypeOK, pc # "idle", HalfConfigured
    PROVE  node' \in Node
<1>1. job.sweep \in Sweeps \cup {Nil}
  BY MphJob
<1>2. SweepNode \in Node
  BY NodeOf DEF SweepNode, MphTypeOK
<1>3. [SweepNode EXCEPT !.values = job.sweep] \in Node
  BY <1>1, <1>2 DEF Node
<1>4. [values |-> job.sweep, on |-> TRUE] \in Node
  BY <1>1, NodeOf
<1> QED BY <1>2, <1>3, <1>4 DEF HalfConfigured

\* The datasets after a solve.
LEMMA SolvedDatasets ==
    ASSUME MphTypeOK, NEW d \in Datasets, NEW e \in Solved(d), SweepIsOn => node.values # Nil
    PROVE  /\ e \in Datasets
           /\ ~SweepIsOn => e.default = Own
           /\ SweepIsOn /\ job.model \notin SweptFiles => e.parametric = node.values
<1>1. CASE ~SweepIsOn
  BY <1>1, DatasetParts DEF Solved
<1>2. CASE SweepIsOn
  <2>1. PICK v \in {node.values} \cup (IF job.model \in SweptFiles THEN {d.parametric} ELSE {}) :
            e = [default |-> Last, parametric |-> v]
    BY <1>2 DEF Solved
  <2>2. node.values \in Sweeps \cup {Nil} /\ d.parametric \in Sweeps \cup {Old, Nil}
    BY <1>2, NodeOff, DatasetParts DEF SweepIsOn, MphTypeOK
  <2>3. e \in Datasets
    BY <2>1, <2>2, DatasetsOf
  <2> QED BY <1>2, <2>1, <2>3
<1> QED BY <1>1, <1>2

LEMMA MphTypeStep ==
    SessionTypeOK /\ SessionInv /\ MphInv /\ [MphNext]_mphVars => MphTypeOK'
<1> SUFFICES ASSUME SessionTypeOK, SessionInv, MphInv, [MphNext]_mphVars
             PROVE  MphTypeOK'
  OBVIOUS
<1>1. MphTypeOK
  BY DEF MphInv
<1>2. Nil \notin Handle /\ Nil \notin Datasets /\ Nil \notin Node
  BY NilIsNoRecord, NilIsNoNode
<1>3. handle # Nil => handle \in Handle
  BY DEF SessionTypeOK
<1>4. handle # Nil => datasets \in Datasets
  BY <1>1 DEF MphTypeOK
<1>0. SessionTypeOK' /\ SessionInv'
  BY MphStepIsSessionStep, SessionTypeStep, SessionInvStep
<1>5. CASE MphTakeJob
  <2>1. datasets # Nil => Aged(datasets) \in Datasets
    BY DatasetsOf DEF Aged
  <2> QED BY <1>1, <1>2, <1>5, <2>1 DEF MphTakeJob, TakeJob, Aged, MphTypeOK
<1>6. CASE MphLoad
  <2>1. handle' \in Handle
    BY <1>6, MphJob, FreshHandle DEF MphLoad, Load
  <2>2. datasets' \in Datasets
    BY <1>6, DatasetsOf DEF MphLoad
  <2> QED BY <1>1, <1>2, <1>6, <2>1, <2>2 DEF MphLoad, MphTypeOK
<1>7. CASE MphRelease
  BY <1>1, <1>7 DEF MphRelease, Release, Forget, MphTypeOK
<1>8. CASE MphRestart
  BY <1>8 DEF MphRestart, Restart, Forget, MphTypeOK
<1>9. CASE ConfigureSweep
  <2>1. node' \in Node
    BY <1>9, MphJob, NodeOf DEF ConfigureSweep, SetSweep
  <2>2. handle # Nil /\ handle' # Nil
    BY <1>0, <1>9 DEF ConfigureSweep, SetSweep, SessionInv
  <2> QED BY <1>1, <1>9, <2>1, <2>2 DEF ConfigureSweep, MphTypeOK
<1>10. CASE DisableSweep
  <2>1. node' \in Node \cup {Nil}
    BY <1>1, <1>10, NodeOff DEF DisableSweep, MphTypeOK
  <2>2. handle # Nil /\ handle' # Nil
    BY <1>0, <1>10 DEF DisableSweep, SetSweep, SessionInv
  <2> QED BY <1>1, <1>10, <2>1, <2>2 DEF DisableSweep, MphTypeOK
<1>11. CASE MphSolve
  <2>1. handle # Nil /\ handle' = handle /\ pc = "solve"
    BY <1>11 DEF MphSolve, Solve, SessionInv
  <2>2. SweepIsOn => node.values # Nil
    BY <2>1 DEF MphInv, SweepStateInv
  <2>3. datasets' \in Datasets
    BY <1>1, <1>4, <1>11, <2>1, <2>2, SolvedDatasets DEF MphSolve
  <2> QED BY <1>1, <1>2, <1>11, <2>1, <2>3 DEF MphSolve, MphTypeOK
<1>12. CASE Evaluate
  <2>1. handle # Nil
    BY <1>12 DEF Evaluate, SessionInv
  <2>2. evaluated' \in Sweeps \cup {Own, Last, Old, Nil}
    BY <1>4, <1>12, <2>1, DatasetParts DEF Evaluate
  <2> QED BY <1>1, <1>12, <2>2 DEF Evaluate, sessionVars, MphTypeOK
<1>13. CASE MphDone
  BY <1>1, <1>13 DEF MphDone, Done, MphTypeOK
<1>14. CASE MphRaise
  <2>1. handle' = handle /\ evaluated' = Nil /\ sweep_active' = sweep_active
    BY <1>14 DEF MphRaise, Raise
  <2>2. CASE UNCHANGED <<node, datasets>>
    BY <1>1, <2>1, <2>2 DEF MphTypeOK
  <2>3. CASE handle # Nil /\ HalfConfigured
    <3>1. node' \in Node /\ datasets' = datasets
      BY <1>1, <1>14, <2>3, HalfConfiguredNode DEF HalfConfigured, MphRaise, Raise
    <3> QED BY <1>1, <2>1, <2>3, <3>1 DEF MphTypeOK
  <2>4. CASE handle # Nil /\ HalfDisabled
    <3>1. node' \in Node /\ datasets' = datasets
      BY <1>1, <2>4, NodeOff DEF HalfDisabled, MphTypeOK
    <3> QED BY <1>1, <2>1, <2>4, <3>1 DEF MphTypeOK
  <2>5. CASE pc = "solve" /\ HalfSolved
    <3>1. handle # Nil
      BY <2>5 DEF SessionInv
    <3>2. datasets' \in Datasets
      BY <1>4, <2>5, <3>1, DatasetsOf, DatasetParts DEF HalfSolved
    <3> QED BY <1>1, <1>2, <2>1, <2>5, <3>1, <3>2 DEF HalfSolved, MphTypeOK
  <2> QED BY <1>14, <2>2, <2>3, <2>4, <2>5 DEF MphRaise
<1>15. CASE MphRaiseHalfSet
  <2>1. pc = "set" /\ job \in Job /\ job.params \in ParamDicts /\ handle # Nil
    BY <1>15, MphJob DEF MphRaiseHalfSet, RaiseHalfSet, SessionInv, Job
  <2>2. PICK P \in SUBSET DOMAIN job.params :
            handle' = Updated(handle, [p \in P |-> job.params[p]])
    BY <1>15 DEF MphRaiseHalfSet, RaiseHalfSet
  <2>3. handle' \in Handle
    BY <1>3, <2>1, <2>2, RestrictedDict, UpdatedHandle
  <2> QED BY <1>1, <1>2, <1>15, <2>1, <2>3 DEF MphRaiseHalfSet, MphTypeOK
<1>16. CASE MphOther
  <2>1. (handle' = Nil) = (handle = Nil)
    <3>1. CASE KeepModel \/ ReadManifest
      BY <3>1 DEF KeepModel, ReadManifest
    <3>2. CASE SetParameters \/ BuildGeometry \/ Mesh
      BY <1>0, <3>2 DEF SetParameters, BuildGeometry, Mesh, SessionInv
    <3> QED BY <1>16, <3>1, <3>2 DEF MphOther
  <2> QED BY <1>1, <1>16, <2>1 DEF MphOther, MphTypeOK
<1>17. CASE UNCHANGED mphVars
  BY <1>1, <1>17 DEF mphVars, sessionVars, MphTypeOK
<1> QED
  BY <1>5, <1>6, <1>7, <1>8, <1>9, <1>10, <1>11, <1>12, <1>13, <1>14, <1>15, <1>16, <1>17
     DEF MphNext

\* The other conjuncts of MphInv. What the session does in a step is all they need.
LEMMA MphInvStep ==
    SessionTypeOK /\ SessionInv /\ MphInv /\ [MphNext]_mphVars => MphInv'
<1> SUFFICES ASSUME SessionTypeOK, SessionInv, MphInv, [MphNext]_mphVars
             PROVE  MphInv'
  OBVIOUS
<1>1. MphTypeOK /\ MphTypeOK'
  BY MphTypeStep DEF MphInv
<1>2. /\ JobIsAccepted /\ EvaluatedInv
      /\ SweepStateInv /\ DatasetInv
  BY DEF MphInv
<1>3. handle # Nil => datasets \in Datasets
  BY <1>1 DEF MphTypeOK
<1> SUFFICES JobIsAccepted' /\ EvaluatedInv' /\ SweepStateInv' /\ DatasetInv'
  BY <1>1 DEF MphInv
<1>4. CASE MphTakeJob
  BY <1>2, <1>4 DEF MphTakeJob, TakeJob, JobIsAccepted, EvaluatedInv, SweepStateInv, DatasetInv
<1>5. CASE MphLoad
  BY <1>2, <1>5 DEF MphLoad, Load, JobIsAccepted, EvaluatedInv, SweepStateInv, DatasetInv
<1>6. CASE MphRelease
  BY <1>2, <1>6 DEF MphRelease, Release, JobIsAccepted, EvaluatedInv, SweepStateInv, DatasetInv
<1>7. CASE MphRestart \/ MphDone
  BY <1>7 DEF MphRestart, Restart, MphDone, Done, JobIsAccepted, EvaluatedInv, SweepStateInv,
              DatasetInv
<1>8. CASE ConfigureSweep
  <2>1. SweepIsOn' /\ node'.values = job.sweep
    <3>1. /\ node' = [values |-> job.sweep, on |-> TRUE]
          /\ node' \in Node
      BY <1>8, MphJob, NodeOf DEF ConfigureSweep, SetSweep
    <3> QED BY <3>1, NilIsNoNode DEF SweepIsOn
  <2> QED BY <1>2, <1>8, <2>1 DEF ConfigureSweep, SetSweep, JobIsAccepted, EvaluatedInv,
                                  SweepStateInv, DatasetInv
<1>9. CASE DisableSweep
  <2>1. SweepIsOn' = FALSE
    BY <1>1, <1>9, NodeOff DEF DisableSweep, SweepIsOn, MphTypeOK
  <2> QED BY <1>2, <1>9, <2>1 DEF DisableSweep, SetSweep, JobIsAccepted, EvaluatedInv,
                                  SweepStateInv, DatasetInv
<1>10. CASE MphSolve
  <2>1. pc = "solve" /\ handle # Nil
    BY <1>10 DEF MphSolve, Solve, SessionInv
  <2>2. SweepIsOn => node.values # Nil
    BY <1>2, <2>1 DEF SweepStateInv
  <2>3. /\ ~SweepIsOn => datasets'.default = Own
        /\ SweepIsOn /\ job.model \notin SweptFiles => datasets'.parametric = node.values
    BY <1>1, <1>3, <1>10, <2>1, <2>2, SolvedDatasets DEF MphSolve
  <2>4. SweepIsOn' = SweepIsOn
    BY <1>10 DEF MphSolve, SweepIsOn
  <2> QED BY <1>2, <1>10, <2>1, <2>3, <2>4 DEF MphSolve, Solve, JobIsAccepted, EvaluatedInv,
                                               SweepStateInv, DatasetInv
<1>11. CASE Evaluate
  BY <1>2, <1>11 DEF Evaluate, sessionVars, JobIsAccepted, EvaluatedInv, SweepStateInv,
                     SweepIsOn, DatasetInv
<1>12. CASE MphRaise \/ MphRaiseHalfSet
  BY <1>12 DEF MphRaise, Raise, MphRaiseHalfSet, RaiseHalfSet, Fails, JobIsAccepted,
               EvaluatedInv, SweepStateInv, DatasetInv
<1>13. CASE MphOther
  <2>1. /\ job' = job /\ pc # "results" /\ pc' # "results"
        /\ pc' \in {"set", "build", "mesh", "solve", "results"} =>
             pc \in {"set", "build", "mesh", "solve", "results"}
        /\ pc # "idle"
    BY <1>13 DEF MphOther, KeepModel, ReadManifest, SetParameters, BuildGeometry, Mesh
  <2> QED BY <1>2, <1>13, <2>1 DEF MphOther, JobIsAccepted, EvaluatedInv, SweepStateInv,
                                   SweepIsOn, DatasetInv
<1>14. CASE UNCHANGED mphVars
  BY <1>2, <1>14 DEF mphVars, sessionVars, JobIsAccepted, EvaluatedInv, SweepStateInv,
                     SweepIsOn, DatasetInv
<1> QED
  BY <1>4, <1>5, <1>6, <1>7, <1>8, <1>9, <1>10, <1>11, <1>12, <1>13, <1>14 DEF MphNext

LEMMA MphInvariant == MphSpec => [](SessionTypeOK /\ SessionInv /\ MphInv)
<1>1. MphInit => MphInv
  BY MphInvInit
<1>2. SessionTypeOK /\ SessionInv /\ MphInv /\ [MphNext]_mphVars => MphInv'
  BY MphInvStep
<1> QED BY <1>1, <1>2, MphSessionInvariant, PTL DEF MphSpec

\* The node, the flag and the datasets behind the session are well typed, and gone
\* when the model is.
THEOREM MphTypeCorrect == MphSpec => []MphTypeOK
<1>1. MphInv => MphTypeOK
  BY DEF MphInv
<1> QED BY <1>1, MphInvariant, PTL

\* For any models, sweeps and failures, a job's outputs are read from the dataset
\* that its own solve has written, with all points of its sweep.
THEOREM JobsReadTheirOwnSolve == MphSpec => []EvaluatesOwnSolve
<1>1. SessionTypeOK /\ SessionInv /\ MphInv => EvaluatesOwnSolve
  BY DEF MphInv, EvaluatedInv, DatasetInv, SweepStateInv, EvaluatesOwnSolve
<1> QED BY <1>1, MphInvariant, PTL

-----------------------------------------------------------------------------
(* Every value solved with is within its manifest.                          *)

\* A value that validation lets through means what the manifest allows: the unit
\* is the manifest's, or there is none on either side.
LEMMA ValidIsWithin ==
    ASSUME NEW m \in Models, NEW p \in DOMAIN ManifestOf[m].parameters, NEW t \in Texts,
           ValidValue(ManifestOf[m].parameters[p], t)
    PROVE  WithinSpec(ManifestOf[m].parameters[p], t, DefaultUnit[p])
<1> DEFINE spec == ManifestOf[m].parameters[p]
           k == Scale[spec.unit]
<1>1. spec \in ParameterSpec /\ DefaultUnit[p] \in Units
  BY MphManifestAssumption
<1>2. spec.min \in Int /\ spec.max \in Int /\ spec.unit \in Units /\ k \in Nat
  BY <1>1, TextAssumption DEF ParameterSpec
<1>3. Quantity(t, DefaultUnit[p]) = Magnitude[t] * k
  BY <1>1, MphDimensionAssumption DEF ValidValue, Quantity
<1>4. Magnitude[t] \in Int /\ spec.min <= Magnitude[t] /\ Magnitude[t] <= spec.max
  BY TextAssumption DEF ValidValue
<1>5. ASSUME NEW a \in Int, NEW b \in Int, a <= b, NEW c \in Nat
      PROVE  a * c <= b * c
  BY <1>5
<1> HIDE DEF k
<1>6. spec.min * k <= Magnitude[t] * k /\ Magnitude[t] * k <= spec.max * k
  BY <1>2, <1>4, <1>5
<1> QED BY <1>3, <1>6 DEF ValidValue, WithinSpec, k

\* Setting some of an accepted job's parameters keeps the model within its manifest.
LEMMA UpdateKeepsParams ==
    ASSUME SessionTypeOK, SessionInv, JobIsAccepted, ParamsInv, pc = "set",
           NEW P \in SUBSET DOMAIN job.params, NEW p \in Params,
           NEW h, h = Updated(handle, [q \in P |-> job.params[q]]),
           h.params[p] # FileValue
    PROVE  /\ h.model = handle.model
           /\ p \in DOMAIN ManifestOf[handle.model].parameters
           /\ h.params[p] \in Texts
           /\ ValidValue(ManifestOf[handle.model].parameters[p], h.params[p])
<1>1. handle \in Handle /\ handle # Nil /\ handle.model = job.model
  BY DEF SessionTypeOK, SessionInv
<1>2. job \in Accepted /\ job.params \in ParamDicts
  BY AcceptedJob DEF JobIsAccepted, Job
<1>3. [q \in P |-> job.params[q]] \in ParamDicts
  BY <1>2, RestrictedDict
<1>4. /\ h.model = handle.model
      /\ h.params[p] = IF p \in P THEN job.params[p] ELSE handle.params[p]
  BY <1>1, <1>3, UpdatedHandle
<1>5. CASE p \in P
  BY <1>1, <1>2, <1>4, <1>5, AcceptedJob
<1>6. CASE p \notin P
  BY <1>1, <1>4, <1>6 DEF ParamsInv
<1> QED BY <1>5, <1>6

LEMMA ParamsInvStep ==
    /\ SessionTypeOK /\ SessionInv /\ JobIsAccepted /\ ParamsInv
    /\ [SessionNext]_sessionVars
    => ParamsInv'
<1> SUFFICES ASSUME SessionTypeOK, SessionInv, JobIsAccepted, ParamsInv,
                    [SessionNext]_sessionVars
             PROVE  ParamsInv'
  OBVIOUS
<1>1. handle # Nil => handle \in Handle
  BY DEF SessionTypeOK
<1>2. ASSUME handle' = handle
      PROVE  ParamsInv'
  BY <1>2 DEF ParamsInv
<1>3. ASSUME handle' = Nil
      PROVE  ParamsInv'
  BY <1>3 DEF ParamsInv
<1>4. ASSUME handle # Nil, handle'.params = handle.params, handle'.model = handle.model
      PROVE  ParamsInv'
  BY <1>4 DEF ParamsInv
<1>5. CASE Load
  <2>1. \A p \in Params : handle'.params[p] = FileValue
    BY <1>5 DEF Load, Fresh
  <2> QED BY <2>1 DEF ParamsInv
<1>6. CASE SetSweep
  BY <1>1, <1>4, <1>6 DEF SetSweep, Handle
<1>7. CASE BuildGeometry \/ Mesh
  BY <1>1, <1>4, <1>7 DEF BuildGeometry, Mesh, SessionInv, Handle
<1>8. CASE SetParameters
  <2>1. pc = "set" /\ job \in Job /\ job.params \in ParamDicts /\ handle # Nil
    BY <1>8, MphJob DEF SetParameters, SessionInv, Job
  <2>2. job.params = [q \in DOMAIN job.params |-> job.params[q]]
    BY <2>1 DEF ParamDicts
  <2>3. handle' = Updated(handle, [q \in DOMAIN job.params |-> job.params[q]])
    BY <1>8, <2>2 DEF SetParameters
  <2>4. handle'.model = handle.model
    BY <1>1, <2>1, <2>2, <2>3, UpdatedHandle
  <2> QED BY <2>1, <2>3, <2>4, UpdateKeepsParams DEF ParamsInv
<1>9. CASE RaiseHalfSet
  <2>1. pc = "set" /\ job \in Job /\ job.params \in ParamDicts /\ handle # Nil
    BY <1>9, MphJob DEF RaiseHalfSet, SessionInv, Job
  <2>2. PICK P \in SUBSET DOMAIN job.params :
            handle' = Updated(handle, [q \in P |-> job.params[q]])
    BY <1>9 DEF RaiseHalfSet
  <2>3. handle'.model = handle.model
    BY <1>1, <2>1, <2>2, RestrictedDict, UpdatedHandle
  <2> QED BY <2>1, <2>2, <2>3, UpdateKeepsParams DEF ParamsInv
<1>10. CASE Release \/ Restart
  BY <1>3, <1>10 DEF Release, Restart
<1>11. CASE \/ \E j \in Submittable : TakeJob(j)
            \/ KeepModel \/ ReadManifest \/ Solve \/ Done \/ Raise
            \/ UNCHANGED sessionVars
  BY <1>2, <1>11 DEF TakeJob, KeepModel, ReadManifest, Solve, Done, Raise, sessionVars
<1> QED
  BY <1>5, <1>6, <1>7, <1>8, <1>9, <1>10, <1>11 DEF SessionNext

\* Whatever is submitted, a model is solved only with values that mean what its
\* manifest allows, or with its file's own.
THEOREM ValuesAreWithinManifest == MphSpec => []SolvesWithinManifest
<1>1. MphInit => ParamsInv
  BY DEF MphInit, SessionInit, ParamsInv
<1>2. SessionTypeOK /\ SessionInv /\ MphInv /\ ParamsInv /\ [MphNext]_mphVars => ParamsInv'
  BY ParamsInvStep, MphStepIsSessionStep DEF MphInv
<1>3. SessionTypeOK /\ SessionInv /\ MphInv /\ ParamsInv => SolvesWithinManifest
  <2> SUFFICES ASSUME SessionTypeOK, SessionInv, MphInv, ParamsInv, pc = "solve"
               PROVE  SolvesWithinManifest
    BY DEF SolvesWithinManifest
  <2> DEFINE specs == ManifestOf[job.model].parameters
             s == SweepOf[job.model]
  <2>1. job \in Accepted /\ job.model \in Models /\ handle # Nil /\ handle.model = job.model
    BY MphJob DEF SessionInv, MphInv, JobIsAccepted
  <2>2. ASSUME NEW p \in Params, handle.params[p] # FileValue
        PROVE  /\ handle.params[p] \in Texts /\ p \in DOMAIN specs
               /\ WithinSpec(specs[p], handle.params[p], DefaultUnit[p])
    BY <2>1, <2>2, ValidIsWithin DEF ParamsInv
  <2>3. ASSUME SweepIsOn
        PROVE  /\ Elements[node.values] # <<>>
               /\ \A i \in 1 .. Len(Elements[node.values]) :
                     /\ Elements[node.values][i] \in Texts /\ s \in DOMAIN specs
                     /\ WithinSpec(specs[s], Elements[node.values][i], DefaultUnit[s])
    <3>1. job.sweep # Nil /\ node.values = job.sweep
      BY <2>3 DEF MphInv, SweepStateInv
    <3>2. job.sweep \in Lists /\ s \in DOMAIN specs /\ ValidList(specs[s], job.sweep)
      BY <2>1, <3>1, AcceptedJob
    <3>3. Elements[job.sweep] \in Seq(Texts)
      BY <3>2, TextAssumption
    <3>4. \A i \in 1 .. Len(Elements[job.sweep]) : Elements[job.sweep][i] \in Texts
      BY <3>3
    <3> QED BY <2>1, <3>1, <3>2, <3>4, ValidIsWithin DEF ValidList
  <2> QED BY <2>2, <2>3 DEF SolvesWithinManifest
<1> QED BY <1>1, <1>2, <1>3, MphInvariant, PTL DEF MphSpec

=============================================================================
