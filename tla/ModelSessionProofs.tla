-------------------------- MODULE ModelSessionProofs --------------------------
(***************************************************************************)
(* Proofs about ModelSession: its types, that a job is solved with what it *)
(* asked for, and that the mesh-skip shortcut is right between failures.   *)
(***************************************************************************)
EXTENDS ModelSession, TLAPS

\* A dictionary of parameters gives values to some of the parameters.
LEMMA DictIsPartial ==
    ASSUME NEW d \in ParamDicts
    PROVE  DOMAIN d \subseteq Params /\ \A p \in DOMAIN d : d[p] \in Values
BY DEF ParamDicts

LEMMA RestrictedDict ==
    ASSUME NEW d \in ParamDicts, NEW P \in SUBSET DOMAIN d
    PROVE  [p \in P |-> d[p]] \in ParamDicts
<1>1. P \subseteq Params /\ \A p \in P : d[p] \in Values
  BY DictIsPartial
<1>2. [p \in P |-> d[p]] \in [P -> Values]
  BY <1>1
<1> QED BY <1>1, <1>2 DEF ParamDicts

LEMMA NoParamsIsDict == NoParams \in ParamDicts
<1>1. NoParams \in [{} -> Values]
  BY DEF NoParams
<1> QED BY <1>1 DEF ParamDicts

LEMMA ShapeOfHandle ==
    ASSUME NEW h, h.model \in Models, h.params \in Setting
    PROVE  ShapeOf(h) \in Shape
<1> DEFINE P == GeometryOf[h.model]
<1>1. P \subseteq Params
  BY SessionAssumption
<1>2. ShapeOf(h) \in [P -> Values \cup {FileValue}]
  BY <1>1 DEF ShapeOf, Setting
<1> QED BY <1>1, <1>2 DEF Shape

\* What set_parameters does to a handle.
LEMMA UpdatedHandle ==
    ASSUME NEW h \in Handle, NEW d \in ParamDicts
    PROVE  /\ Updated(h, d) \in Handle
           /\ Updated(h, d).model = h.model
           /\ Updated(h, d).sweep = h.sweep
           /\ Updated(h, d).built = h.built
           /\ Updated(h, d).mesh = h.mesh
           /\ \A p \in Params :
                 Updated(h, d).params[p] = IF p \in DOMAIN d THEN d[p] ELSE h.params[p]
<1> DEFINE S == [p \in Params |-> IF p \in DOMAIN d THEN d[p] ELSE h.params[p]]
<1>1. Updated(h, d) = [h EXCEPT !.params = S]
  BY DEF Updated, Handle
<1>2. S \in Setting
  BY DictIsPartial DEF Setting, Handle
<1> HIDE DEF S
<1>3. /\ [h EXCEPT !.params = S] \in Handle
      /\ [h EXCEPT !.params = S].model = h.model
      /\ [h EXCEPT !.params = S].sweep = h.sweep
      /\ [h EXCEPT !.params = S].built = h.built
      /\ [h EXCEPT !.params = S].mesh = h.mesh
      /\ [h EXCEPT !.params = S].params = S
  BY <1>2 DEF Handle
<1> QED BY <1>1, <1>3 DEF S

\* A freshly loaded model has the geometry and the mesh of its parameters.
LEMMA FreshHandle ==
    ASSUME NEW m \in Models
    PROVE  /\ Fresh(m) \in Handle
           /\ Fresh(m).model = m
           /\ Fresh(m).mesh = ShapeOf(Fresh(m))
<1> DEFINE V == [p \in Params |-> FileValue]
           s == [p \in GeometryOf[m] |-> FileValue]
<1>1. V \in Setting
  BY DEF Setting
<1>2. Fresh(m) = [model |-> m, params |-> V, built |-> s, mesh |-> s, sweep |-> Nil]
  BY DEF Fresh
<1>3. ShapeOf(Fresh(m)) = s
  BY <1>2, SessionAssumption DEF ShapeOf
<1>4. s \in Shape
  BY <1>1, <1>2, <1>3, ShapeOfHandle
<1> QED BY <1>1, <1>2, <1>3, <1>4 DEF Handle

-----------------------------------------------------------------------------

LEMMA SessionTypeInit == SessionInit => SessionTypeOK
BY NoParamsIsDict DEF SessionInit, SessionTypeOK, SessionPcs

\* Types need the part of SessionInv that says who has a job and a handle.
LEMMA SessionTypeStep ==
    SessionTypeOK /\ SessionInv /\ [SessionNext]_sessionVars => SessionTypeOK'
<1> SUFFICES ASSUME SessionTypeOK, SessionInv, [SessionNext]_sessionVars
             PROVE  SessionTypeOK'
  OBVIOUS
<1>1. handle # Nil => handle \in Handle
  BY DEF SessionTypeOK
<1>2. pc # "idle" => job \in Job /\ job.model \in Models /\ job.params \in ParamDicts
  BY DEF SessionTypeOK, SessionInv, Job
<1>3. pc \in {"sweep", "set", "build", "mesh"} /\ handle # Nil => handle \in Handle
  BY <1>1
<1>4. ASSUME NEW j \in Submittable, TakeJob(j)
      PROVE  SessionTypeOK'
  BY <1>4 DEF TakeJob, Submittable, SessionTypeOK, SessionPcs
<1>5. CASE KeepModel
  BY <1>5 DEF KeepModel, SessionTypeOK, SessionPcs
<1>6. CASE Release
  BY <1>6 DEF Release, SessionTypeOK, SessionPcs
<1>7. CASE ReadManifest
  BY <1>2, <1>7 DEF ReadManifest, SessionTypeOK, SessionPcs
<1>8. CASE Load
  BY <1>2, <1>8, FreshHandle, NoParamsIsDict DEF Load, SessionTypeOK, SessionPcs
<1>9. CASE SetSweep
  <2>1. job.sweep \in Sweeps \cup {Nil}
    BY <1>2, <1>9 DEF SetSweep, Job
  <2>2. handle' \in Handle
    BY <1>1, <1>9, <2>1 DEF SetSweep, Handle
  <2> QED BY <1>9, <2>2 DEF SetSweep, SessionTypeOK, SessionPcs
<1>10. CASE SetParameters
  <2>1. handle' \in Handle
    BY <1>1, <1>2, <1>10, UpdatedHandle DEF SetParameters, SessionInv
  <2> QED BY <1>10, <2>1 DEF SetParameters, SessionTypeOK, SessionPcs
<1>11. CASE BuildGeometry
  <2>1. handle \in Handle
    BY <1>1, <1>11 DEF BuildGeometry, SessionInv
  <2>2. ShapeOf(handle) \in Shape
    BY <2>1, ShapeOfHandle DEF Handle
  <2>3. handle' \in Handle
    BY <1>11, <2>1, <2>2 DEF BuildGeometry, Handle
  <2> QED BY <1>11, <2>3 DEF BuildGeometry, SessionTypeOK, SessionPcs
<1>12. CASE Mesh
  <2>1. handle' \in Handle
    BY <1>1, <1>12 DEF Mesh, SessionInv, Handle
  <2> QED BY <1>12, <2>1 DEF Mesh, SessionTypeOK, SessionPcs
<1>13. CASE Solve
  BY <1>2, <1>13 DEF Solve, SessionTypeOK, SessionPcs
<1>14. CASE Done
  BY <1>14 DEF Done, SessionTypeOK, SessionPcs
<1>15. CASE Raise
  BY <1>15 DEF Raise, Fails, SessionTypeOK, SessionPcs
<1>16. CASE RaiseHalfSet
  <2>1. PICK P \in SUBSET DOMAIN job.params :
            handle' = Updated(handle, [p \in P |-> job.params[p]])
    BY <1>16 DEF RaiseHalfSet
  <2>2. [p \in P |-> job.params[p]] \in ParamDicts
    BY <1>2, <1>16, RestrictedDict DEF RaiseHalfSet
  <2>3. handle' \in Handle
    BY <1>1, <1>16, <2>1, <2>2, UpdatedHandle DEF RaiseHalfSet, SessionInv
  <2> QED BY <1>16, <2>3 DEF RaiseHalfSet, Fails, SessionTypeOK, SessionPcs
<1>17. CASE Restart
  BY <1>17, NoParamsIsDict DEF Restart, SessionTypeOK, SessionPcs
<1>18. CASE UNCHANGED sessionVars
  BY <1>18 DEF sessionVars, SessionTypeOK
<1> QED
  BY <1>4, <1>5, <1>6, <1>7, <1>8, <1>9, <1>10, <1>11, <1>12, <1>13, <1>14, <1>15,
     <1>16, <1>17, <1>18 DEF SessionNext

LEMMA SessionInvInit == SessionInit => SessionInv
BY DEF SessionInit, SessionInv

LEMMA SessionInvStep ==
    SessionTypeOK /\ SessionInv /\ [SessionNext]_sessionVars => SessionInv'
<1> SUFFICES ASSUME SessionTypeOK, SessionInv, [SessionNext]_sessionVars
             PROVE  SessionInv'
  OBVIOUS
<1>1. handle # Nil => handle \in Handle
  BY DEF SessionTypeOK
<1>2. pc # "idle" => job \in Job /\ job.model \in Models /\ job.params \in ParamDicts
  BY DEF SessionTypeOK, SessionInv, Job
<1>3. Nil \notin Handle /\ Nil \notin Job
  BY NilIsNoRecord
<1>4. ASSUME NEW j \in Submittable, TakeJob(j)
      PROVE  SessionInv'
  BY <1>3, <1>4 DEF TakeJob, Submittable, SessionInv
<1>5. CASE KeepModel
  BY <1>5 DEF KeepModel, SessionInv
<1>6. CASE Release
  BY <1>6 DEF Release, SessionInv
<1>7. CASE ReadManifest
  BY <1>7 DEF ReadManifest, SessionInv
<1>8. CASE Load
  BY <1>2, <1>3, <1>8, FreshHandle DEF Load, SessionInv
<1>9. CASE SetSweep
  <2>1. handle' \in Handle /\ handle'.sweep = job.sweep /\ handle'.model = handle.model
    BY <1>1, <1>2, <1>9 DEF SetSweep, Handle, Job
  <2> QED BY <1>3, <1>9, <2>1 DEF SetSweep, SessionInv
<1>10. CASE SetParameters
  <2>1. handle \in Handle
    BY <1>1, <1>10 DEF SetParameters, SessionInv
  <2>2. /\ handle' \in Handle
        /\ handle'.model = handle.model /\ handle'.sweep = handle.sweep
        /\ \A p \in DOMAIN job.params : handle'.params[p] = job.params[p]
    BY <1>2, <1>10, <2>1, UpdatedHandle, DictIsPartial DEF SetParameters
  <2> QED BY <1>3, <1>10, <2>2 DEF SetParameters, SessionInv
<1>11. CASE BuildGeometry
  <2>1. handle \in Handle
    BY <1>1, <1>11 DEF BuildGeometry, SessionInv
  <2>2. ShapeOf(handle) \in Shape
    BY <2>1, ShapeOfHandle DEF Handle
  <2>3. /\ handle' \in Handle
        /\ handle'.model = handle.model /\ handle'.sweep = handle.sweep
        /\ handle'.params = handle.params
    BY <1>11, <2>1, <2>2 DEF BuildGeometry, Handle
  <2> QED BY <1>3, <1>11, <2>3 DEF BuildGeometry, SessionInv
<1>12. CASE Mesh
  <2>1. handle \in Handle
    BY <1>1, <1>12 DEF Mesh, SessionInv
  <2>2. /\ handle' \in Handle
        /\ handle'.model = handle.model /\ handle'.sweep = handle.sweep
        /\ handle'.params = handle.params
    BY <1>12, <2>1 DEF Mesh, Handle
  <2> QED BY <1>3, <1>12, <2>2 DEF Mesh, SessionInv
<1>13. CASE Solve
  BY <1>13 DEF Solve, SessionInv
<1>14. CASE Done
  BY <1>14 DEF Done, SessionInv
<1>15. CASE Raise
  BY <1>15 DEF Raise, Fails, SessionInv
<1>16. CASE RaiseHalfSet
  <2>1. PICK P \in SUBSET DOMAIN job.params :
            handle' = Updated(handle, [p \in P |-> job.params[p]])
    BY <1>16 DEF RaiseHalfSet
  <2>2. handle'.model = handle.model
    BY <1>1, <1>2, <1>16, <2>1, RestrictedDict, UpdatedHandle DEF RaiseHalfSet, SessionInv
  <2> QED BY <1>16, <2>2 DEF RaiseHalfSet, Fails, SessionInv
<1>17. CASE Restart
  BY <1>17 DEF Restart, SessionInv
<1>18. CASE UNCHANGED sessionVars
  BY <1>18 DEF sessionVars, SessionInv
<1> QED
  BY <1>4, <1>5, <1>6, <1>7, <1>8, <1>9, <1>10, <1>11, <1>12, <1>13, <1>14, <1>15,
     <1>16, <1>17, <1>18 DEF SessionNext

\* Every reachable state is well typed and satisfies SessionInv.
THEOREM SessionInvariant == SessionSpec => [](SessionTypeOK /\ SessionInv)
<1>1. SessionInit => SessionTypeOK /\ SessionInv
  BY SessionTypeInit, SessionInvInit
<1>2. SessionTypeOK /\ SessionInv /\ [SessionNext]_sessionVars => (SessionTypeOK /\ SessionInv)'
  BY SessionTypeStep, SessionInvStep
<1> QED BY <1>1, <1>2, PTL DEF SessionSpec

\* The worker's session is well typed, for any models, parameters and values.
THEOREM SessionTypeCorrect == SessionSpec => []SessionTypeOK
BY SessionInvariant, PTL

\* A job is solved in its own model and manifest, with its own parameters and
\* sweep, whatever earlier jobs were and wherever they failed.
THEOREM JobsAreSolvedAsAsked == SessionSpec => []SolvesWhatWasAsked
<1>1. SessionInv => SolvesWhatWasAsked
  BY DEF SessionInv, SolvesWhatWasAsked
<1> QED BY <1>1, SessionInvariant, PTL

-----------------------------------------------------------------------------
(* The mesh.                                                                *)

LEMMA MeshInvInit == SessionInit => MeshInv
BY DEF SessionInit, MeshInv

\* If the comparison of process_one says that no rebuild is needed, setting the
\* parameters leaves the geometry parameters of the handle as they are.
LEMMA NoRebuildKeepsShape ==
    ASSUME SessionTypeOK, SessionInv, MeshInv, pc = "set", ~tainted, ~NeedsRebuild,
           NEW p \in GeometryOf[handle.model] \cap DOMAIN job.params
    PROVE  handle.params[p] = job.params[p]
<1>1. handle # Nil /\ handle.model = manifest
  BY DEF SessionInv
<1>2. job.params \in ParamDicts
  BY DEF SessionTypeOK, SessionInv, Job
<1>3. job.params[p] \in Values /\ job.params[p] # Nil
  BY <1>2, DictIsPartial, SessionNilAssumption
<1>4. Get(job.params, p) = Get(lastParams, p)
  BY <1>1 DEF NeedsRebuild
<1>5. p \in DOMAIN lastParams /\ lastParams[p] = job.params[p]
  BY <1>3, <1>4 DEF Get
<1> QED BY <1>1, <1>5 DEF MeshInv

LEMMA MeshInvStep ==
    SessionTypeOK /\ SessionInv /\ MeshInv /\ [SessionNext]_sessionVars => MeshInv'
<1> SUFFICES ASSUME SessionTypeOK, SessionInv, MeshInv, [SessionNext]_sessionVars
             PROVE  MeshInv'
  OBVIOUS
<1>1. handle # Nil => handle \in Handle
  BY DEF SessionTypeOK
<1>2. pc # "idle" => job \in Job /\ job.model \in Models /\ job.params \in ParamDicts
  BY DEF SessionTypeOK, SessionInv, Job
<1>3. ASSUME NEW h \in Handle PROVE GeometryOf[h.model] \subseteq Params
  BY SessionAssumption DEF Handle
<1>4. ASSUME NEW j \in Submittable, TakeJob(j)
      PROVE  MeshInv'
  BY <1>4 DEF TakeJob, MeshInv, MeshIsCurrent, ShapeOf
<1>5. CASE KeepModel
  BY <1>5 DEF KeepModel, MeshInv, MeshIsCurrent, ShapeOf
<1>6. CASE Release
  BY <1>6 DEF Release, MeshInv, MeshIsCurrent, ShapeOf
<1>7. CASE ReadManifest
  BY <1>7 DEF ReadManifest, MeshInv, MeshIsCurrent, ShapeOf
<1>8. CASE Load
  BY <1>2, <1>8, FreshHandle DEF Load, MeshInv, MeshIsCurrent, NoParams
<1>9. CASE SetSweep
  <2>1. /\ handle'.params = handle.params /\ handle'.model = handle.model
        /\ handle'.mesh = handle.mesh
    BY <1>1, <1>9 DEF SetSweep, Handle
  <2> QED BY <1>9, <2>1 DEF SetSweep, MeshInv, MeshIsCurrent, ShapeOf
<1>10. CASE SetParameters
  <2>1. handle \in Handle
    BY <1>1, <1>10 DEF SetParameters, SessionInv
  <2>2. /\ handle'.model = handle.model /\ handle'.mesh = handle.mesh
        /\ \A p \in Params : handle'.params[p] = IF p \in DOMAIN job.params
                                THEN job.params[p] ELSE handle.params[p]
    BY <1>2, <1>10, <2>1, UpdatedHandle DEF SetParameters
  <2>3. CASE NeedsRebuild \/ tainted
    BY <1>10, <2>3 DEF SetParameters, MeshInv
  <2>4. CASE ~NeedsRebuild /\ ~tainted
    <3>1. \A p \in GeometryOf[handle.model] : handle'.params[p] = handle.params[p]
      BY <1>3, <1>10, <2>1, <2>2, <2>4, NoRebuildKeepsShape DEF SetParameters
    <3>2. ShapeOf(handle)' = ShapeOf(handle)
      BY <2>2, <3>1 DEF ShapeOf
    <3>3. MeshIsCurrent
      BY <1>10, <2>4 DEF SetParameters, SessionInv, MeshInv
    <3> QED BY <1>10, <2>2, <2>4, <3>2, <3>3 DEF SetParameters, MeshInv, MeshIsCurrent
  <2> QED BY <2>3, <2>4
<1>11. CASE BuildGeometry
  <2>1. handle \in Handle
    BY <1>1, <1>11 DEF BuildGeometry, SessionInv
  <2>2. /\ handle'.model = handle.model /\ handle'.params = handle.params
        /\ handle'.built = ShapeOf(handle)
    BY <1>11, <2>1 DEF BuildGeometry, Handle
  <2> QED BY <1>11, <2>2 DEF BuildGeometry, MeshInv, ShapeOf
<1>12. CASE Mesh
  <2>1. handle \in Handle
    BY <1>1, <1>12 DEF Mesh, SessionInv
  <2>2. /\ handle'.model = handle.model /\ handle'.params = handle.params
        /\ handle'.mesh = handle.built
    BY <1>12, <2>1 DEF Mesh, Handle
  <2>3. handle.built = ShapeOf(handle)
    BY <1>12 DEF Mesh, MeshInv
  <2> QED BY <1>12, <2>2, <2>3 DEF Mesh, MeshInv, MeshIsCurrent, ShapeOf
<1>13. CASE Solve
  BY <1>2, <1>13 DEF Solve, SessionInv, MeshInv, MeshIsCurrent, ShapeOf
<1>14. CASE Done
  BY <1>14 DEF Done, MeshInv, MeshIsCurrent, ShapeOf
<1>15. CASE Raise
  BY <1>15 DEF Raise, Fails, MeshInv
<1>16. CASE RaiseHalfSet
  BY <1>16 DEF RaiseHalfSet, Fails, MeshInv, SessionInv
<1>17. CASE Restart
  BY <1>17 DEF Restart, MeshInv
<1>18. CASE UNCHANGED sessionVars
  BY <1>18 DEF sessionVars, MeshInv, MeshIsCurrent, ShapeOf
<1> QED
  BY <1>4, <1>5, <1>6, <1>7, <1>8, <1>9, <1>10, <1>11, <1>12, <1>13, <1>14, <1>15,
     <1>16, <1>17, <1>18 DEF SessionNext

\* Between failures the mesh-skip shortcut is right, for any set of geometry
\* parameters and however jobs leave parameters out.
THEOREM MeshSkipIsSafe == SessionSpec => []SkipsSafelyWithoutFailures
<1>1. SessionInit => MeshInv
  BY MeshInvInit
<1>2. SessionTypeOK /\ SessionInv /\ MeshInv /\ [SessionNext]_sessionVars => MeshInv'
  BY MeshInvStep
<1>3. SessionInv /\ MeshInv => SkipsSafelyWithoutFailures
  BY DEF SessionInv, MeshInv, SkipsSafelyWithoutFailures
<1> QED BY <1>1, <1>2, <1>3, SessionInvariant, PTL DEF SessionSpec

=============================================================================
