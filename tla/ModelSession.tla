----------------------------- MODULE ModelSession -----------------------------
(***************************************************************************)
(* What one worker process keeps between the jobs it runs (worker.py): the *)
(* loaded model and its manifest, the parameters, geometry, mesh and sweep *)
(* that earlier jobs have left in it, and the parameters it believes the   *)
(* mesh was built for. Reusing these is what makes the worker fast; every  *)
(* call of the backend may raise, and the job fails where it stands.       *)
(*                                                                         *)
(* A step is one call of the backend or of the database. Jobs come in any  *)
(* order: which one is claimed is JobQueue's affair.                       *)
(***************************************************************************)
EXTENDS Naturals

CONSTANTS Models,      \* registered models
          Params,      \* parameters the manifests declare
          Values,      \* their values
          FileValue,   \* the value a parameter has in the .mph file
          Sweeps,      \* lists of values of a sweep parameter
          GeometryOf,  \* model -> its parameters with geometry: true
          SweepOf,     \* model -> its sweep_parameter, or Nil
          Nil

ASSUME SessionAssumption ==
    /\ GeometryOf \in [Models -> SUBSET Params]
    /\ SweepOf \in [Models -> Params \cup {Nil}]

ASSUME SessionNilAssumption == Nil \notin Models \cup Params \cup Values \cup Sweeps

VARIABLES
    pc,          \* where process_one stands
    job,         \* the claimed job
    loaded,      \* _loaded_model_id
    handle,      \* _handle, with the state of the model behind it
    manifest,    \* the model whose manifest (and geometry flags) is kept
    lastParams,  \* _last_params
    tainted      \* history: a job has failed since the model was loaded or meshed

sessionVars == <<pc, job, loaded, handle, manifest, lastParams, tainted>>

\* A dictionary of scalar parameters: some are left out.
ParamDicts == UNION {[P -> Values] : P \in SUBSET Params}

NoParams == [p \in {} |-> Nil]

\* A validated job. A swept parameter is not among the scalar ones.
Job == [model : Models, params : ParamDicts, sweep : Sweeps \cup {Nil}]

Submittable == {j \in Job : j.sweep # Nil => /\ SweepOf[j.model] # Nil
                                             /\ SweepOf[j.model] \notin DOMAIN j.params}

\* The model in the backend's memory. built and mesh are the values of the
\* geometry parameters that the geometry and the mesh were made from.
Setting == [Params -> Values \cup {FileValue}]
Shape == UNION {[P -> Values \cup {FileValue}] : P \in SUBSET Params}
Handle == [model : Models, params : Setting, built : Shape, mesh : Shape,
           sweep : Sweeps \cup {Nil}]

ASSUME NilIsNoRecord == Nil \notin Job /\ Nil \notin Handle

SessionPcs == {"idle", "load", "open", "sweep", "set", "build", "mesh", "solve", "results"}

SessionTypeOK ==
    /\ pc \in SessionPcs
    /\ job \in Job \cup {Nil}
    /\ loaded \in Models \cup {Nil}
    /\ handle \in Handle \cup {Nil}
    /\ manifest \in Models \cup {Nil}
    /\ lastParams \in ParamDicts
    /\ tainted \in BOOLEAN

\* Worker.__init__
SessionInit ==
    /\ pc = "idle" /\ job = Nil
    /\ loaded = Nil /\ handle = Nil /\ manifest = Nil
    /\ lastParams = NoParams
    /\ tainted = FALSE

\* The values the geometry parameters have in h.
ShapeOf(h) == [p \in GeometryOf[h.model] |-> h.params[p]]

\* client.load: the file comes with its geometry and mesh.
Fresh(m) == LET shape == [p \in GeometryOf[m] |-> FileValue]
            IN  [model |-> m, params |-> [p \in Params |-> FileValue],
                 built |-> shape, mesh |-> shape, sweep |-> Nil]

-----------------------------------------------------------------------------
(* _load_model_if_needed                                                    *)

TakeJob(j) ==
    /\ pc = "idle"
    /\ job' = j /\ pc' = "load"
    /\ UNCHANGED <<loaded, handle, manifest, lastParams, tainted>>

KeepModel ==
    /\ pc = "load" /\ loaded = job.model
    /\ pc' = "sweep"
    /\ UNCHANGED <<job, loaded, handle, manifest, lastParams, tainted>>

Release ==
    /\ pc = "load" /\ loaded # job.model /\ handle # Nil
    /\ handle' = Nil
    /\ UNCHANGED <<pc, job, loaded, manifest, lastParams, tainted>>

\* get_model and Manifest.model_validate; the old manifest is replaced before
\* the model itself is there.
ReadManifest ==
    /\ pc = "load" /\ loaded # job.model /\ handle = Nil
    /\ manifest' = job.model
    /\ pc' = "open"
    /\ UNCHANGED <<job, loaded, handle, lastParams, tainted>>

BugLoad ==
    /\ pc = "open"
    /\ handle' = Fresh(job.model)
    /\ loaded' = job.model
    /\ tainted' = FALSE
    /\ pc' = "sweep"
    /\ UNCHANGED <<job, manifest, lastParams>>

Load ==
    /\ pc = "open"
    /\ handle' = Fresh(job.model)
    /\ loaded' = job.model
    /\ lastParams' = NoParams
    /\ tainted' = FALSE
    /\ pc' = "sweep"
    /\ UNCHANGED <<job, manifest>>

-----------------------------------------------------------------------------
(* process_one, its try block                                               *)

BugSetSweep ==
    /\ pc = "sweep" /\ handle # Nil
    /\ handle' = IF job.sweep = Nil THEN handle ELSE [handle EXCEPT !.sweep = job.sweep]
    /\ pc' = "set"
    /\ UNCHANGED <<job, loaded, manifest, lastParams, tainted>>

\* configure_sweep, or disable_sweep for a job without one. There is no way on
\* from here without a handle: the call raises.
SetSweep ==
    /\ pc = "sweep" /\ handle # Nil
    /\ handle' = [handle EXCEPT !.sweep = job.sweep]
    /\ pc' = "set"
    /\ UNCHANGED <<job, loaded, manifest, lastParams, tainted>>

\* dict.get
Get(d, p) == IF p \in DOMAIN d THEN d[p] ELSE Nil

NeedsRebuild == \E p \in GeometryOf[manifest] : Get(job.params, p) # Get(lastParams, p)

BugUpdated(h, d) == [h EXCEPT !.params = d]

\* handle.parameters.update(d)
Updated(h, d) ==
    [h EXCEPT !.params = [p \in Params |-> IF p \in DOMAIN d THEN d[p] ELSE @[p]]]

SetParameters ==
    /\ pc = "set"
    /\ handle' = Updated(handle, job.params)
    /\ pc' = IF NeedsRebuild THEN "build" ELSE "solve"
    /\ UNCHANGED <<job, loaded, manifest, lastParams, tainted>>

BuildGeometry ==
    /\ pc = "build"
    /\ handle' = [handle EXCEPT !.built = ShapeOf(handle)]
    /\ pc' = "mesh"
    /\ UNCHANGED <<job, loaded, manifest, lastParams, tainted>>

Mesh ==
    /\ pc = "mesh"
    /\ handle' = [handle EXCEPT !.mesh = handle.built]
    /\ tainted' = FALSE
    /\ pc' = "solve"
    /\ UNCHANGED <<job, loaded, manifest, lastParams>>

Solve ==
    /\ pc = "solve"
    /\ lastParams' = job.params
    /\ pc' = "results"
    /\ UNCHANGED <<job, loaded, handle, manifest, tainted>>

\* The results are written and the job marked done.
Done ==
    /\ pc = "results"
    /\ job' = Nil /\ pc' = "idle"
    /\ UNCHANGED <<loaded, handle, manifest, lastParams, tainted>>

-----------------------------------------------------------------------------
(* Exceptions.                                                              *)

\* The except branches run mark_failed and nothing else: what the session
\* holds is what the calls so far have made of it.
Fails ==
    /\ job' = Nil /\ pc' = "idle"
    /\ tainted' = (handle # Nil)
    /\ UNCHANGED <<loaded, manifest, lastParams>>

\* Any call may raise. What it had begun inside the model counts as not done;
\* SolvesWhatWasAsked is about states the next job sets anew in any case, and
\* the other properties make an exception for the mesh after a failure.
Raise ==
    /\ pc # "idle"
    /\ Fails
    /\ UNCHANGED handle

\* MphBackend sets one parameter after the other and may stop between two.
RaiseHalfSet ==
    /\ pc = "set"
    /\ \E P \in SUBSET DOMAIN job.params :
          handle' = Updated(handle, [p \in P |-> job.params[p]])
    /\ Fails

\* The process ends, by itself or killed; its successor starts afresh.
Restart ==
    /\ pc' = "idle" /\ job' = Nil
    /\ loaded' = Nil /\ handle' = Nil /\ manifest' = Nil
    /\ lastParams' = NoParams
    /\ tainted' = FALSE

SessionNext ==
    \/ \E j \in Submittable : TakeJob(j)
    \/ KeepModel
    \/ Release
    \/ ReadManifest
    \/ Load
    \/ SetSweep
    \/ SetParameters
    \/ BuildGeometry
    \/ Mesh
    \/ Solve
    \/ Done
    \/ Raise
    \/ RaiseHalfSet
    \/ Restart

SessionSpec == SessionInit /\ [][SessionNext]_sessionVars

-----------------------------------------------------------------------------

\* Whatever the jobs before it were and wherever they failed, a job is solved
\* in its own model, under that model's manifest, with its own parameters and
\* its own sweep, or none (configure_sweep's docstring: the swept state
\* otherwise persists across solves).
SolvesWhatWasAsked ==
    pc = "solve" =>
        /\ handle # Nil
        /\ handle.model = job.model /\ manifest = job.model
        /\ \A p \in DOMAIN job.params : handle.params[p] = job.params[p]
        /\ handle.sweep = job.sweep

MeshIsCurrent == handle.mesh = ShapeOf(handle)

\* As long as no job has failed since the model was loaded or last meshed, the
\* shortcut around build_geometry and mesh is right: also with parameters left
\* out, and after a change of models.
SkipsSafelyWithoutFailures == pc = "solve" /\ ~tainted => MeshIsCurrent

-----------------------------------------------------------------------------
(* The inductive invariant behind them.                                     *)

\* The handle, where there is one, is of the model the worker believes loaded
\* and is used with that model's manifest; from each step of process_one on
\* the handle has what that step was to establish for the job.
SessionInv ==
    /\ handle # Nil => handle.model = loaded /\ manifest = loaded
    /\ pc # "idle" => job # Nil
    /\ pc = "open" => handle = Nil /\ manifest = job.model
    /\ pc \in {"sweep", "set", "build", "mesh", "solve", "results"} => loaded = job.model
    /\ pc \in {"set", "build", "mesh", "solve", "results"} =>
          handle # Nil /\ handle.sweep = job.sweep
    /\ pc \in {"build", "mesh", "solve", "results"} =>
          \A p \in DOMAIN job.params : handle.params[p] = job.params[p]

\* Between rebuilds, and while no failure has come in between, the mesh is the
\* one of the geometry parameters, and _last_params tells their values.
MeshInv ==
    /\ pc = "mesh" => handle.built = ShapeOf(handle)
    /\ handle # Nil /\ ~tainted /\ pc \notin {"build", "mesh"} => MeshIsCurrent
    /\ handle # Nil /\ ~tainted /\ pc \notin {"build", "mesh", "solve"} =>
          \A p \in GeometryOf[handle.model] \cap DOMAIN lastParams :
              handle.params[p] = lastParams[p]

-----------------------------------------------------------------------------
(* What a message says and the code does not do.                            *)

\* worker.py, process_one: "skipped rebuild (no geometry parameter changed)".
\* A job that is solved without a rebuild finds a mesh made from its geometry.
SkipsOnlyUnchangedGeometry == pc = "solve" => MeshIsCurrent

=============================================================================
