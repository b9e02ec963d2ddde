------------------------------ MODULE MphSession ------------------------------
(***************************************************************************)
(* ModelSession with the real backend under it (mph_backend.py) and the    *)
(* submissions of the HTTP side before it (manifest.py).                   *)
(*                                                                         *)
(* A sweep is a study node of the loaded model, created once and switched  *)
(* on and off; results are read from one of two datasets that stay in the  *)
(* model from solve to solve. The calls that drive them may stop half way. *)
(* Each action is one of ModelSession, with what it does to these.         *)
(***************************************************************************)
EXTENDS ModelSession, ManifestRules, FiniteSets

CONSTANTS ManifestOf,   \* model -> its manifest
          Names,        \* names a client may use for a parameter
          DefaultUnit,  \* parameter -> the unit COMSOL gives to a bare number
          StudyOf,      \* model -> the study tag in its manifest, or Nil
          StudiesOf,    \* model -> the tags of the studies in its file
          SweptFiles,   \* models whose file has parametric solutions of its own
          Own,          \* a dataset with this job's solve, a single point
          Last,         \* ... with the last point of its sweep only
          Old           \* ... with the solve of an earlier job, or of the file

\* The specifications of parameters and the other constants agree.
ASSUME MphManifestAssumption ==
    /\ Values = Texts /\ Sweeps = Lists
    /\ Params \subseteq Names
    /\ \A m \in Models :
         LET specs == ManifestOf[m].parameters IN
         /\ DOMAIN specs \subseteq Params
         /\ \A p \in DOMAIN specs : specs[p] \in ParameterSpec
         /\ GeometryOf[m] = {p \in DOMAIN specs : specs[p].geometry}
         /\ SweepOf[m] = ManifestOf[m].sweep_parameter
    /\ DefaultUnit \in [Params -> Units]
    /\ Nil \notin Names

\* A manifest calls a parameter dimensionless only when it is.
ASSUME MphDimensionAssumption == \A m \in Models :
    LET specs == ManifestOf[m].parameters IN
    \A p \in DOMAIN specs : specs[p].unit \in Dimensionless =>
        Scale[specs[p].unit] = Scale[DefaultUnit[p]]

ASSUME MphFileAssumption == FileValue \notin Texts \cup Lists /\ FileValue # Nil

ASSUME MphMarkAssumption ==
    /\ Own # Last /\ Own # Old /\ Last # Old
    /\ {Own, Last, Old} \cap (Sweeps \cup {Nil}) = {}

VARIABLES
    node,         \* the Parametric node in the study, and handle.sweep_node
    sweep_active, \* handle.sweep_active
    datasets,     \* what the datasets of the loaded model hold
    evaluated     \* what evaluate() has returned for the job

mphVars == <<sessionVars, node, sweep_active, datasets, evaluated>>

Node == [values : Sweeps \cup {Nil}, on : BOOLEAN]

\* default is the first solution, parametric the first dataset that has
\* "Parametric Solutions" in its name: it holds all points of a sweep.
Datasets == [default : {Own, Last, Old}, parametric : Sweeps \cup {Old, Nil}]

ASSUME NilIsNoNode == Nil \notin Node /\ Nil \notin Datasets

MphTypeOK ==
    /\ node \in Node \cup {Nil}
    /\ sweep_active \in BOOLEAN
    /\ datasets \in Datasets \cup {Nil}
    /\ evaluated \in Sweeps \cup {Own, Last, Old, Nil}
    /\ (handle = Nil) = (datasets = Nil)
    /\ handle = Nil => node = Nil /\ ~sweep_active

MphInit ==
    /\ SessionInit
    /\ node = Nil /\ sweep_active = FALSE
    /\ datasets = Nil /\ evaluated = Nil

-----------------------------------------------------------------------------
(* Submissions.                                                             *)

\* What a client may send: any names, values and lists.
Requests == [model : Models, params : UNION {[P -> Texts \cup Lists] : P \in SUBSET Names}]

Scalars(d, P) == [p \in P |-> d[p]]

\* process_one, from the params of the row: a list for the sweep parameter is
\* taken out of them.
JobOf(r) ==
    LET sweep == SweepOf[r.model]
        swept == sweep \in DOMAIN r.params /\ IsList(r.params[sweep])
    IN  [model  |-> r.model,
         params |-> Scalars(r.params, DOMAIN r.params \ (IF swept THEN {sweep} ELSE {})),
         sweep  |-> IF swept THEN r.params[sweep] ELSE Nil]

\* The jobs that submit_job and enqueue_batch let through.
Accepted ==
    {JobOf(r) : r \in {q \in Requests : ValidParams(ManifestOf[q.model], q.params)}}

-----------------------------------------------------------------------------
(* Loading and releasing.                                                   *)

\* What the datasets hold is now of an earlier job.
Aged(d) == IF d = Nil THEN Nil
           ELSE [default |-> Old, parametric |-> IF d.parametric = Nil THEN Nil ELSE Old]

MphTakeJob ==
    /\ \E j \in Accepted : TakeJob(j)
    /\ datasets' = Aged(datasets)
    /\ UNCHANGED <<node, sweep_active, evaluated>>

\* MphModelHandle.__init__ and client.load.
MphLoad ==
    /\ Load
    /\ node' = Nil /\ sweep_active' = FALSE
    /\ datasets' = [default    |-> Old,
                    parametric |-> IF job.model \in SweptFiles THEN Old ELSE Nil]
    /\ UNCHANGED evaluated

Forget == node' = Nil /\ sweep_active' = FALSE /\ datasets' = Nil

\* Bug: the new handle takes over what was known of the old one.
BugMphRelease == Release /\ UNCHANGED <<node, sweep_active, datasets, evaluated>>

MphRelease == Release /\ Forget /\ UNCHANGED evaluated

MphRestart == Restart /\ Forget /\ evaluated' = Nil

-----------------------------------------------------------------------------
(* The sweep node.                                                          *)

\* _resolve_study, or _only_study when the manifest names none.
HasSweepTarget(m) ==
    IF StudyOf[m] = Nil THEN Cardinality(StudiesOf[m]) = 1 ELSE StudyOf[m] \in StudiesOf[m]

\* _sweep_node: the cached node, or a new one, which is created switched on.
SweepNode == IF node = Nil THEN [values |-> Nil, on |-> TRUE] ELSE node

ConfigureSweep ==
    /\ SetSweep /\ job.sweep # Nil
    /\ node # Nil \/ HasSweepTarget(job.model)
    /\ node' = [values |-> job.sweep, on |-> TRUE]
    /\ sweep_active' = TRUE
    /\ UNCHANGED <<datasets, evaluated>>

\* Bug: the node is switched off only when the last configure_sweep succeeded.
BugDisableSweep ==
    /\ SetSweep /\ job.sweep = Nil
    /\ node' = IF sweep_active THEN [node EXCEPT !.on = FALSE] ELSE node
    /\ sweep_active' = FALSE
    /\ UNCHANGED <<datasets, evaluated>>

DisableSweep ==
    /\ SetSweep /\ job.sweep = Nil
    /\ node' = IF node = Nil THEN Nil ELSE [node EXCEPT !.on = FALSE]
    /\ sweep_active' = FALSE
    /\ UNCHANGED <<datasets, evaluated>>

\* configure_sweep stops after any of its calls: the node is there, its list set
\* or not, switched or not. sweep_active is assigned last.
HalfConfigured ==
    /\ job.sweep # Nil
    /\ node # Nil \/ HasSweepTarget(job.model)
    /\ node' \in {SweepNode, [SweepNode EXCEPT !.values = job.sweep],
                  [values |-> job.sweep, on |-> TRUE]}
    /\ UNCHANGED datasets

\* disable_sweep stops in toggle, done or not.
HalfDisabled ==
    /\ job.sweep = Nil /\ node # Nil
    /\ node' = [node EXCEPT !.on = FALSE]
    /\ UNCHANGED datasets

-----------------------------------------------------------------------------
(* Solving and evaluating.                                                  *)

SweepIsOn == node # Nil /\ node.on

\* The first dataset of its kind is the file's own, if the file has one; whether
\* COMSOL solves into it or into a second one is COMSOL's affair.
Solved(d) ==
    IF ~SweepIsOn THEN {[d EXCEPT !.default = Own]}
    ELSE {[default |-> Last, parametric |-> s] :
             s \in {node.values} \cup (IF job.model \in SweptFiles THEN {d.parametric} ELSE {})}

MphSolve ==
    /\ Solve
    /\ StudyOf[job.model] = Nil \/ StudyOf[job.model] \in StudiesOf[job.model]
    /\ datasets' \in Solved(datasets)
    /\ UNCHANGED <<node, sweep_active, evaluated>>

\* A solve that fails may have begun to overwrite what it would have.
HalfSolved ==
    /\ datasets' = [default    |-> Old,
                    parametric |-> IF SweepIsOn THEN Old ELSE datasets.parametric]
    /\ UNCHANGED node

\* Where no dataset of the sweep is found, evaluate raises.
Evaluate ==
    /\ pc = "results"
    /\ sweep_active => datasets.parametric # Nil
    /\ evaluated' = IF sweep_active THEN datasets.parametric ELSE datasets.default
    /\ UNCHANGED <<sessionVars, node, sweep_active, datasets>>

MphDone == Done /\ evaluated' = Nil /\ UNCHANGED <<node, sweep_active, datasets>>

\* Any call may raise, and has done part of its work or none of it.
MphRaise ==
    /\ Raise
    /\ evaluated' = Nil
    /\ UNCHANGED sweep_active
    /\ \/ UNCHANGED <<node, datasets>>
       \/ pc = "sweep" /\ handle # Nil /\ (HalfConfigured \/ HalfDisabled)
       \/ pc = "solve" /\ HalfSolved

\* The calls that touch neither the sweep nor the datasets.
MphOther ==
    /\ \/ KeepModel \/ ReadManifest \/ SetParameters \/ BuildGeometry \/ Mesh
    /\ UNCHANGED <<node, sweep_active, datasets, evaluated>>

MphRaiseHalfSet ==
    /\ RaiseHalfSet
    /\ evaluated' = Nil
    /\ UNCHANGED <<node, sweep_active, datasets>>

MphNext ==
    \/ MphTakeJob \/ MphLoad \/ MphRelease \/ MphOther
    \/ ConfigureSweep \/ DisableSweep
    \/ MphSolve \/ Evaluate \/ MphDone
    \/ MphRaise \/ MphRaiseHalfSet \/ MphRestart

MphSpec == MphInit /\ [][MphNext]_mphVars

-----------------------------------------------------------------------------
(* Properties.                                                              *)

\* What a job's outputs are read from is the solve of that very job, all points
\* of its own sweep or its single point: whatever sweeps ran in the model before
\* it, and wherever configuring, switching or solving them stopped. A file that
\* brings parametric solutions of its own is excepted: evaluate() takes the
\* first dataset of that name (mph_backend.py:186-223).
EvaluatesOwnSolve ==
    evaluated # Nil /\ (job.sweep # Nil => job.model \notin SweptFiles) =>
        evaluated = IF job.sweep = Nil THEN Own ELSE job.sweep

\* Every value in the model when it is solved, swept ones included and those that
\* earlier jobs have left there, is the file's own or, as COMSOL understands it,
\* a quantity in the range its manifest gives to the parameter: no list, no bare
\* number in another unit, nothing of another model's (manifest.py:83-141).
SolvesWithinManifest == pc = "solve" =>
    LET specs == ManifestOf[job.model].parameters
        Within(p, text) == text \in Texts /\ p \in DOMAIN specs
                             /\ WithinSpec(specs[p], text, DefaultUnit[p])
    IN  /\ \A p \in Params : handle.params[p] # FileValue => Within(p, handle.params[p])
        /\ SweepIsOn => LET values == Elements[node.values] IN
              values # <<>> /\ \A i \in 1 .. Len(values) : Within(SweepOf[job.model], values[i])

-----------------------------------------------------------------------------
(* The inductive invariant behind them.                                     *)

\* From configure_sweep or disable_sweep to the end of the job, the node is
\* switched as the job asks, and sweep_active says so.
SweepStateInv ==
    pc \in {"set", "build", "mesh", "solve", "results"} =>
        /\ sweep_active = (job.sweep # Nil)
        /\ SweepIsOn = (job.sweep # Nil)
        /\ job.sweep # Nil => node.values = job.sweep

\* After the solve the datasets that the job will read are its own.
DatasetInv == pc = "results" =>
    /\ job.sweep = Nil => datasets.default = Own
    /\ job.sweep # Nil /\ job.model \notin SweptFiles => datasets.parametric = job.sweep

JobIsAccepted == pc # "idle" => job \in Accepted

\* The texts set in the model were accepted for it.
ParamsInv == handle # Nil => \A p \in Params :
    handle.params[p] # FileValue =>
        /\ p \in DOMAIN ManifestOf[handle.model].parameters
        /\ handle.params[p] \in Texts
        /\ ValidValue(ManifestOf[handle.model].parameters[p], handle.params[p])

EvaluatedInv == evaluated # Nil =>
    /\ pc = "results"
    /\ evaluated = IF sweep_active THEN datasets.parametric ELSE datasets.default

=============================================================================
