# simserver in TLA+

A verification project for simserver, the job server that runs COMSOL
simulations: a SQLite table of jobs, worker processes that each hold one licensed
COMSOL session, a supervisor that keeps the workers alive, and an HTTP API and a
web client in front. The modules translate the code of `src/src/simserver/`;
paths below are relative to that directory. `PROJECT.json` maps every definition
to the lines it stands for.

To check a run: `tlc -workers 2 -config X.cfg M`. To check a proof: `tlapm M.tla`.

## The system

| Part | State | Operations | Talks to |
|---|---|---|---|
| Job queue (`queue.py`) | table `jobs` | enqueue, claim, mark done or failed, requeue or fail, cancel | everyone, through SQL |
| Worker (`worker.py`) | claimed job, loaded model and its manifest, `_last_params` | claim loop, one job, recycling, exit in maintenance mode | the queue; the backend |
| Supervisor (`supervisor.py`) | `_procs`, a manifest cache | start, poll and reconcile, watchdog, top-up, shutdown | the queue; processes (spawn, poll, kill) |
| Maintenance mode (`queue.py`, `api.py`) | a row of `admin_state` | drain, resume | read by claim, worker loop, top-up |
| Registry and storage (`storage.py`, `queue.py`, `api.py`, `web.py`) | table `models`, a directory per model | upload, delete; check on submission | the queue through a foreign key; workers through the files |
| Results (`worker.py`, `mode_selection.py`, `queue.py`) | tables `results`, `mode_selection` | slice, select a mode, insert | the backend's arrays; `dataset.py` reads them |
| Backend (`backend/`) | a model in memory | load, set, build, mesh, sweep, solve, evaluate, release | the worker |
| Manifests (`manifest.py`) | none | validate parameters, resolve outputs | API, web client, worker |
| Dataset (`dataset.py`) | none | rows of a batch as CSV | results |
| HTTP API, web client, CLI | sessions and accounts (`auth.py`) | requests of clients | queue, registry |

Processes share the database and the operating system's view of who is alive,
and nothing else. Connections are in autocommit mode, so each statement is a
transaction, with `claim_next_job` the exception (`BEGIN IMMEDIATE`).
What takes two statements, such as `requeue_or_fail`, can be interrupted between
them.
That is where the hard behaviour comes from:

- *Stale reads.* The supervisor reads the running rows, then kills, then writes,
  by job id alone; the worker may have finished, or begun another job, in
  between. A drain is read before the claim it is to prevent. Handlers of
  requests check first and act later.
- *Deaths.* Workers crash, hang, are killed by the watchdog, recycle
  themselves; the supervisor is interrupted or lost. The row of a job remains
  when its worker is gone.
- *Retries.* A job put back is executed again, up to `max_attempts`; what its
  first execution wrote to `results` stays.
- *State kept between jobs.* A worker reuses model, geometry, mesh and sweep and
  must know when it may not.
- *Rows beside files.* A model is a row and two files, written and removed in
  steps that other requests get between.
- *Copies of a model.* A submission is checked with one manifest, the worker has
  read another, the supervisor remembers the timeout of a third; nobody is told
  when the model is registered again.

What makes each part correct: under its one supervisor the queue hands a job out
at most `max_attempts` times, and jobs that wait together in order; a job is executed by one worker at a time and by the one its
row names; attempts count executions; no worker is left running that nobody
watches; what is queued is settled in the end; a drain empties the pool; a job
is solved with its own parameters on a mesh of its own geometry; its outputs are
read from its own solve; no value in the model is outside what its manifest
allows; manifest and file in use are of one upload; a registered model has its
files, its owner and its jobs; a result row belongs to its sweep point and its
mode, and the cells of the dataset belong to their columns and to each other.

## The modules

| Module | Models | Proofs |
|---|---|---|
| `JobQueue` | the jobs table and every statement that writes it | `JobQueueProofs` |
| `JobDispatch` | abstract: what the system promises about running jobs | |
| `WorkerPool` | extends `JobQueue` with workers, supervisor, clients and clock | `WorkerPoolProofs` |
| `ModelSession` | one worker's loaded model over a sequence of jobs | `ModelSessionProofs` |
| `ManifestRules` | the checks of a manifest, as pure functions | |
| `MphSession` | extends `ModelSession` and `ManifestRules`: the real backend below the session, validated submissions above it | `MphSessionProofs` |
| `ModelRegistry` | handlers that upload, delete and submit, in parallel | `ModelRegistryProofs` |
| `ModelVersions` | extends `ModelRegistry` with a worker and a supervisor that hold on to what they have read | `ModelVersionsProofs` |
| `SweepResults` | from evaluated arrays to result rows, over retries | `SweepResultsProofs` |
| `BatchDataset` | the dataset of a batch, over the rows of `SweepResults` | `BatchDatasetProofs` |

The `MC` modules give the constants values for TLC. Definitions whose name
starts with `Bug` are slips a programmer could have made; each stands before the
definition it would replace and breaks a property when it does.

### JobQueue

A row is a record of `status`, `model`, `priority`, `worker`, `attempt`,
`created`, and two booleans for the clock: `waiting` (`not_before` has not
passed) and `overdue` (running for longer than its timeout). `claims` counts the
claims of each job and is history. The actions are the statements of `queue.py`.
`Enqueue` takes any second for `created_at`: `_now()` is read before the `INSERT`,
which may wait for the write lock, so rows come in out of that order, and the clock
may be set back. `Claim` takes any row that the `ORDER BY` does not put behind
another, since SQL leaves ties open and seconds are the resolution of `created_at`.
`requeue_or_fail` is two steps, because its `SELECT` of `attempt` and its `UPDATE`
are two statements: `ReadAttempt` keeps the job and whether it may be retried in
`reclaims`, and `RequeueOrFail` acts on that, however old it is. `Reclaimers` are
those who may be in such a call at the same time. `MarkDone`, `MarkFailed` and
`RequeueOrFail` do not look at the row they write, as in the code. `QueueSpec` puts
the table under callers of whom only one thing is assumed, that they settle or
reclaim jobs which have been claimed at some time. The pool is such a caller
(`ImplementsQueue`), with or without lost supervisors.

Two reclaimers of one job that both read before either writes both requeue it. The
cap that holds for any callers is therefore not `max_attempts` but `AttemptCap`, one
more for every reclaimer but the first. In the pool the supervisor is the only one,
and the cap is exact.

### WorkerPool

A worker process is a pair of a worker id and the number of the supervisor that
spawned it, because `worker-1` is the name of a process of every supervisor. Its
program counter names the points of `run_forever`, `claim_next_job` and
`process_one` at which another process can see or change something. The
supervisor's counter does the same for `run_forever`; `visit`, `rows`, `cur` and
`reclaims` are what its loops and calls have read and not yet used: `BeginReclaim`
is the `SELECT` of `requeue_or_fail`, its `UPDATE` is in `Reconcile` and
`WatchReclaim`, and a supervisor that ends in between does neither. A solve is one step that may
never be taken: a job whose solve hangs is the watchdog's business. Clients
enqueue, cancel, drain and resume at any time. `WorkerDies` is a crash at any
point of the worker, `SupervisorKilled` one of the supervisor, and `Restart`
starts another on what is left.

### ModelSession

`handle` is the model behind `_handle`: its parameters, the geometry parameters
its geometry and mesh were built from, its sweep. A step is one call of the
backend, in the order of `process_one`, and any may raise. Between two jobs the
state stays, as in the code, including the places where it no longer agrees with
itself. `RaiseHalfSet` is a `set_parameters` of `MphBackend` that stops between
two parameters. `tainted` is history: a job has failed since the mesh was made.

### ManifestRules and MphSession

A text such as `0.8[um]` stands for its magnitude and its unit; `Bare` and `Junk`
are the units of a text without brackets and of one that the pattern does not
match. `ValidParams` is `validate_params`. `Quantity` is what COMSOL takes a text
to mean, which for a bare number is the unit COMSOL has for the parameter and not
the one in the manifest.

`MphSession` refines the steps of `ModelSession` with the state of
`mph_backend.py` that outlives a job: the sweep `node`, created once and switched
on and off, the flag `sweep_active`, and the two datasets `evaluate` chooses
from. A dataset is what it holds: this job's only point (`Own`), the last point of
a sweep (`Last`), all points of a sweep (its list), or something older (`Old`).
`MphRaise` stops `configure_sweep`, `disable_sweep` and `solve` after each of
their calls. Jobs come from `Accepted`, the requests that `validate_params` lets
through, and so the runs of this module are also the runs of `ModelSession`:
`MphImplementsSession` proves that no step of the backend is missing from it.

### ModelRegistry

One process per request; a step is one statement or one call on the file system.
`BeginUpload`, `MakeDir`, `WriteModel`, `WriteManifest`, `Register` are
`model_new_submit` and `create_model`; `BeginDelete`, `DropRow`, `ListFiles`,
`Unlink`, `RemoveDir` are `delete_model_ui` and `delete_model` down to the
`rmtree`; `BeginSubmit` and `Insert` are the submissions of jobs and batches. A
handler may die anywhere, also within a file (`TearFile`). The content of an
upload is the name of its request. `overlap` is history: which handlers of a
model ran at the same time, and whether one died; the properties use it to say
exactly when they hold.

### ModelVersions

A version is the request that uploaded it. `checked` is the version a submission
was validated with, `manifest` and `handle` are what the worker has read from the
row and from the file, two steps apart, and `cached` is the supervisor's cache of
timeouts. Jobs are numbers of a submission's rows; `taken` counts those that
were claimed or cancelled. The worker and the supervisor die and are replaced at
any moment. A worker that has a model loaded keeps it by its id alone, so the
manifest and the file of a job may be of an earlier version than the row.
`mixed` is history: whether an upload of the model went on between the two reads
of a load, or while the model was in use. The properties say what holds for the
models to which this never happened.

### SweepResults

Flat arrays hold values that say which output, point and mode they are of.
`Flat` is the layout COMSOL is documented to return (point by point);
`OutputArrays` gives the two lengths `_slice_for_point` says it handles and one
that does not fit, `TargetArrays` both shapes the worker's tests use. The pure
functions `SliceForPoint`, `NearestIndex` and `ResolvePointValue` are checked
against positions computed from the flat arrays directly. `run` in a row is the
execution that has written it, which the tables do not record. `Die` is a process
that ends in the middle of its job; `ReclaimEnded` is the watchdog that goes by a
row read before the job ended and sends a finished job round again.

### BatchDataset

`DatasetRow` merges the four groups of columns of `dataset.py` in the order in
which later ones overwrite earlier ones: the key, the parameters, imaginary
parts, outputs. `Updated` is the assignment of entries to a dictionary that may
have their keys already. `list_results` sorts by output and point alone. Where a
retry has left rows of several executions in one cell, SQL leaves their order open,
and whichever comes last stays. `LastRows` is every choice of these last rows and
`LastComplexRows` of the last ones with an imaginary part; `DatasetCellsMatch`
is stated for all of them.
So it does not say that the dataset shows the last execution, which the code does not
guarantee. It says that a value and its imaginary part are of one row, unless the
value is real and the imaginary part left by an earlier execution, as the code allows.

## The runs

Passing:

| Run | Instance | Shows |
|---|---|---|
| `queue` | 2 jobs, 2 models, 1 worker id, 2 priorities, 2 seconds, 2 attempts, 2 reclaimers | with late, repeated, overlapping and unrelated writers the retry cap of so many reclaimers holds (`ClaimsBounded`), and a job is started only after those of its model and priority that are in the table with an earlier `created_at` (`StartedInOrder`) |
| `pool_safety` | 2 jobs, 2 workers, 2 attempts, 1 crash | `ExclusiveExecution`, `AttemptsCountClaims`, `NoLeakedWorker`, `DrainAllowsOneMoreJob`, `ReclaimsOnlyAbandoned`, `ReclaimsOnlyClaimed`, and that the pool implements `JobDispatch` and `QueueSpec` |
| `pool_live` | 2 jobs, 1 worker, 2 attempts, 1 crash, 1 restart | with hanging solves `JobsSettle` and `DrainReleasesSeats`; the accounting also across a restart after a shutdown |
| `session` | 2 models, a geometry and a plain parameter, 7 texts and 5 lists, 3 names that clients send | on the real backend: `EvaluatesOwnSolve`, `SolvesWithinManifest`, and `SolvesWhatWasAsked` whatever failed before; between failures `SkipsSafelyWithoutFailures` |
| `registry` | 4 requests, 1 model, 2 users of which 1 administrator, batches of 2 | files, rows, owners and jobs stay together, except for the overlaps that the properties name |
| `versions` | 4 requests, 1 model, batches of up to 2, 1 worker, 1 supervisor | `LoadsOneUpload` and `JobsRunAsChecked`, across uploads, deletions and replaced processes |
| `sweep` | 1 job, up to 2 points, 2 modes, 2 outputs of which 1 may be complex, 2 executions, 2 values of neff | `RowsFitTheirPoints`, `RowsCountExecutions` and `DatasetCellsMatch` |

Every run also checks its module's type invariant, except `pool_live`, whose
state is the one typed by `pool_safety`. The type invariants of `queue` and of the
pool hold `attempt` to its cap. The largest runs have 910,432 (`sweep`), 648,051
(`pool_safety`), 297,857 (`queue`) and 296,880 (`pool_live`) distinct states.

Violated, each by what the code does against what it says of itself:

| Run | Property | What happens |
|---|---|---|
| `pool_reclaim` | `ReclaimsOnlyRunning` | the watchdog requeues the job of a row it read before the kill; the worker had marked it done in between, and the finished job is executed again (`supervisor.py:178`) |
| `pool_drain_list` | `DrainClearsRunningList` | the worker killed for one job had already claimed the next; that one stays `running` with nobody to settle it, and `GET /queue` never shows the seat as clear while the drain lasts (`supervisor.py:177`) |
| `pool_stray` | `ReclaimsOnlyAbandoned` | a supervisor lost without shutdown leaves its workers; its successor reuses their ids and requeues a job that a stray worker executes (`supervisor.py:88`) |
| `session_mesh` | `SkipsOnlyUnchangedGeometry` | `_last_params` is recorded after the solve only, so after a failed job the comparison is with the wrong parameters and a needed rebuild is skipped (`worker.py:152`) |
| `registry_files` | `FilesOfJobsStay` | a deletion has dropped the row; the model is registered again and a job submitted; then the deletion removes the new files (`storage.py:30`) |

Further disagreements were met and have no run of their own. After a failed load
the worker still names as loaded the model it has released (`worker.py:102`); it
then prefers the jobs of that model and fails them, until it claims one of
another. `ErrorClass` (`backend/base.py:11`) calls infrastructure errors the class to
retry, and `process_one` marks each of them failed for good. The comment at
`queue.py:146` says that maintenance mode stops workers from claiming, yet the
flag is read outside the claiming transaction; `DrainAllowsOneMoreJob` bounds what
follows from it. The repository's README counts the ownership check as collision
protection; two first uploads of one id both pass it, and the later one replaces
the contents of a model that then belongs to the earlier uploader.
`OwnersKeepTheirModels` states it for uploads that do not overlap.
The docstring of `requeue_or_fail` (`queue.py:254`) caps the total attempts at
`max_attempts`; with two supervisors on one database, which nothing prevents, its
two statements would let one more through. `dataset.py` shows rows of
several executions in an order it does not fix, and an imaginary part that an earlier
execution has left stays beside a real value of a later one.

Some hazards lie in the code as it is, and the properties state what holds apart from
them: a model registered again while a worker has it loaded, while its timeout is
cached or while a job checked with its manifest waits (`JobsRunAsChecked`), an upload
between the two reads of a load (`LoadsOneUpload`), overlapping registrations of one
id (`RowsMatchFiles`, `OwnersKeepTheirModels`), a handler that dies within a batch
(`BatchesAreWhole`), a supervisor that goes down for good (`JobsSettle`). `hazards` in
`PROJECT.json` names no property for those that none would notice.

### Bounds

All bounds are constants or sets of the configurations.

- *Attempts 2* are the fewest with a retry; the count enters only by comparison
  with `MaxAttempts`. *Jobs 2* are needed for every pool scenario above: one to
  be killed for, one to be claimed meanwhile; in `queue` they are enough because
  its properties speak of one job or of two. *Reclaimers 2* are the fewest that
  overlap, and overrun `max_attempts` by the one that `AttemptCap` allows. *Workers 2* give a job a second executor. *Crashes and
  restarts 1* each suffice for a death whose consequences are reclaimed; the
  watchdog's kills, the exits and the recycling are not bounded.
- *Seconds 2* and *priorities 2* make every outcome of a comparison, ties
  included.
- *Session*: jobs are not bounded, only what they can ask. One geometry
  parameter that one model also sweeps, and one plain parameter, make every
  combination of set, left out and swept; a third name is in no manifest. The
  texts are one inside the range in the right unit and another, one outside it, one
  in another unit, bare numbers inside and outside, and one that is no number;
  the lists are legal for one parameter or the other, or illegal by their last
  element, or empty. One model names its study and has two, the other has one and
  names none; one file brings parametric solutions.
- *Registry*: models share no state, so one suffices. The longest scenario, the one
  of `registry_files`, takes four requests: upload, upload, delete, submit.
- *Versions*: uploads, a deletion and a submission of two jobs in every order;
  two jobs are needed for one to be claimed while the other keeps its model in use.
  Without users every request is let through, as without a token in the code:
  who may overwrite a model is the business of `registry`.
- *Sweep*: two points and two modes distinguish point-by-point from
  mode-by-mode order, two values of neff for modes and targets give nearer,
  farther and tied modes. One parameter of the job is called like an output.

Symmetry is used in runs without liveness properties only: over jobs, models and
reclaimers (`queue`), over jobs and workers (`pool_safety`) and over requests (`registry`,
`registry_files`, `versions`), which the modules only compare for equality.
Priorities, seconds, users and values are not permuted, nor are the constants of
`session` and `sweep`. Deadlock is not checked in the runs that can end: a
supervisor that is stopped or gone, a table that is full of settled jobs, requests
that are all served. A session never ends, and a job that has ended may still be
on the list of a late watchdog: in `session` and `sweep` deadlock is checked.

### Fairness

`FairSpec` is used in `pool_live` and `pool_drain_list`.

- Weak fairness of each worker's loop (`WorkerLoop`): a live process keeps
  running. `FinishJob` and `FailJob` are not in it, because a solve may hang.
  Neither are deaths and recycling.
- Weak fairness of the supervisor's loop: it sleeps, polls and visits as long as
  it lives. Interrupts, kills and restarts have none.
- Weak fairness of the clock per job: backoffs and timeouts pass.
- None for clients.

`JobsSettle` and `DrainReleasesSeats` assume besides that the supervisor stays in
its loop from some moment on and that maintenance mode is off, or on, for good.

## The proofs

Model checking shows a property for the instances above; these theorems hold for
any number of jobs, workers, models, parameters, requests and users. Their only
assumptions are the named `ASSUME`s on constants. They are as weak as the code
justifies, and TLC evaluates them in the runs.

- **JobQueueProofs.** `QueueTypeCorrect`, `ClaimsAreBounded`, `QueueIsFair`. The
  cap on `attempt` is `CapInv`: the attempts of a job and the retries of it that have been
  granted and not yet written stay together below the cap. Who reads an `attempt`
  below `max_attempts` finds room for one more, since all other reclaimers together may be about to
  add one each (`ReadKeepsCap`), and what is written is one less to come
  (`ReclaimKeepsCap`). The cap on claims needs the link between `claims` and
  `attempt`: a job is claimable only when it is queued, and then it has been claimed
  fewer times than its `attempt`, whoever wrote the row last. The order needs a fact
  of the claims themselves: a row that is chosen has no eligible one in front, and a
  row that waits for a retry has been claimed before. It needs nothing of the clock.
- **WorkerPoolProofs.** Three inductive invariants, and what each gives.

  `PoolInv`, as long as no lost supervisor is replaced: who lives was spawned by the
  present supervisor and is in `_procs` (`AliveInv`); the row of a job being executed
  says running and names its worker (`RunInv`); a job on the supervisor's stale
  list has not been requeued since, and only the worker listed with it can be
  executing it (`RowsInv`); the job whose worker was just killed is executed by
  nobody (`ReclaimInv`); `AttemptsCountClaims`. `RowsInv` is the heart: the writes of the
  supervisor look at no status, and are right only because what it knows, though
  stale, has not become wrong in that one way. From it follow `NothingLeaks`,
  `ExecutionIsExclusive`, `AttemptsAreExecutions`, `ReclaimIsSafe`,
  `PoolRefinesDispatch` (initial states map to initial states of `JobDispatch`,
  and every step to a step of it or to a stutter) and `CancellationIsFinal`. These
  six assume `~RestartAfterLoss`. `pool_stray` shows that `ReclaimIsSafe` fails
  without it; a cancelled job can then be marked done by a stray worker, too.

  `OwnInv`, without that condition: the same facts about the processes that the
  *present* supervisor has spawned, whatever strays of an earlier one claim and
  write under the same ids. Of the status of an executed job it keeps only that the
  job was not requeued (`ClaimedStatuses`), because a stray may settle the row
  of a job that is no longer its own. It yields `OwnWorkersExcludeEachOther` and
  `OwnReclaimIsSafe`, what is left of exclusive execution and of safe reclaiming,
  and `ReclaimsSpendOneRetry`: a job that is back in the queue or cancelled is never
  reclaimed, for nobody but the supervisor requeues. The docstring of
  `requeue_or_fail` promises more, and `pool_reclaim` shows that it is too much.

  `TouchedInv`, also without: whatever a process may yet settle or reclaim has been
  claimed. With it `PoolRefinesQueue` shows that the pool implements `QueueSpec`,
  and the theorems of the queue become theorems of the pool: `PoolCapsAttempts`,
  `AttemptsCoverExecutions` and `PoolServesInOrder` hold whatever becomes of the
  supervisors. `PoolCapsAttempts` says `max_attempts` itself, because
  `SupervisorAssumption` makes the supervisor the only reclaimer (`CapOfPool`).

  `DrainIsPrompt` rests on `DrainInv`: no process that is past the check has made
  a claim since the drain.
- **ModelSessionProofs.** `SessionTypeCorrect`, `JobsAreSolvedAsAsked` from
  `SessionInv` (what each step of `process_one` has established so far) and
  `MeshSkipIsSafe` from `MeshInv` (while nothing has failed, the mesh is that of the
  present geometry parameters and `_last_params` tells their values). The lemma
  `NoRebuildKeepsShape` is the argument behind the shortcut.
- **ModelRegistryProofs.** `RegistryTypeCorrect`, `JobsKeepTheirModels` and
  `BatchesStayWhole` from `SubmissionInv`: after the first insertion the foreign
  key holds the model in place for the rest of the batch. `FilesOutlastRows` from
  `FilesInv` (files come before the row and go after it), `ModelsStayWithTheirOwners`
  from `OwnersInv` (who was let in may still manage the model when the row is
  touched), `FilesAreThoseOfTheRow` from `ContentsInv`. Each of the last three
  holds for a model as long as its `overlap` is without the events it names.
- **MphSessionProofs.** `MphImplementsSession`: every step with the real backend is
  a step of `ModelSession` or a stutter, so its theorems carry over
  (`MphSolvesAsAsked`, `MphMeshSkipIsSafe`, `MphSessionTypeCorrect`). `JobsReadTheirOwnSolve` rests on `SweepStateInv` (once
  `configure_sweep` or `disable_sweep` has returned, node and flag are as the job
  wants them, whatever was left half-done before) and on `DatasetInv` and
  `EvaluatedInv` (what the solve has written is what is read).
  `ValuesAreWithinManifest` rests on `JobIsAccepted`, `ParamsInv` (what stays in a
  loaded model was accepted for that model) and `MphDimensionAssumption`: a
  parameter that a manifest calls dimensionless is so in the file. Nothing in
  the code can check that; without it a bare number has another meaning than the
  one its range was written for.
- **ModelVersionsProofs.** `VersionsImplementRegistry`: with workers and supervisors
  around it, the registry still does what `ModelRegistry` says, so its invariants
  carry over (`VersionsKeepTheRegistry`).
  `LoadsAreOfOneUpload` from `LoadInv` (between the two reads of a load, row and file
  are of one upload if none goes on) and `JobsRunAsTheyWereChecked` from
  `VersionInv` (as long as no upload goes on while the model is in use, all copies
  are of the registered version). `UsesInv` links the copies to jobs, and these to
  the foreign key that keeps the row.
- **SweepResultsProofs.** `ResultsInvariant`: only one job is in its loops
  (`OneAtATime`); its arrays fit it and the mode picked is its point's
  (`LoopInOrder`); an execution has inserted what its loops have passed, once
  (`RowsInOrder`, `SelectionsInOrder`). `FinishedJobsHaveTheirRows` counts rows by
  the execution that wrote them, an injection into `1 .. attempt`.
  `RowsAreOfTheirPoints` rests on lemmas about the pure functions, for arrays of any
  length: `SliceOfPoint` (a slice holds the values of its point),
  `NearestIndexIsFirstNearest`, and `OneTooMany` (an array with one value too many
  divides among several points for no number of modes).

- **BatchDatasetProofs.** `DatasetMatchesInAnyOrder`, on top of `ResultsInvariant`:
  a finished job has a row of its present execution for every output and point
  (`RowsInOrder`), so each cell has a last row, and if no earlier execution has written
  there it is of the present one. `RowOverwrites` says whose column survives when
  names clash. That the suffix `__imag` tells two outputs apart is
  `ColumnsAssumption`: the provers know nothing about concatenated strings, and TLC
  checks it for the names of the run.

Only model-checked: the liveness properties `JobsSettle` and `DrainReleasesSeats`,
which are beyond the prover, and the violations. Every invariant, action property and
refinement that a passing run checks is also a theorem.

## Not modelled

- *Accounts and sessions*, password hashing, HTML, CSV and JSON text,
  configuration, the license probes and exploration scripts in `tools/`: input
  and output, or no state that others depend on. The table of web sessions has
  state, but its operations are single statements keyed by a random token, and
  no two requests meet in a row except through deletion.
- *Parts of the manifest*: `resolve_outputs`, a look-up that raises for unknown names,
  and the validator of `mode_selection`, which relates no state.
- *Parts of the backend*: `_classify`, which sorts messages by keywords, and `export`,
  which the worker never calls.
- *COMSOL.* The backend is its effect on the model, success or an exception.
  Whether a sweep can lose a point is not known from the repository; if enough
  are lost that the rest divides, the slices shift unnoticed. Nor is it known
  which of two parametric datasets COMSOL solves into when the file brings one;
  `Solved` allows both and `EvaluatesOwnSolve` excepts such files.
- *Error classes.* Every failure is final in the models, as in the code.
- *The command line*: a worker started by hand (`simserver worker`), which no
  supervisor knows, and `register-model`, which writes a row for a file that is
  elsewhere. `enqueue` is the submission of `JobQueue`.
- *Details*: a clock that steps back while a backoff or a timeout runs; a kill whose wait times out; a second
  interrupt during shutdown; what `DELETE /jobs/{id}` answers when the job is
  claimed between its read and its update; the migration of an older database.

## The plan

Done, in this order: `JobQueue`, `JobDispatch`, `WorkerPool`, `ModelSession`,
`ModelRegistry` with their proofs, `SweepResults`; then `ManifestRules` and
`MphSession`, `ModelVersions`, `BatchDataset`, and the proofs of these and of
`SweepResults`; then the pool as an implementation of the queue, and what of the
pool survives a lost supervisor.

Next, the most important first:

1. Proofs: the safety half of `DrainReleasesSeats`, that during a drain the number
   of workers does not grow once the supervisor has passed its check.
2. A worker outside the supervisor, in `WorkerPool`: what reclaiming by worker
   id means for it.
3. What clients are told: the reply of `DELETE /jobs/{id}`, and the reads of
   queue and batch while jobs change under them.
4. Web sessions: expiry, logout and deletion with overlapping requests.
