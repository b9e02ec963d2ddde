------------------------------ MODULE WorkerPool ------------------------------
(***************************************************************************)
(* The processes around the jobs table: the workers (worker.py), the       *)
(* supervisor that spawns, polls, times out and replaces them              *)
(* (supervisor.py), and the clients that enqueue, cancel, drain and resume *)
(* (api.py, web.py, cli.py). They share nothing but the database and the   *)
(* operating system's view of who is alive.                                *)
(*                                                                         *)
(* A step ends where another process can see or change something: at each  *)
(* SQL statement and each spawn, poll or kill. What the supervisor read    *)
(* before such a point it keeps in visit, rows, cur or reclaims and uses   *)
(* stale.                                                                  *)
(*                                                                         *)
(* As in JobQueue, a definition whose name begins with Bug is a slip in    *)
(* the one after it that some property must notice.                        *)
(***************************************************************************)
EXTENDS JobQueue

CONSTANTS MaxCrashes,       \* bound: workers that die on their own
          MaxRestarts,      \* bound: supervisors started after the first one
          RestartAfterLoss, \* a supervisor lost without shutdown is replaced too
          Supervisor        \* the supervisor, as a caller of requeue_or_fail

ASSUME PoolBoundsAssumption ==
    /\ MaxCrashes \in Nat
    /\ MaxRestarts \in Nat
    /\ RestartAfterLoss \in BOOLEAN

\* One supervisor at a time, and nobody else calls requeue_or_fail.
ASSUME SupervisorAssumption == Reclaimers = {Supervisor}

VARIABLES
    maintenance,  \* admin_state: maintenance_mode is 'on'
    pc,           \* where each worker process stands, "dead" when there is none
    held,         \* the job a worker's process_one has claimed
    loaded,       \* a worker's _loaded_model_id
    supPc,        \* where the supervisor stands
    procs,        \* the keys of the supervisor's _procs
    visit,        \* worker ids the supervisor's current loop has still to visit
    rows,         \* <<job, worker>> rows of the list_running_jobs it iterates over
    cur,          \* the job of the row whose worker it has just killed
    crashes,      \* workers that have died on their own
    restarts,     \* supervisors started after the first one
    lateClaims    \* history: claims of each process since the last drain

\* A worker process, by its worker id and the supervisor that spawned it: the
\* ids worker-1, worker-2, ... are the same ones for every supervisor.
Process == Workers \X (0..MaxRestarts)

workerVars == <<pc, held, loaded>>
supVars == <<supPc, procs, visit, rows, cur, reclaims, restarts>>
vars == <<jobs, claims, maintenance, workerVars, supVars, crashes, lateClaims>>

\* "check": about to read maintenance_mode in claim_next_job; "claim": has read
\* it off; "run": in the try block of process_one; "ran" and "idle": back in
\* run_forever with processed True and False.
WorkerPcs == {"dead", "check", "claim", "run", "ran", "idle"}

LoopPcs == {"poll", "reconcile", "watch", "reclaim", "topup", "spawn", "sleep"}

\* "gone": the supervisor has ended without shutdown().
SupPcs == LoopPcs \cup {"start", "grace", "stopping", "stopped", "gone"}

\* The processes' program counters and local data.
PoolTypeOK ==
    /\ QueueTypeOK
    /\ maintenance \in BOOLEAN
    /\ pc \in [Process -> WorkerPcs]
    /\ held \in [Process -> Jobs \cup {Nil}]
    /\ loaded \in [Process -> Models \cup {Nil}]
    /\ supPc \in SupPcs
    /\ procs \subseteq Workers
    /\ visit \subseteq Workers
    /\ rows \subseteq Jobs \X Workers
    /\ cur \in Jobs \cup {Nil}
    /\ crashes \in 0..MaxCrashes
    /\ restarts \in 0..MaxRestarts
    /\ lateClaims \in [Process -> Nat]

Init ==
    /\ QueueInit
    /\ maintenance = FALSE
    /\ pc = [p \in Process |-> "dead"]
    /\ held = [p \in Process |-> Nil]
    /\ loaded = [p \in Process |-> Nil]
    /\ supPc = "start" /\ procs = {} /\ visit = Workers /\ rows = {} /\ cur = Nil
    /\ crashes = 0 /\ restarts = 0
    /\ lateClaims = [p \in Process |-> 0]

BugGetMaintenanceMode == FALSE

get_maintenance_mode == maintenance

Alive(p) == pc[p] # "dead"

\* The process behind _procs[w].
Proc(w) == <<w, restarts>>

\* What is left of a process when it ends: its memory is lost, its row stays.
Ends(p) ==
    /\ pc' = [pc EXCEPT ![p] = "dead"]
    /\ held' = [held EXCEPT ![p] = Nil]
    /\ loaded' = [loaded EXCEPT ![p] = Nil]

-----------------------------------------------------------------------------
(* The worker.                                                              *)

WorkerUnchanged == UNCHANGED <<maintenance, supVars, crashes>>

\* claim_next_job reads maintenance_mode in a statement of its own, before the
\* claiming transaction begins.
CheckMaintenance(p) ==
    /\ pc[p] = "check"
    /\ pc' = [pc EXCEPT ![p] = IF get_maintenance_mode THEN "idle" ELSE "claim"]
    /\ UNCHANGED <<jobs, claims, held, loaded, lateClaims>>
    /\ WorkerUnchanged

\* The claiming transaction of claim_next_job returns a row.
ClaimJob(p, j) ==
    /\ pc[p] = "claim"
    /\ Claim(p[1], loaded[p], j)
    /\ pc' = [pc EXCEPT ![p] = "run"]
    /\ held' = [held EXCEPT ![p] = j]
    /\ lateClaims' = [lateClaims EXCEPT ![p] = IF maintenance THEN @ + 1 ELSE @]
    /\ UNCHANGED loaded
    /\ WorkerUnchanged

\* ... or no row.
ClaimNothing(p) ==
    /\ pc[p] = "claim"
    /\ Eligible = {}
    /\ pc' = [pc EXCEPT ![p] = "idle"]
    /\ UNCHANGED <<jobs, claims, held, loaded, lateClaims>>
    /\ WorkerUnchanged

\* process_one reaches mark_done: the held job's model is the loaded one.
FinishJob(p) ==
    /\ pc[p] = "run"
    /\ MarkDone(held[p])
    /\ pc' = [pc EXCEPT ![p] = "ran"]
    /\ held' = [held EXCEPT ![p] = Nil]
    /\ loaded' = [loaded EXCEPT ![p] = jobs[held[p]].model]
    /\ UNCHANGED lateClaims
    /\ WorkerUnchanged

\* The try block raises and an except branch runs mark_failed, whatever the
\* error class; _loaded_model_id has changed only if the load succeeded.
FailJob(p) ==
    /\ pc[p] = "run"
    /\ MarkFailed(held[p])
    /\ pc' = [pc EXCEPT ![p] = "ran"]
    /\ held' = [held EXCEPT ![p] = Nil]
    /\ \E m \in {loaded[p], jobs[held[p]].model} : loaded' = [loaded EXCEPT ![p] = m]
    /\ UNCHANGED lateClaims
    /\ WorkerUnchanged

\* run_forever after process_one: exit in maintenance mode, exit when the RSS
\* threshold is reached (only after a job), or go round again.
LoopAgain(p) ==
    /\ pc[p] \in {"ran", "idle"}
    /\ ~get_maintenance_mode
    /\ pc' = [pc EXCEPT ![p] = "check"]
    /\ UNCHANGED <<jobs, claims, held, loaded, lateClaims>>
    /\ WorkerUnchanged

ExitForMaintenance(p) ==
    /\ pc[p] \in {"ran", "idle"}
    /\ get_maintenance_mode
    /\ Ends(p)
    /\ UNCHANGED <<jobs, claims, lateClaims>>
    /\ WorkerUnchanged

Recycle(p) ==
    /\ pc[p] = "ran"
    /\ ~get_maintenance_mode
    /\ Ends(p)
    /\ UNCHANGED <<jobs, claims, lateClaims>>
    /\ WorkerUnchanged

\* The process dies on its own: a crash of Python or COMSOL, an exception
\* outside the try block, a kill from outside.
WorkerDies(p) ==
    /\ Alive(p)
    /\ crashes < MaxCrashes
    /\ crashes' = crashes + 1
    /\ Ends(p)
    /\ UNCHANGED <<jobs, claims, maintenance, supVars, lateClaims>>

-----------------------------------------------------------------------------
(* The supervisor.                                                          *)

SupervisorUnchanged == UNCHANGED <<maintenance, crashes, lateClaims>>
TableUnchanged == UNCHANGED <<jobs, claims, reclaims>>

Spawn(w) ==
    /\ pc' = [pc EXCEPT ![Proc(w)] = "check"]
    /\ held' = [held EXCEPT ![Proc(w)] = Nil]
    /\ loaded' = [loaded EXCEPT ![Proc(w)] = Nil]
    /\ procs' = procs \cup {w}

\* start(): the workers are brought up one at a time; visit holds those to come
\* and the one in its grace period is the one in both visit and procs.
StartSpawn(w) ==
    /\ supPc = "start" /\ w \in visit
    /\ Spawn(w)
    /\ supPc' = "grace"
    /\ UNCHANGED <<visit, rows, cur, restarts>> /\ TableUnchanged /\ SupervisorUnchanged

GraceOver(w) ==
    /\ supPc = "grace" /\ w \in visit \cap procs
    /\ visit' = visit \ {w}
    /\ supPc' = "start"
    /\ UNCHANGED <<procs, rows, cur, restarts, workerVars>>
    /\ TableUnchanged /\ SupervisorUnchanged

\* WorkerStartupError, and any signal or exception before run_forever's try
\* statement: the supervisor ends and nobody kills the workers it started.
StartAborts ==
    /\ supPc \in {"start", "grace"}
    /\ supPc' = "gone" /\ procs' = {} /\ visit' = {}
    /\ UNCHANGED <<rows, cur, restarts, workerVars>>
    /\ TableUnchanged /\ SupervisorUnchanged

StartDone ==
    /\ supPc = "start" /\ visit = {}
    /\ supPc' = "poll" /\ visit' = procs
    /\ UNCHANGED <<procs, rows, cur, restarts, workerVars>>
    /\ TableUnchanged /\ SupervisorUnchanged

\* _poll_workers: proc.poll() of one worker of list(_procs.items()).
PollAlive(w) ==
    /\ supPc = "poll" /\ w \in visit
    /\ Alive(Proc(w))
    /\ visit' = visit \ {w}
    /\ UNCHANGED <<supPc, procs, rows, cur, restarts, workerVars>>
    /\ TableUnchanged /\ SupervisorUnchanged

RunningRows == {<<j, jobs[j].worker>> : j \in {k \in Jobs : Status(k) = "running"}}

BugPollDead(w) ==
    /\ supPc = "poll" /\ w \in visit
    /\ ~Alive(Proc(w))
    /\ visit' = visit \ {w}
    /\ procs' = procs \ {w}
    /\ rows' = RunningRows
    /\ supPc' = "reconcile"
    /\ UNCHANGED <<cur, restarts, workerVars>>
    /\ TableUnchanged /\ SupervisorUnchanged

\* A dead one leaves _procs and _reconcile_dead_worker lists its running jobs.
PollDead(w) ==
    /\ supPc = "poll" /\ w \in visit
    /\ ~Alive(Proc(w))
    /\ visit' = visit \ {w}
    /\ procs' = procs \ {w}
    /\ rows' = {r \in RunningRows : r[2] = w}
    /\ supPc' = "reconcile"
    /\ UNCHANGED <<cur, restarts, workerVars>>
    /\ TableUnchanged /\ SupervisorUnchanged

\* requeue_or_fail reads the attempt of the row in hand: of one on the list of a
\* dead worker, or of the one whose worker was just killed. Its UPDATE comes with
\* Reconcile or WatchReclaim, and anything may happen to the row in between.
BeginReclaim ==
    /\ \/ supPc = "reconcile" /\ \E r \in rows : ReadAttempt(Supervisor, r[1])
       \/ supPc = "reclaim" /\ ReadAttempt(Supervisor, cur)
    /\ UNCHANGED <<supPc, procs, visit, rows, cur, restarts, workerVars>>
    /\ SupervisorUnchanged

FinishReclaim(j) ==
    /\ reclaims[Supervisor].job = j
    /\ RequeueOrFail(Supervisor)

Reconcile(r) ==
    /\ supPc = "reconcile" /\ r \in rows
    /\ FinishReclaim(r[1])
    /\ rows' = rows \ {r}
    /\ UNCHANGED <<supPc, procs, visit, cur, restarts, workerVars>>
    /\ SupervisorUnchanged

ReconcileDone ==
    /\ supPc = "reconcile" /\ rows = {}
    /\ supPc' = "poll"
    /\ UNCHANGED <<procs, visit, rows, cur, restarts, workerVars>>
    /\ TableUnchanged /\ SupervisorUnchanged

\* _check_watchdog reads the clock and the running jobs once; what it will
\* find overdue among them is decided here, whatever happens meanwhile.
WatchBegins ==
    /\ supPc = "poll" /\ visit = {}
    /\ supPc' = "watch"
    /\ rows' = {r \in RunningRows : jobs[r[1]].overdue}
    /\ UNCHANGED <<procs, visit, cur, restarts, workerVars>>
    /\ TableUnchanged /\ SupervisorUnchanged

\* proc is None: not one of ours
WatchSkip(r) ==
    /\ supPc = "watch" /\ r \in rows
    /\ r[2] \notin procs
    /\ rows' = rows \ {r}
    /\ UNCHANGED <<supPc, procs, visit, cur, restarts, workerVars>>
    /\ TableUnchanged /\ SupervisorUnchanged

BugWatchKill(r) ==
    /\ supPc = "watch" /\ r \in rows
    /\ r[2] \in procs
    /\ procs' = procs \ {r[2]}
    /\ rows' = rows \ {r}
    /\ cur' = r[1]
    /\ supPc' = "reclaim"
    /\ UNCHANGED <<visit, restarts, workerVars>>
    /\ TableUnchanged /\ SupervisorUnchanged

\* _kill_process_tree and the deletion from _procs
WatchKill(r) ==
    /\ supPc = "watch" /\ r \in rows
    /\ r[2] \in procs
    /\ Ends(Proc(r[2]))
    /\ procs' = procs \ {r[2]}
    /\ rows' = rows \ {r}
    /\ cur' = r[1]
    /\ supPc' = "reclaim"
    /\ UNCHANGED <<visit, restarts>>
    /\ TableUnchanged /\ SupervisorUnchanged

\* requeue_or_fail of the row's job, whatever its row says by now
WatchReclaim ==
    /\ supPc = "reclaim"
    /\ FinishReclaim(cur)
    /\ cur' = Nil
    /\ supPc' = "watch"
    /\ UNCHANGED <<procs, visit, rows, restarts, workerVars>>
    /\ SupervisorUnchanged

WatchDone ==
    /\ supPc = "watch" /\ rows = {}
    /\ supPc' = "topup"
    /\ UNCHANGED <<procs, visit, rows, cur, restarts, workerVars>>
    /\ TableUnchanged /\ SupervisorUnchanged

BugTopUpCheck ==
    /\ supPc = "topup"
    /\ supPc' = "spawn" /\ visit' = Workers \ procs
    /\ UNCHANGED <<procs, rows, cur, restarts, workerVars>>
    /\ TableUnchanged /\ SupervisorUnchanged

BugTopUpInverted ==
    /\ supPc = "topup"
    /\ IF get_maintenance_mode
         THEN supPc' = "spawn" /\ visit' = Workers \ procs
         ELSE supPc' = "sleep" /\ UNCHANGED visit
    /\ UNCHANGED <<procs, rows, cur, restarts, workerVars>>
    /\ TableUnchanged /\ SupervisorUnchanged

\* _top_up_pool asks for maintenance mode once, before its loop.
TopUpCheck ==
    /\ supPc = "topup"
    /\ IF get_maintenance_mode
         THEN supPc' = "sleep" /\ UNCHANGED visit
         ELSE supPc' = "spawn" /\ visit' = Workers \ procs
    /\ UNCHANGED <<procs, rows, cur, restarts, workerVars>>
    /\ TableUnchanged /\ SupervisorUnchanged

TopUpSpawn(w) ==
    /\ supPc = "spawn" /\ w \in visit
    /\ Spawn(w)
    /\ visit' = visit \ {w}
    /\ UNCHANGED <<supPc, rows, cur, restarts>> /\ TableUnchanged /\ SupervisorUnchanged

TopUpDone ==
    /\ supPc = "spawn" /\ visit = {}
    /\ supPc' = "sleep"
    /\ UNCHANGED <<procs, visit, rows, cur, restarts, workerVars>>
    /\ TableUnchanged /\ SupervisorUnchanged

WakeUp ==
    /\ supPc = "sleep"
    /\ supPc' = "poll" /\ visit' = procs
    /\ UNCHANGED <<procs, rows, cur, restarts, workerVars>>
    /\ TableUnchanged /\ SupervisorUnchanged

\* SIGTERM lets the iteration finish ("sleep"); KeyboardInterrupt and an
\* exception (a locked database, a manifest that does not validate) leave it
\* anywhere. Either way run_forever's finally calls shutdown().
Stop ==
    /\ supPc \in LoopPcs
    /\ supPc' = "stopping" /\ visit' = procs /\ rows' = {} /\ cur' = Nil
    /\ UNCHANGED <<procs, restarts, workerVars>>
    /\ AbandonReclaim(Supervisor) /\ SupervisorUnchanged

ShutdownKill(w) ==
    /\ supPc = "stopping" /\ w \in visit
    /\ Ends(Proc(w))
    /\ visit' = visit \ {w}
    /\ UNCHANGED <<supPc, procs, rows, cur, restarts>>
    /\ TableUnchanged /\ SupervisorUnchanged

BugShutdownDone ==
    /\ supPc = "stopping"
    /\ supPc' = "stopped" /\ procs' = {} /\ visit' = {}
    /\ UNCHANGED <<rows, cur, restarts, workerVars>>
    /\ TableUnchanged /\ SupervisorUnchanged

ShutdownDone ==
    /\ supPc = "stopping" /\ visit = {}
    /\ supPc' = "stopped" /\ procs' = {}
    /\ UNCHANGED <<visit, rows, cur, restarts, workerVars>>
    /\ TableUnchanged /\ SupervisorUnchanged

\* The supervisor is killed from outside and runs no finally clause.
SupervisorKilled ==
    /\ supPc \in LoopPcs \cup {"stopping"}
    /\ supPc' = "gone" /\ procs' = {} /\ visit' = {} /\ rows' = {} /\ cur' = Nil
    /\ UNCHANGED <<restarts, workerVars>>
    /\ AbandonReclaim(Supervisor) /\ SupervisorUnchanged

\* A new supervisor process on the same database. It does not look for rows or
\* processes an earlier one has left.
Restart ==
    /\ supPc = "stopped" \/ (supPc = "gone" /\ RestartAfterLoss)
    /\ restarts < MaxRestarts
    /\ restarts' = restarts + 1
    /\ supPc' = "start" /\ visit' = Workers
    /\ UNCHANGED <<procs, rows, cur, workerVars>>
    /\ TableUnchanged /\ SupervisorUnchanged

-----------------------------------------------------------------------------
(* The clients and the clock.                                               *)

ClientUnchanged == UNCHANGED <<workerVars, supVars, crashes>>

\* POST /jobs, the web form, the CLI; POST /batches is a sequence of these.
Submit(j) ==
    /\ \E m \in Models, p \in Priorities, s \in Seconds : Enqueue(j, m, p, s)
    /\ UNCHANGED <<maintenance, lateClaims>> /\ ClientUnchanged

\* Bug: a job is taken back although a worker has it.
BugCancelQueued(j) ==
    /\ Status(j) \in {"queued", "running"}
    /\ jobs' = [jobs EXCEPT ![j].status = "cancelled"]
    /\ UNCHANGED <<claims, maintenance, lateClaims>> /\ ClientUnchanged

\* DELETE /jobs/{id}
CancelQueued(j) ==
    /\ CancelJob(j)
    /\ UNCHANGED <<maintenance, lateClaims>> /\ ClientUnchanged

\* POST /admin/drain
Drain ==
    /\ ~maintenance
    /\ maintenance' = TRUE
    /\ lateClaims' = [p \in Process |-> 0]
    /\ TableUnchanged /\ ClientUnchanged

\* POST /admin/resume
Resume ==
    /\ maintenance
    /\ maintenance' = FALSE
    /\ lateClaims' = [p \in Process |-> 0]
    /\ TableUnchanged /\ ClientUnchanged

BackoffOver(j) ==
    /\ BackoffElapses(j)
    /\ UNCHANGED <<maintenance, lateClaims>> /\ ClientUnchanged

TimesOut(j) ==
    /\ TimeoutElapses(j)
    /\ UNCHANGED <<maintenance, lateClaims>> /\ ClientUnchanged

-----------------------------------------------------------------------------

\* Steps a live worker takes by itself; a solve may run forever, so FinishJob
\* and FailJob are not among them.
WorkerLoop(p) ==
    \/ CheckMaintenance(p)
    \/ \E j \in Jobs : ClaimJob(p, j)
    \/ ClaimNothing(p)
    \/ LoopAgain(p)
    \/ ExitForMaintenance(p)

WorkerStep(p) ==
    \/ WorkerLoop(p)
    \/ FinishJob(p)
    \/ FailJob(p)
    \/ Recycle(p)
    \/ WorkerDies(p)

\* Steps the supervisor takes by itself.
SupervisorLoop ==
    \/ \E w \in Workers : \/ StartSpawn(w)
                          \/ GraceOver(w)
                          \/ PollAlive(w)
                          \/ PollDead(w)
                          \/ TopUpSpawn(w)
                          \/ ShutdownKill(w)
    \/ \E r \in rows : Reconcile(r) \/ WatchSkip(r) \/ WatchKill(r)
    \/ StartDone
    \/ BeginReclaim
    \/ ReconcileDone
    \/ WatchBegins
    \/ WatchReclaim
    \/ WatchDone
    \/ TopUpCheck
    \/ TopUpDone
    \/ WakeUp
    \/ ShutdownDone

SupervisorStep ==
    \/ SupervisorLoop
    \/ StartAborts
    \/ Stop
    \/ SupervisorKilled
    \/ Restart

ClientStep ==
    \/ \E j \in Jobs : Submit(j) \/ CancelQueued(j)
    \/ Drain
    \/ Resume

ClockStep == \E j \in Jobs : BackoffOver(j) \/ TimesOut(j)

Next ==
    \/ \E p \in Process : WorkerStep(p)
    \/ SupervisorStep
    \/ ClientStep
    \/ ClockStep

Spec == Init /\ [][Next]_vars

Fairness ==
    /\ \A p \in Process : WF_vars(WorkerLoop(p))
    /\ WF_vars(SupervisorLoop)
    /\ \A j \in Jobs : WF_vars(BackoffOver(j)) /\ WF_vars(TimesOut(j))

FairSpec == Spec /\ Fairness

-----------------------------------------------------------------------------
(* Safety.                                                                  *)

\* No job is executed by two workers, and none by a worker its row does not
\* name: whatever the supervisor reclaimed from a snapshot that may be stale,
\* the row of a job in process_one still says running, and by this worker.
ExclusiveExecution ==
    /\ \A p \in Process :
          pc[p] = "run" => /\ Status(held[p]) = "running"
                           /\ jobs[held[p]].worker = p[1]
    /\ \A p, q \in Process :
          pc[p] = "run" /\ pc[q] = "run" /\ held[p] = held[q] => p = q

\* The attempt column counts executions exactly: a retry is spent only on an
\* execution that was really begun, so no job is failed for "attempts
\* exhausted" before it has had max_attempts of them.
AttemptsCountClaims ==
    \A j \in Jobs :
        claims[j] = IF Status(j) \in {"running", "done", "failed"}
                      THEN jobs[j].attempt
                      ELSE jobs[j].attempt - 1

\* A living worker is in _procs, where polls, watchdog and shutdown find it;
\* so a supervisor that has shut down leaves none behind (the comment in
\* run_forever). The exception is a supervisor that is itself lost.
NoLeakedWorker ==
    \A p \in Process :
        Alive(p) => (p[1] \in procs /\ p[2] = restarts) \/ supPc = "gone"

\* A drain lets each worker begin at most one more job: the one whose claim
\* was already past the check. That holds across deaths and respawns.
DrainAllowsOneMoreJob == \A p \in Process : lateClaims[p] <= 1

\* The processes that execute j.
RunnersOf(j) == {p \in Process : pc[p] = "run" /\ held[p] = j}

\* A job is taken from a worker only when no process executes it any more
\* (requeue_or_fail's docstring: left behind "by a dead or watchdog-killed
\* worker").
ReclaimsOnlyAbandoned ==
    [][\A j \in Stored : jobs'[j].attempt > jobs[j].attempt => RunnersOf(j) = {}]_vars

\* Those of them that the present supervisor has spawned.
OwnRunnersOf(j) == {p \in RunnersOf(j) : p[2] = restarts}

\* The two properties above once more, for what remains of them when a lost
\* supervisor has been replaced and its workers still claim and write: the
\* workers of the present one do not share a job, and it takes none from them.
OwnExecutionIsExclusive == \A j \in Jobs : \A p, q \in OwnRunnersOf(j) : p = q

OwnJobsAreNotReclaimed ==
    [][\A j \in Stored :
          jobs'[j].attempt > jobs[j].attempt => OwnRunnersOf(j) = {}]_vars

\* A job that is reclaimed may have been settled meanwhile, but it is not back in
\* the queue and was not cancelled: no retry is spent twice, and none revives what
\* a client has taken back (supervisor.py:158-180, queue.py:243-270).
ReclaimsOnlyClaimed ==
    [][\A j \in Stored :
          jobs'[j].attempt > jobs[j].attempt
              => Status(j) \in {"running", "done", "failed"}]_vars

\* A cancellation is final: no late write and no requeue brings the job back,
\* and nobody executes it, then or ever after.
CancelledStaysCancelled ==
    [][\A j \in Jobs : Status(j) = "cancelled" =>
          Status(j)' = "cancelled" /\ RunnersOf(j)' = {} /\ claims'[j] = claims[j]]_vars

\* The pool implements the abstract dispatcher: crashes, kills, shutdowns,
\* retries and races included, every step starts or ends one run of one job,
\* withdraws a job nobody runs, or is invisible.
Dispatch == INSTANCE JobDispatch WITH
    Workers   <- Process,
    runners   <- [j \in Jobs |-> RunnersOf(j)],
    runs      <- claims,
    withdrawn <- {j \in Jobs : Status(j) = "cancelled"}

ImplementsDispatch == Dispatch!DispatchSpec

\* The processes are such callers as JobQueue assumes. It gives them much leave:
\* to write late, twice and to rows of others. What it asks is that a row is
\* settled or reclaimed only if it was claimed at some time, and it goes for
\* process_one's job, for every row of a stale list, and for the job of a worker
\* that was killed (worker.py:116-192, supervisor.py:164-180).
ImplementsQueue == QueueSpec

-----------------------------------------------------------------------------
(* The inductive invariant behind the safety properties, in named parts. It *)
(* holds as long as no supervisor is replaced after it was lost.            *)

\* The statuses of a row between a claim and the next requeue.
ClaimedStatuses == {"running", "done", "failed"}

\* A running row names a worker, and a row not yet inserted has its defaults.
RowsWellFormed ==
    \A j \in Jobs : /\ Status(j) = "running" => jobs[j].worker \in Workers
                    /\ Status(j) = "absent" => jobs[j].attempt = 1

\* A process in process_one's try block has a job, and a supervisor that has
\* killed a worker has the job it was killed for.
HoldsAJob ==
    /\ \A p \in Process : pc[p] = "run" => held[p] \in Jobs
    /\ supPc = "reclaim" => cur \in Jobs

\* Whoever lives was spawned by the present supervisor, which still knows it.
AliveInv ==
    /\ \A p \in Process :
          Alive(p) => p[2] = restarts /\ (p[1] \in procs \/ supPc = "gone")
    /\ supPc = "stopped" => procs = {}
    /\ supPc = "stopping" => \A w \in procs \ visit : ~Alive(Proc(w))

\* The row of a job being executed names its worker.
RunInv ==
    \A p \in Process :
        pc[p] = "run" => /\ Status(held[p]) = "running"
                         /\ jobs[held[p]].worker = p[1]

\* However stale the supervisor's list of rows is, a job on it has not been
\* requeued since, and nobody but the worker listed with it can execute it.
RowsInv ==
    /\ \A r \in rows : Status(r[1]) \in ClaimedStatuses
    /\ \A r \in rows, p \in Process : pc[p] = "run" /\ held[p] = r[1] => p[1] = r[2]
    /\ \A r, t \in rows : r[1] = t[1] => r = t
    /\ supPc = "reconcile" => \A r \in rows : ~Alive(Proc(r[2]))

\* The job of the worker just killed is executed by nobody, not requeued, and
\* not on the list a second time.
ReclaimInv ==
    supPc = "reclaim" => /\ Status(cur) \in ClaimedStatuses
                         /\ \A p \in Process : ~(pc[p] = "run" /\ held[p] = cur)
                         /\ \A r \in rows : r[1] # cur

PoolInv ==
    /\ AliveInv
    /\ RunInv
    /\ RowsInv
    /\ ReclaimInv
    /\ AttemptsCountClaims

\* PoolInv as far as it does not depend on how supervisors end: the processes
\* an earlier supervisor has left are not among those it speaks of, except that
\* they can only settle a row or claim a queued one.
OwnRunInv ==
    \A p \in Process :
        /\ Alive(p) => p[2] <= restarts
        /\ pc[p] = "run" /\ p[2] = restarts
             => Status(held[p]) \in ClaimedStatuses /\ jobs[held[p]].worker = p[1]

OwnRowsInv ==
    /\ \A r \in rows : Status(r[1]) \in ClaimedStatuses
    /\ \A r \in rows, p \in Process :
          pc[p] = "run" /\ p[2] = restarts /\ held[p] = r[1] => p[1] = r[2]
    /\ \A r, t \in rows : r[1] = t[1] => r = t
    /\ supPc = "reconcile" => \A r \in rows : ~Alive(Proc(r[2]))

OwnReclaimInv ==
    supPc = "reclaim" => /\ Status(cur) \in ClaimedStatuses
                         /\ OwnRunnersOf(cur) = {}
                         /\ \A r \in rows : r[1] # cur

OwnInv ==
    /\ OwnRunInv
    /\ OwnRowsInv
    /\ OwnReclaimInv

\* Every job that some process may yet settle or reclaim has been claimed.
TouchedInv ==
    /\ \A p \in Process : pc[p] = "run" => claims[held[p]] > 0
    /\ \A r \in rows : claims[r[1]] > 0
    /\ supPc = "reclaim" => claims[cur] > 0

\* No process is past the check of maintenance mode and has also made a claim
\* since the drain.
DrainInv ==
    \A p \in Process :
        /\ ~maintenance => lateClaims[p] = 0
        /\ pc[p] = "claim" => lateClaims[p] = 0
        /\ lateClaims[p] <= 1

-----------------------------------------------------------------------------
(* Liveness, once the supervisor stays in its loop for good.                *)

Up == supPc \in LoopPcs

Settled(j) == Status(j) \in {"done", "failed", "cancelled"}

\* With maintenance mode off for good no queued job waits forever: hung
\* solves, dead workers and jobs an earlier supervisor left running are all
\* worked off within the bounded attempts.
JobsSettle ==
    (<>[]Up /\ <>[](~maintenance)) =>
        \A j \in Jobs : Status(j) = "queued" ~> Settled(j)

\* With maintenance mode on for good every worker process exits and none
\* comes back, also when a solve hangs or a spawn raced with the drain: the
\* license seats become free and stay free.
DrainReleasesSeats ==
    (<>[]Up /\ <>[]maintenance) => <>[](\A p \in Process : ~Alive(p))

-----------------------------------------------------------------------------
(* What comments and docstrings say and the code does not do.               *)

\* queue.py, requeue_or_fail: "Reclaim a job left 'running' by a dead or
\* watchdog-killed worker". Each step that reclaims a job finds it running.
ReclaimsOnlyRunning ==
    [][\A j \in Stored :
          jobs'[j].attempt > jobs[j].attempt => Status(j) = "running"]_vars

\* api.py, admin_drain: "Poll GET /queue's "running" list to see when the seat
\* is actually clear". If the drain lasts and the supervisor stays up, the
\* list becomes empty and stays so.
DrainClearsRunningList ==
    (<>[]Up /\ <>[]maintenance) => <>[](\A j \in Jobs : Status(j) # "running")

=============================================================================
