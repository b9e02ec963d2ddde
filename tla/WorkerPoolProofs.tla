--------------------------- MODULE WorkerPoolProofs ---------------------------
(***************************************************************************)
(* The safety of the worker pool, for every set of jobs, models and        *)
(* workers, any number of crashes and restarts and every max_attempts.     *)
(***************************************************************************)
EXTENDS WorkerPool, JobQueueProofs

LEMMA ProcessFacts ==
    /\ \A p \in Process : p[1] \in Workers /\ p[2] \in 0..MaxRestarts
    /\ restarts \in 0..MaxRestarts => \A w \in Workers : Proc(w) \in Process
    /\ \A w : Proc(w)[1] = w /\ Proc(w)[2] = restarts
    /\ \A p \in Process : p[2] = restarts => p = Proc(p[1])
BY DEF Process, Proc

-----------------------------------------------------------------------------
(* Types.                                                                   *)

TypeInv == PoolTypeOK /\ CapInv /\ RowsWellFormed /\ HoldsAJob

\* A pool has one reclaimer, so what it reads of attempt is not overtaken.
LEMMA CapOfPool == AttemptCap = MaxAttempts
<1>1. Cardinality(Reclaimers) = 1
  BY SupervisorAssumption, FS_Singleton
<1> QED
  BY <1>1, BoundsAssumption DEF AttemptCap

LEMMA SupervisorReclaims == Supervisor \in Reclaimers
BY SupervisorAssumption

\* A running row gets its worker in the claim and keeps it while it runs; no
\* statement brings a row back to its state before the INSERT.
LEMMA RowsStayWellFormed ==
    ASSUME QueueTypeOK, CapInv, RowsWellFormed, NEW j \in Jobs,
           \/ MarkDone(j) \/ MarkFailed(j) \/ CancelJob(j)
           \/ BackoffElapses(j) \/ TimeoutElapses(j)
           \/ \E w \in Workers, m \in Models \cup {Nil} : Claim(w, m, j)
           \/ \E m \in Models, q \in Priorities, s \in Seconds : Enqueue(j, m, q, s)
    PROVE  RowsWellFormed' /\ CapInv'
<1>c. CapInv'
  BY StatementKeepsCap
<1> SUFFICES RowsWellFormed'
  BY <1>c
<1> USE DEF RowsWellFormed, QueueTypeOK, Row, Status
<1>1. CASE MarkDone(j) \/ MarkFailed(j)
  BY <1>1 DEF MarkDone, MarkFailed, SetSettled
<1>2. CASE CancelJob(j)
  BY <1>2 DEF CancelJob
<1>3. CASE BackoffElapses(j) \/ TimeoutElapses(j)
  BY <1>3 DEF BackoffElapses, TimeoutElapses
<1>4. ASSUME NEW w \in Workers, NEW m, Claim(w, m, j) PROVE RowsWellFormed'
  BY <1>4 DEF Claim
<1>5. ASSUME NEW m, NEW q, NEW s, Enqueue(j, m, q, s) PROVE RowsWellFormed'
  BY <1>5 DEF Enqueue, NoRow
<1> QED
  BY <1>1, <1>2, <1>3, <1>4, <1>5

\* requeue_or_fail's second statement, of the job it was called for.
LEMMA PoolReclaimEffect ==
    ASSUME QueueTypeOK, NEW j \in Jobs, FinishReclaim(j)
    PROVE  /\ \/ /\ jobs'[j].status = "queued"
                 /\ jobs'[j].attempt = jobs[j].attempt + 1
              \/ /\ jobs'[j].status = "failed"
                 /\ jobs'[j].attempt = jobs[j].attempt
           /\ \A i \in Jobs \ {j} : jobs'[i] = jobs[i]
           /\ claims' = claims
BY SupervisorReclaims, ReclaimEffect DEF FinishReclaim

LEMMA PoolReclaimTyping ==
    ASSUME QueueTypeOK, CapInv, RowsWellFormed, NEW j \in Jobs, FinishReclaim(j)
    PROVE  QueueTypeOK' /\ CapInv' /\ RowsWellFormed'
<1>1. QueueTypeOK' /\ CapInv'
  BY SupervisorReclaims, ReclaimTyping, ReclaimKeepsCap DEF FinishReclaim
<1>2. RowsWellFormed'
  BY DEF FinishReclaim, RequeueOrFail, SetQueued, SetSettled, RowsWellFormed,
         QueueTypeOK, Row, Status
<1> QED
  BY <1>1, <1>2

LEMMA TableTyping ==
    ASSUME QueueTypeOK, CapInv, RowsWellFormed, UNCHANGED <<jobs, claims, reclaims>>
    PROVE  QueueTypeOK' /\ CapInv' /\ RowsWellFormed'
BY DEF QueueTypeOK, CapInv, Retries, RowsWellFormed, Status

\* The first statement, or the end of a supervisor that is between the two.
LEMMA ReadTableTyping ==
    ASSUME QueueTypeOK, CapInv, RowsWellFormed,
           \/ \E j \in Jobs : ReadAttempt(Supervisor, j)
           \/ AbandonReclaim(Supervisor)
    PROVE  QueueTypeOK' /\ CapInv' /\ RowsWellFormed'
<1>1. QueueTypeOK' /\ CapInv'
  BY SupervisorReclaims, ReadTyping, ReadKeepsCap, AbandonKeepsCap, QueueTyping
  DEF QueueNext, AbandonAny
<1>2. RowsWellFormed'
  BY DEF ReadAttempt, AbandonReclaim, RowsWellFormed, Status
<1> QED
  BY <1>1, <1>2

LEMMA WorkerTyping ==
    ASSUME TypeInv, NEW p \in Process, WorkerStep(p)
    PROVE  TypeInv'
<1> USE PoolBoundsAssumption, ProcessFacts
    DEF TypeInv, PoolTypeOK, HoldsAJob, WorkerPcs, WorkerUnchanged, supVars
<1>1. CASE CheckMaintenance(p)
  BY <1>1, TableTyping DEF CheckMaintenance
<1>2. CASE \E j \in Jobs : ClaimJob(p, j)
  <2>1. PICK j \in Jobs : ClaimJob(p, j)
    BY <1>2
  <2>2. QueueTypeOK' /\ CapInv' /\ RowsWellFormed'
    BY <2>1, ClaimTyping, RowsStayWellFormed DEF ClaimJob
  <2> QED
    BY <2>1, <2>2 DEF ClaimJob
<1>3. CASE ClaimNothing(p)
  BY <1>3, TableTyping DEF ClaimNothing
<1>4. CASE LoopAgain(p)
  BY <1>4, TableTyping DEF LoopAgain
<1>5. CASE ExitForMaintenance(p)
  BY <1>5, TableTyping DEF ExitForMaintenance, Ends
<1>6. CASE FinishJob(p)
  <2>1. QueueTypeOK' /\ CapInv' /\ RowsWellFormed'
    BY <1>6, SettleTyping, RowsStayWellFormed DEF FinishJob
  <2>2. jobs[held[p]].model \in Models \cup {Nil}
    BY <1>6 DEF FinishJob, QueueTypeOK, Row
  <2> QED
    BY <1>6, <2>1, <2>2 DEF FinishJob
<1>7. CASE FailJob(p)
  <2>1. QueueTypeOK' /\ CapInv' /\ RowsWellFormed'
    BY <1>7, SettleTyping, RowsStayWellFormed DEF FailJob
  <2>2. jobs[held[p]].model \in Models \cup {Nil}
    BY <1>7 DEF FailJob, QueueTypeOK, Row
  <2> QED
    BY <1>7, <2>1, <2>2 DEF FailJob
<1>8. CASE Recycle(p)
  BY <1>8, TableTyping DEF Recycle, Ends
<1>9. CASE WorkerDies(p)
  BY <1>9, TableTyping DEF WorkerDies, Ends
<1> QED
  BY <1>1, <1>2, <1>3, <1>4, <1>5, <1>6, <1>7, <1>8, <1>9 DEF WorkerStep, WorkerLoop

LEMMA SupervisorTyping ==
    ASSUME TypeInv, SupervisorStep
    PROVE  TypeInv'
<1> USE PoolBoundsAssumption, ProcessFacts
    DEF TypeInv, PoolTypeOK, HoldsAJob, WorkerPcs, SupPcs, LoopPcs,
        SupervisorUnchanged, workerVars
<1> USE DEF TableUnchanged
<1>1. ASSUME NEW w \in Workers, StartSpawn(w) PROVE TypeInv'
  BY <1>1, TableTyping DEF StartSpawn, Spawn
<1>2. ASSUME NEW w \in Workers, GraceOver(w) PROVE TypeInv'
  BY <1>2, TableTyping DEF GraceOver
<1>3. ASSUME NEW w \in Workers, PollAlive(w) PROVE TypeInv'
  BY <1>3, TableTyping DEF PollAlive
<1>4. ASSUME NEW w \in Workers, PollDead(w) PROVE TypeInv'
  BY <1>4, TableTyping DEF PollDead, RunningRows
<1>5. ASSUME NEW w \in Workers, TopUpSpawn(w) PROVE TypeInv'
  BY <1>5, TableTyping DEF TopUpSpawn, Spawn
<1>6. ASSUME NEW w \in Workers, ShutdownKill(w) PROVE TypeInv'
  BY <1>6, TableTyping DEF ShutdownKill, Ends
<1>7. ASSUME NEW r \in rows, Reconcile(r) PROVE TypeInv'
  <2>1. QueueTypeOK' /\ CapInv' /\ RowsWellFormed'
    BY <1>7, PoolReclaimTyping DEF Reconcile
  <2> QED
    BY <1>7, <2>1 DEF Reconcile
<1>8. ASSUME NEW r \in rows, WatchSkip(r) PROVE TypeInv'
  BY <1>8, TableTyping DEF WatchSkip
<1>9. ASSUME NEW r \in rows, WatchKill(r) PROVE TypeInv'
  BY <1>9, TableTyping DEF WatchKill, Ends
<1>10. CASE StartDone
  BY <1>10, TableTyping DEF StartDone
<1>11. CASE ReconcileDone
  BY <1>11, TableTyping DEF ReconcileDone
<1>12. CASE WatchBegins
  <2>1. RunningRows \subseteq Jobs \X Workers
    BY DEF RunningRows, RowsWellFormed
  <2> QED
    BY <1>12, <2>1, TableTyping DEF WatchBegins
<1>13. CASE WatchReclaim
  <2>1. QueueTypeOK' /\ CapInv' /\ RowsWellFormed'
    BY <1>13, PoolReclaimTyping DEF WatchReclaim
  <2> QED
    BY <1>13, <2>1 DEF WatchReclaim
<1>14. CASE WatchDone
  BY <1>14, TableTyping DEF WatchDone
<1>15. CASE TopUpCheck
  BY <1>15, TableTyping DEF TopUpCheck
<1>16. CASE TopUpDone
  BY <1>16, TableTyping DEF TopUpDone
<1>17. CASE WakeUp
  BY <1>17, TableTyping DEF WakeUp
<1>18. CASE ShutdownDone
  BY <1>18, TableTyping DEF ShutdownDone
<1>19. CASE StartAborts
  BY <1>19, TableTyping DEF StartAborts
<1>20. CASE Stop
  BY <1>20, ReadTableTyping DEF Stop
<1>21. CASE SupervisorKilled
  BY <1>21, ReadTableTyping DEF SupervisorKilled
<1>22. CASE Restart
  BY <1>22, TableTyping DEF Restart
<1>23. CASE BeginReclaim
  <2>1. \E j \in Jobs : ReadAttempt(Supervisor, j)
    BY <1>23 DEF BeginReclaim
  <2>2. QueueTypeOK' /\ CapInv' /\ RowsWellFormed'
    BY <2>1, ReadTableTyping
  <2> QED
    BY <1>23, <2>2 DEF BeginReclaim
<1> QED
  BY <1>1, <1>2, <1>3, <1>4, <1>5, <1>6, <1>7, <1>8, <1>9, <1>10, <1>11, <1>12,
     <1>13, <1>14, <1>15, <1>16, <1>17, <1>18, <1>19, <1>20, <1>21, <1>22, <1>23
  DEF SupervisorStep, SupervisorLoop

LEMMA OutsideTyping ==
    ASSUME TypeInv, ClientStep \/ ClockStep \/ UNCHANGED vars
    PROVE  TypeInv'
<1> USE ProcessFacts DEF TypeInv, PoolTypeOK, HoldsAJob, ClientUnchanged, workerVars, supVars
<1>1. ASSUME NEW j \in Jobs, Submit(j) PROVE TypeInv'
  <2>1. QueueTypeOK' /\ CapInv' /\ RowsWellFormed'
    BY <1>1, EnqueueTyping, RowsStayWellFormed DEF Submit
  <2> QED
    BY <1>1, <2>1 DEF Submit
<1>2. ASSUME NEW j \in Jobs, CancelQueued(j) PROVE TypeInv'
  <2>1. QueueTypeOK' /\ CapInv' /\ RowsWellFormed'
    BY <1>2, CancelTyping, RowsStayWellFormed DEF CancelQueued
  <2> QED
    BY <1>2, <2>1 DEF CancelQueued
<1>3. CASE Drain
  BY <1>3, TableTyping DEF Drain, TableUnchanged
<1>4. CASE Resume
  BY <1>4, TableTyping DEF Resume, TableUnchanged
<1>5. ASSUME NEW j \in Jobs, BackoffOver(j) PROVE TypeInv'
  <2>1. QueueTypeOK' /\ CapInv' /\ RowsWellFormed'
    BY <1>5, ClockTyping, RowsStayWellFormed DEF BackoffOver
  <2> QED
    BY <1>5, <2>1 DEF BackoffOver
<1>6. ASSUME NEW j \in Jobs, TimesOut(j) PROVE TypeInv'
  <2>1. QueueTypeOK' /\ CapInv' /\ RowsWellFormed'
    BY <1>6, ClockTyping, RowsStayWellFormed DEF TimesOut
  <2> QED
    BY <1>6, <2>1 DEF TimesOut
<1>7. CASE UNCHANGED vars
  BY <1>7, TableTyping DEF vars
<1> QED
  BY <1>1, <1>2, <1>3, <1>4, <1>5, <1>6, <1>7 DEF ClientStep, ClockStep

LEMMA TypeInvariant == Spec => []TypeInv
<1>1. Init => TypeInv
  <2> SUFFICES ASSUME Init PROVE TypeInv
    OBVIOUS
  <2>1. QueueTypeOK /\ CapInv
    BY NoRowIsRow, CapInit DEF Init, QueueInit, QueueTypeOK, Reclaim, NoReclaim
  <2>2. \A j \in Jobs : Status(j) = "absent" /\ jobs[j].attempt = 1
    BY DEF Init, QueueInit, Status, NoRow
  <2>3. RowsWellFormed
    BY <2>2 DEF RowsWellFormed
  <2>4. HoldsAJob
    BY DEF Init, HoldsAJob
  <2>5. PoolTypeOK
    <3>1. /\ pc \in [Process -> WorkerPcs]
          /\ held \in [Process -> Jobs \cup {Nil}]
          /\ loaded \in [Process -> Models \cup {Nil}]
          /\ lateClaims \in [Process -> Nat]
      BY DEF Init, WorkerPcs
    <3>2. /\ supPc \in SupPcs
          /\ procs \subseteq Workers /\ visit \subseteq Workers
          /\ rows \subseteq Jobs \X Workers
          /\ cur \in Jobs \cup {Nil}
      BY DEF Init, SupPcs
    <3>3. crashes \in 0..MaxCrashes /\ restarts \in 0..MaxRestarts
      BY PoolBoundsAssumption DEF Init
    <3>4. maintenance \in BOOLEAN
      BY DEF Init
    <3> QED
      BY <2>1, <3>1, <3>2, <3>3, <3>4 DEF PoolTypeOK
  <2> QED
    BY <2>1, <2>3, <2>4, <2>5 DEF TypeInv
<1>2. TypeInv /\ [Next]_vars => TypeInv'
  BY WorkerTyping, SupervisorTyping, OutsideTyping DEF Next
<1> QED
  BY <1>1, <1>2, PTL DEF Spec

\* Program counters, process memory and the supervisor's lists keep their
\* types, so nothing is ever settled or reclaimed that is not a job.
THEOREM PoolTypeCorrect == Spec => []PoolTypeOK
BY TypeInvariant, PTL DEF TypeInv

-----------------------------------------------------------------------------
(* A drain.                                                                 *)

LEMMA DrainStep ==
    ASSUME TypeInv, DrainInv, [Next]_vars
    PROVE  DrainInv'
<1> USE ProcessFacts DEF TypeInv, PoolTypeOK, DrainInv, get_maintenance_mode
<1>1. ASSUME NEW p \in Process, WorkerStep(p) PROVE DrainInv'
  <2> USE DEF WorkerUnchanged
  <2>1. CASE CheckMaintenance(p)
    BY <2>1 DEF CheckMaintenance
  <2>2. CASE \E j \in Jobs : ClaimJob(p, j)
    BY <2>2 DEF ClaimJob
  <2>3. CASE ClaimNothing(p) \/ LoopAgain(p)
    BY <2>3 DEF ClaimNothing, LoopAgain
  <2>4. CASE ExitForMaintenance(p) \/ Recycle(p) \/ WorkerDies(p)
    BY <2>4 DEF ExitForMaintenance, Recycle, WorkerDies, Ends
  <2>5. CASE FinishJob(p) \/ FailJob(p)
    BY <2>5 DEF FinishJob, FailJob
  <2> QED
    BY <1>1, <2>1, <2>2, <2>3, <2>4, <2>5 DEF WorkerStep, WorkerLoop
<1>2. CASE SupervisorStep
  <2>1. \A p \in Process : pc'[p] = "claim" => pc[p] = "claim"
    BY <1>2 DEF SupervisorStep, SupervisorLoop, workerVars, StartSpawn, Spawn,
       GraceOver, PollAlive, PollDead, TopUpSpawn, ShutdownKill, Ends, BeginReclaim, Reconcile,
       WatchSkip, WatchKill, StartDone, ReconcileDone, WatchBegins, WatchReclaim,
       WatchDone, TopUpCheck, TopUpDone, WakeUp, ShutdownDone, StartAborts, Stop,
       SupervisorKilled, Restart
  <2>2. UNCHANGED <<maintenance, lateClaims>>
    BY <1>2 DEF SupervisorStep, SupervisorLoop, SupervisorUnchanged, StartSpawn,
       GraceOver, PollAlive, PollDead, TopUpSpawn, ShutdownKill, BeginReclaim, Reconcile,
       WatchSkip, WatchKill, StartDone, ReconcileDone, WatchBegins, WatchReclaim,
       WatchDone, TopUpCheck, TopUpDone, WakeUp, ShutdownDone, StartAborts, Stop,
       SupervisorKilled, Restart
  <2> QED
    BY <2>1, <2>2
<1>3. CASE Drain \/ Resume
  BY <1>3 DEF Drain, Resume, ClientUnchanged, workerVars
<1>4. CASE \E j \in Jobs : Submit(j) \/ CancelQueued(j) \/ BackoffOver(j) \/ TimesOut(j)
  BY <1>4 DEF Submit, CancelQueued, BackoffOver, TimesOut, ClientUnchanged, workerVars
<1>5. CASE UNCHANGED vars
  BY <1>5 DEF vars, workerVars
<1> QED
  BY <1>1, <1>2, <1>3, <1>4, <1>5 DEF Next, ClientStep, ClockStep

\* After a drain no worker process begins more than one job, however claims,
\* exits, deaths, kills and respawns interleave with it.
THEOREM DrainIsPrompt == Spec => []DrainAllowsOneMoreJob
<1>1. Init => DrainInv
  BY DEF Init, DrainInv
<1>2. TypeInv /\ DrainInv /\ [Next]_vars => DrainInv'
  BY DrainStep
<1>3. DrainInv => DrainAllowsOneMoreJob
  BY DEF DrainInv, DrainAllowsOneMoreJob
<1> QED
  BY <1>1, <1>2, <1>3, TypeInvariant, PTL DEF Spec

-----------------------------------------------------------------------------
(* Who is alive.                                                            *)

LEMMA AliveStep ==
    ASSUME ~RestartAfterLoss, TypeInv, AliveInv, [Next]_vars
    PROVE  AliveInv'
<1> USE ProcessFacts DEF TypeInv, PoolTypeOK, AliveInv, Alive
<1>1. ASSUME NEW p \in Process, WorkerStep(p) PROVE AliveInv'
  <2> USE DEF WorkerUnchanged, supVars, Proc
  <2>1. Alive(p) /\ \A q \in Process : Alive(q)' => Alive(q)
    BY <1>1 DEF WorkerStep, WorkerLoop, CheckMaintenance, ClaimJob, ClaimNothing,
       LoopAgain, ExitForMaintenance, Recycle, WorkerDies, Ends, FinishJob, FailJob
  <2>2. UNCHANGED supVars
    BY <1>1 DEF WorkerStep, WorkerLoop, CheckMaintenance, ClaimJob, ClaimNothing,
       LoopAgain, ExitForMaintenance, Recycle, WorkerDies, FinishJob, FailJob
  <2> QED
    BY <2>1, <2>2
<1>2. ASSUME NEW w \in Workers, StartSpawn(w) \/ TopUpSpawn(w) PROVE AliveInv'
  BY <1>2 DEF StartSpawn, TopUpSpawn, Spawn
<1>3. ASSUME NEW w \in Workers, GraceOver(w) \/ PollAlive(w) PROVE AliveInv'
  BY <1>3 DEF GraceOver, PollAlive, workerVars
<1>4. ASSUME NEW w \in Workers, PollDead(w) PROVE AliveInv'
  BY <1>4 DEF PollDead, workerVars
<1>5. ASSUME NEW w \in Workers, ShutdownKill(w) PROVE AliveInv'
  BY <1>5 DEF ShutdownKill, Ends, Proc
<1>6. ASSUME NEW r \in rows, Reconcile(r) \/ WatchSkip(r) PROVE AliveInv'
  BY <1>6 DEF Reconcile, WatchSkip, workerVars
<1>7. ASSUME NEW r \in rows, WatchKill(r) PROVE AliveInv'
  BY <1>7 DEF WatchKill, Ends
<1>8. CASE \/ StartDone \/ ReconcileDone \/ WatchBegins \/ WatchReclaim
           \/ WatchDone \/ TopUpCheck \/ TopUpDone \/ WakeUp \/ BeginReclaim
  BY <1>8 DEF StartDone, ReconcileDone, WatchBegins, WatchReclaim, WatchDone,
     TopUpCheck, TopUpDone, WakeUp, BeginReclaim, workerVars
<1>9. CASE ShutdownDone
  BY <1>9 DEF ShutdownDone, workerVars
<1>10. CASE StartAborts \/ SupervisorKilled
  BY <1>10 DEF StartAborts, SupervisorKilled, LoopPcs, workerVars
<1>11. CASE Stop
  BY <1>11 DEF Stop, LoopPcs, workerVars
<1>12. CASE Restart
  BY <1>12 DEF Restart, workerVars
<1>13. CASE ClientStep \/ ClockStep
  <2>1. UNCHANGED <<workerVars, supVars>>
    BY <1>13 DEF ClientStep, ClockStep, Submit, CancelQueued, Drain, Resume,
       BackoffOver, TimesOut, ClientUnchanged
  <2> QED
    BY <2>1 DEF workerVars, supVars, Proc
<1>14. CASE UNCHANGED vars
  BY <1>14 DEF vars, workerVars, supVars, Proc
<1> QED
  BY <1>1, <1>2, <1>3, <1>4, <1>5, <1>6, <1>7, <1>8, <1>9, <1>10, <1>11, <1>12,
     <1>13, <1>14 DEF Next, SupervisorStep, SupervisorLoop

\* As long as no supervisor is replaced after it was lost, no worker lives
\* outside its supervisor's _procs: a polled, killed or shut down pool leaves
\* nothing behind.
THEOREM NothingLeaks ==
    ASSUME ~RestartAfterLoss
    PROVE  Spec => []NoLeakedWorker
<1>1. Init => AliveInv
  BY DEF Init, AliveInv, Alive
<1>2. TypeInv /\ AliveInv /\ [Next]_vars => AliveInv'
  BY AliveStep
<1>3. AliveInv => NoLeakedWorker
  BY DEF AliveInv, NoLeakedWorker
<1> QED
  BY <1>1, <1>2, <1>3, TypeInvariant, PTL DEF Spec

-----------------------------------------------------------------------------
(* Exclusive execution.                                                     *)

\* Nobody executes a job on the list of a dead worker.
LEMMA ReconciledIsIdle ==
    ASSUME TypeInv, PoolInv, supPc = "reconcile", NEW r \in rows, NEW p \in Process,
           pc[p] = "run"
    PROVE  held[p] # r[1]
<1> SUFFICES ASSUME held[p] = r[1] PROVE FALSE
  OBVIOUS
<1>1. p[1] = r[2] /\ ~Alive(Proc(r[2]))
  BY DEF PoolInv, RowsInv
<1>2. p[2] = restarts
  BY DEF PoolInv, AliveInv, Alive
<1> QED
  BY <1>1, <1>2, ProcessFacts DEF Alive

\* Nor, once the worker of a row on the watchdog's list is killed, that row's.
LEMMA KilledIsIdle ==
    ASSUME TypeInv, PoolInv, supPc = "watch", NEW r \in rows, NEW p \in Process,
           pc[p] = "run", p # Proc(r[2])
    PROVE  held[p] # r[1]
<1> SUFFICES ASSUME held[p] = r[1] PROVE FALSE
  OBVIOUS
<1>1. p[1] = r[2]
  BY DEF PoolInv, RowsInv
<1>2. p[2] = restarts
  BY DEF PoolInv, AliveInv, Alive
<1> QED
  BY <1>1, <1>2, ProcessFacts

\* Two processes never hold the same job: the row names one worker, and only
\* one process of that name is alive.
LEMMA OneRunner ==
    ASSUME TypeInv, PoolInv, NEW p \in Process, NEW q \in Process,
           pc[p] = "run", pc[q] = "run", held[p] = held[q]
    PROVE  p = q
<1>1. p[1] = q[1]
  BY DEF PoolInv, RunInv
<1>2. p[2] = restarts /\ q[2] = restarts
  BY DEF PoolInv, AliveInv, Alive
<1> QED
  BY <1>1, <1>2, ProcessFacts

\* The part of PoolInv that relates the table to the processes.
TableInv == RunInv /\ RowsInv /\ ReclaimInv /\ AttemptsCountClaims

\* It survives every step that leaves the table and the lists alone, starts no
\* run and revives nobody while a dead worker is reconciled.
LEMMA IdleStepKeepsTableInv ==
    ASSUME TypeInv, TableInv,
           UNCHANGED <<jobs, claims, rows, cur>>,
           \A p \in Process : pc'[p] = "run" => pc[p] = "run" /\ held'[p] = held[p],
           supPc' = "reconcile" =>
               /\ supPc = "reconcile" /\ restarts' = restarts
               /\ \A p \in Process : ~Alive(p) => ~Alive(p)',
           supPc' = "reclaim" => supPc = "reclaim"
    PROVE  TableInv'
<1> USE DEF TableInv, Status, Alive, Proc
<1>1. RunInv'
  BY DEF RunInv
<1>2. RowsInv'
  <2> USE DEF RowsInv, ClaimedStatuses
  <2>1. \A r \in rows' : Status(r[1])' \in ClaimedStatuses
    OBVIOUS
  <2>2. \A r \in rows', p \in Process :
            pc'[p] = "run" /\ held'[p] = r[1] => p[1] = r[2]
    OBVIOUS
  <2>3. \A r, t \in rows' : r[1] = t[1] => r = t
    OBVIOUS
  <2>4. supPc' = "reconcile" => \A r \in rows' : ~Alive(Proc(r[2]))'
    BY ProcessFacts DEF TypeInv, PoolTypeOK
  <2> QED
    BY <2>1, <2>2, <2>3, <2>4
<1>3. ReclaimInv'
  BY DEF ReclaimInv, ClaimedStatuses
<1>4. AttemptsCountClaims'
  BY DEF AttemptsCountClaims
<1> QED
  BY <1>1, <1>2, <1>3, <1>4

LEMMA WorkerKeepsTableInv ==
    ASSUME TypeInv, PoolInv, NEW p \in Process, WorkerStep(p)
    PROVE  TableInv'
<1> USE DEF TypeInv, PoolTypeOK, HoldsAJob, WorkerUnchanged, supVars,
        PoolInv, TableInv, RunInv, RowsInv, ReclaimInv, AttemptsCountClaims,
        ClaimedStatuses, Status, Alive, Proc
<1>1. CASE CheckMaintenance(p) \/ ClaimNothing(p) \/ LoopAgain(p)
  BY <1>1, IdleStepKeepsTableInv DEF CheckMaintenance, ClaimNothing, LoopAgain
<1>2. ASSUME NEW j \in Jobs, ClaimJob(p, j) PROVE TableInv'
  <2>1. Claim(p[1], loaded[p], j)
    BY <1>2 DEF ClaimJob
  <2>2. /\ pc[p] = "claim" /\ pc' = [pc EXCEPT ![p] = "run"]
        /\ held' = [held EXCEPT ![p] = j]
        /\ UNCHANGED supVars
    BY <1>2 DEF ClaimJob
  <2>3. /\ jobs[j].status = "queued" /\ jobs'[j].status = "running"
        /\ jobs'[j].worker = p[1]
        /\ jobs'[j].attempt = jobs[j].attempt
        /\ \A i \in Jobs \ {j} : jobs'[i] = jobs[i] /\ claims'[i] = claims[i]
        /\ claims'[j] = claims[j] + 1
    BY <2>1, ClaimEffect
  <2>4. RunInv'
    BY <2>2, <2>3
  <2>5. RowsInv'
    BY <2>2, <2>3
  <2>6. ReclaimInv'
    BY <2>2, <2>3
  <2>7. AttemptsCountClaims'
    BY <2>3 DEF QueueTypeOK, Row
  <2> QED
    BY <2>4, <2>5, <2>6, <2>7
<1>3. CASE FinishJob(p) \/ FailJob(p)
  <2>1. pc[p] = "run" /\ held[p] \in Jobs /\ (MarkDone(held[p]) \/ MarkFailed(held[p]))
    BY <1>3 DEF FinishJob, FailJob
  <2>2. /\ pc' = [pc EXCEPT ![p] = "ran"]
        /\ held' = [held EXCEPT ![p] = Nil]
        /\ UNCHANGED supVars
    BY <1>3 DEF FinishJob, FailJob
  <2>3. /\ jobs'[held[p]].status \in {"done", "failed"}
        /\ jobs'[held[p]].attempt = jobs[held[p]].attempt
        /\ \A i \in Jobs \ {held[p]} : jobs'[i] = jobs[i]
        /\ claims' = claims
    BY <2>1, SettleEffect
  <2>4. RunInv'
    BY <2>1, <2>2, <2>3, OneRunner
  <2>5. RowsInv'
    BY <2>1, <2>2, <2>3
  <2>6. ReclaimInv'
    BY <2>1, <2>2, <2>3
  <2>7. AttemptsCountClaims'
    BY <2>1, <2>3
  <2> QED
    BY <2>4, <2>5, <2>6, <2>7
<1>4. CASE ExitForMaintenance(p) \/ Recycle(p) \/ WorkerDies(p)
  BY <1>4, IdleStepKeepsTableInv DEF ExitForMaintenance, Recycle, WorkerDies, Ends
<1> QED
  BY <1>1, <1>2, <1>3, <1>4 DEF WorkerStep, WorkerLoop

LEMMA SupervisorKeepsTableInv ==
    ASSUME TypeInv, PoolInv, SupervisorStep
    PROVE  TableInv'
<1> USE DEF TypeInv, PoolTypeOK, HoldsAJob, PoolInv
<1>t. TableInv
  BY DEF TableInv
<1> USE DEF SupervisorUnchanged, TableUnchanged, workerVars
<1>1. ASSUME NEW w \in Workers, StartSpawn(w) \/ TopUpSpawn(w) PROVE TableInv'
  BY <1>1, <1>t, IdleStepKeepsTableInv DEF StartSpawn, TopUpSpawn, Spawn
<1>2. ASSUME NEW w \in Workers, GraceOver(w) \/ PollAlive(w) PROVE TableInv'
  BY <1>2, <1>t, IdleStepKeepsTableInv DEF GraceOver, PollAlive
<1>3. ASSUME NEW w \in Workers, ShutdownKill(w) PROVE TableInv'
  BY <1>3, <1>t, IdleStepKeepsTableInv DEF ShutdownKill, Ends
<1>4. ASSUME NEW w \in Workers, PollDead(w) PROVE TableInv'
  <2>1. /\ ~Alive(Proc(w))
        /\ rows' = {r \in RunningRows : r[2] = w}
        /\ supPc' = "reconcile"
        /\ UNCHANGED <<jobs, claims, pc, held, restarts>>
    BY <1>4 DEF PollDead
  <2>2. RunInv' /\ AttemptsCountClaims'
    BY <2>1, <1>t DEF TableInv, RunInv, AttemptsCountClaims, Status
  <2>3. RowsInv'
    BY <2>1, <1>t DEF TableInv, RunInv, RowsInv, RunningRows, ClaimedStatuses,
                      Status, Alive, Proc
  <2>4. ReclaimInv'
    BY <2>1 DEF ReclaimInv
  <2> QED
    BY <2>2, <2>3, <2>4 DEF TableInv
<1>5. ASSUME NEW r \in rows, Reconcile(r) PROVE TableInv'
  <2>1. /\ supPc = "reconcile" /\ FinishReclaim(r[1]) /\ r[1] \in Jobs
        /\ rows' = rows \ {r}
        /\ UNCHANGED <<supPc, restarts, cur, pc, held>>
    BY <1>5 DEF Reconcile
  <2>2. \A p \in Process : pc[p] = "run" => held[p] # r[1]
    BY <2>1, ReconciledIsIdle
  <2>3. Status(r[1]) \in ClaimedStatuses
    BY <1>t DEF TableInv, RowsInv
  <2>4. /\ \/ /\ jobs'[r[1]].status = "queued"
              /\ jobs'[r[1]].attempt = jobs[r[1]].attempt + 1
           \/ /\ jobs'[r[1]].status = "failed"
              /\ jobs'[r[1]].attempt = jobs[r[1]].attempt
        /\ \A i \in Jobs \ {r[1]} : jobs'[i] = jobs[i]
        /\ claims' = claims
    BY <2>1, PoolReclaimEffect
  <2>5. RunInv'
    BY <2>1, <2>2, <2>4, <1>t DEF TableInv, RunInv, Status
  <2>6. RowsInv'
    BY <2>1, <2>4, <1>t DEF TableInv, RowsInv, ClaimedStatuses, Status, Alive, Proc
  <2>7. ReclaimInv'
    BY <2>1 DEF ReclaimInv
  <2>8. AttemptsCountClaims'
    BY <2>1, <2>3, <2>4, <1>t
    DEF TableInv, AttemptsCountClaims, ClaimedStatuses, Status, QueueTypeOK, Row
  <2> QED
    BY <2>5, <2>6, <2>7, <2>8 DEF TableInv
<1>6. CASE WatchBegins
  <2>1. /\ rows' = {r \in RunningRows : jobs[r[1]].overdue}
        /\ supPc' = "watch"
        /\ UNCHANGED <<jobs, claims, pc, held, restarts>>
    BY <1>6 DEF WatchBegins
  <2>2. RunInv' /\ AttemptsCountClaims'
    BY <2>1, <1>t DEF TableInv, RunInv, AttemptsCountClaims, Status
  <2>3. RowsInv'
    BY <2>1, <1>t DEF TableInv, RunInv, RowsInv, RunningRows, ClaimedStatuses, Status
  <2>4. ReclaimInv'
    BY <2>1 DEF ReclaimInv
  <2> QED
    BY <2>2, <2>3, <2>4 DEF TableInv
<1>7. ASSUME NEW r \in rows, WatchSkip(r) PROVE TableInv'
  BY <1>7, <1>t DEF WatchSkip, TableInv, RunInv, RowsInv, ReclaimInv,
                    AttemptsCountClaims, ClaimedStatuses, Status
<1>8. ASSUME NEW r \in rows, WatchKill(r) PROVE TableInv'
  <2>1. /\ supPc = "watch" /\ supPc' = "reclaim"
        /\ pc' = [pc EXCEPT ![Proc(r[2])] = "dead"]
        /\ held' = [held EXCEPT ![Proc(r[2])] = Nil]
        /\ rows' = rows \ {r} /\ cur' = r[1]
        /\ UNCHANGED <<jobs, claims, restarts>>
    BY <1>8 DEF WatchKill, Ends
  <2>2. Proc(r[2]) \in Process
    BY ProcessFacts
  <2>3. \A p \in Process : ~(pc'[p] = "run" /\ held'[p] = r[1])
    BY <2>1, <2>2, KilledIsIdle
  <2>4. RunInv' /\ AttemptsCountClaims'
    BY <2>1, <2>2, <1>t DEF TableInv, RunInv, AttemptsCountClaims, Status
  <2>5. RowsInv'
    BY <2>1, <2>2, <1>t DEF TableInv, RowsInv, ClaimedStatuses, Status
  <2>6. ReclaimInv'
    BY <2>1, <2>3, <1>t DEF TableInv, RowsInv, ReclaimInv, ClaimedStatuses, Status
  <2> QED
    BY <2>4, <2>5, <2>6 DEF TableInv
<1>9. CASE WatchReclaim
  <2>1. /\ supPc = "reclaim" /\ cur \in Jobs /\ FinishReclaim(cur) /\ supPc' = "watch"
        /\ UNCHANGED <<rows, restarts, pc, held>>
    BY <1>9 DEF WatchReclaim
  <2>2. /\ \A p \in Process : pc[p] = "run" => held[p] # cur
        /\ Status(cur) \in ClaimedStatuses
        /\ \A r \in rows : r[1] # cur
    BY <2>1, <1>t DEF TableInv, ReclaimInv
  <2>3. /\ \/ /\ jobs'[cur].status = "queued"
              /\ jobs'[cur].attempt = jobs[cur].attempt + 1
           \/ /\ jobs'[cur].status = "failed"
              /\ jobs'[cur].attempt = jobs[cur].attempt
        /\ \A i \in Jobs \ {cur} : jobs'[i] = jobs[i]
        /\ claims' = claims
    BY <2>1, PoolReclaimEffect
  <2>4. RunInv'
    BY <2>1, <2>2, <2>3, <1>t DEF TableInv, RunInv, Status
  <2>5. RowsInv'
    BY <2>1, <2>2, <2>3, <1>t DEF TableInv, RowsInv, ClaimedStatuses, Status
  <2>6. ReclaimInv'
    BY <2>1 DEF ReclaimInv
  <2>7. AttemptsCountClaims'
    BY <2>1, <2>2, <2>3, <1>t
    DEF TableInv, AttemptsCountClaims, ClaimedStatuses, Status, QueueTypeOK, Row
  <2> QED
    BY <2>4, <2>5, <2>6, <2>7 DEF TableInv
<1>10. CASE \/ StartDone \/ ReconcileDone \/ WatchDone \/ TopUpCheck \/ TopUpDone
            \/ WakeUp \/ ShutdownDone \/ StartAborts \/ Restart \/ BeginReclaim
  BY <1>10, <1>t, IdleStepKeepsTableInv DEF StartDone, ReconcileDone, WatchDone,
     TopUpCheck, TopUpDone, WakeUp, ShutdownDone, StartAborts, Restart, BeginReclaim,
     ReadAttempt, Alive
<1>11. CASE Stop \/ SupervisorKilled
  BY <1>11, <1>t DEF Stop, SupervisorKilled, AbandonReclaim, TableInv, RunInv,
                     RowsInv, ReclaimInv, AttemptsCountClaims, Status
<1> QED
  BY <1>1, <1>2, <1>3, <1>4, <1>5, <1>6, <1>7, <1>8, <1>9, <1>10, <1>11
  DEF SupervisorStep, SupervisorLoop

LEMMA OutsideKeepsTableInv ==
    ASSUME TypeInv, PoolInv, ClientStep \/ ClockStep \/ UNCHANGED vars
    PROVE  TableInv'
<1> USE DEF TypeInv, PoolTypeOK, HoldsAJob, PoolInv, ClientUnchanged,
            workerVars, supVars
<1>t. TableInv
  BY DEF TableInv
<1> DEFINE Kept(j) ==
        /\ UNCHANGED <<claims, supPc, rows, cur, restarts, pc, held>>
        /\ \A i \in Jobs \ {j} : jobs'[i] = jobs[i]
<1>a. ASSUME NEW j \in Jobs, Kept(j),
             jobs[j].status \in {"absent", "queued"},
             jobs'[j].status \in {"queued", "cancelled"},
             jobs[j].status = "absent" => jobs'[j].attempt = 1 /\ jobs[j].attempt = 1,
             jobs[j].status = "queued" => jobs'[j].attempt = jobs[j].attempt
      PROVE  TableInv'
  <2>1. RunInv'
    BY <1>a, <1>t DEF TableInv, RunInv, Status
  <2>2. RowsInv'
    BY <1>a, <1>t DEF TableInv, RowsInv, ClaimedStatuses, Status, Alive, Proc
  <2>3. ReclaimInv'
    BY <1>a, <1>t DEF TableInv, ReclaimInv, ClaimedStatuses, Status
  <2>4. AttemptsCountClaims'
    BY <1>a, <1>t DEF TableInv, AttemptsCountClaims, Status
  <2> QED
    BY <2>1, <2>2, <2>3, <2>4 DEF TableInv
<1>1. ASSUME NEW j \in Jobs, CancelQueued(j) PROVE TableInv'
  BY <1>1, <1>a, CancelEffect DEF CancelQueued
<1>2. ASSUME NEW j \in Jobs, BackoffOver(j) \/ TimesOut(j) PROVE TableInv'
  <2>1. /\ \A i \in Jobs : /\ jobs'[i].status = jobs[i].status
                           /\ jobs'[i].worker = jobs[i].worker
                           /\ jobs'[i].attempt = jobs[i].attempt
        /\ claims' = claims
        /\ UNCHANGED <<supPc, rows, cur, restarts, pc, held>>
    BY <1>2, ClockEffect DEF BackoffOver, TimesOut
  <2>2. RunInv'
    BY <2>1, <1>t DEF TableInv, RunInv, Status
  <2>3. RowsInv'
    BY <2>1, <1>t DEF TableInv, RowsInv, ClaimedStatuses, Status, Alive, Proc
  <2>4. ReclaimInv'
    BY <2>1, <1>t DEF TableInv, ReclaimInv, ClaimedStatuses, Status
  <2>5. AttemptsCountClaims'
    BY <2>1, <1>t DEF TableInv, AttemptsCountClaims, Status
  <2> QED
    BY <2>2, <2>3, <2>4, <2>5 DEF TableInv
<1>3. CASE Drain \/ Resume
  BY <1>3, <1>t, IdleStepKeepsTableInv DEF Drain, Resume, TableUnchanged, Alive
<1>4. CASE UNCHANGED vars
  BY <1>4, <1>t, IdleStepKeepsTableInv DEF vars, Alive
<1>5. ASSUME NEW j \in Jobs, Submit(j) PROVE TableInv'
  <2>1. PICK m \in Models, q \in Priorities, s \in Seconds : Enqueue(j, m, q, s)
    BY <1>5 DEF Submit
  <2>2. Kept(j)
    BY <1>5, <2>1, EnqueueEffect DEF Submit
  <2>3. jobs[j].status = "absent" /\ jobs'[j].status = "queued" /\ jobs'[j].attempt = 1
    BY <2>1, EnqueueEffect
  <2>4. jobs[j].attempt = 1
    BY <2>3 DEF RowsWellFormed, Status
  <2> QED
    BY <1>a, <2>2, <2>3, <2>4
<1> QED
  BY <1>1, <1>2, <1>3, <1>4, <1>5 DEF ClientStep, ClockStep

LEMMA PoolInvariant ==
    ASSUME ~RestartAfterLoss
    PROVE  Spec => []PoolInv
<1>1. Init => PoolInv
  <2> SUFFICES ASSUME Init PROVE PoolInv
    OBVIOUS
  <2>1. AliveInv /\ RunInv /\ RowsInv /\ ReclaimInv
    BY DEF Init, AliveInv, RunInv, RowsInv, ReclaimInv, Alive
  <2>2. \A j \in Jobs : jobs[j] = NoRow /\ claims[j] = 0
    BY DEF Init, QueueInit
  <2>3. NoRow.status = "absent" /\ NoRow.attempt = 1
    BY DEF NoRow
  <2>4. AttemptsCountClaims
    <3> SUFFICES ASSUME NEW j \in Jobs
                 PROVE  claims[j] = IF Status(j) \in {"running", "done", "failed"}
                                      THEN jobs[j].attempt
                                      ELSE jobs[j].attempt - 1
      BY DEF AttemptsCountClaims
    <3>1. Status(j) = "absent" /\ jobs[j].attempt = 1 /\ claims[j] = 0
      BY <2>2, <2>3 DEF Status
    <3> QED
      BY <3>1
  <2> QED
    BY <2>1, <2>4 DEF PoolInv
<1>2. TypeInv /\ PoolInv /\ [Next]_vars => PoolInv'
  <2> SUFFICES ASSUME TypeInv, PoolInv, [Next]_vars PROVE PoolInv'
    OBVIOUS
  <2>1. AliveInv'
    BY AliveStep DEF PoolInv
  <2>2. TableInv'
    BY WorkerKeepsTableInv, SupervisorKeepsTableInv, OutsideKeepsTableInv DEF Next
  <2> QED
    BY <2>1, <2>2 DEF PoolInv, TableInv
<1> QED
  BY <1>1, <1>2, TypeInvariant, PTL DEF Spec

\* At no time do two processes execute the same job, and the row of an executed
\* job says so: claims race, workers die and are killed on stale evidence,
\* supervisors stop in mid-reclaim and are replaced, and it still holds. What it
\* needs is that no supervisor is replaced whose workers were left running.
THEOREM ExecutionIsExclusive ==
    ASSUME ~RestartAfterLoss
    PROVE  Spec => []ExclusiveExecution
<1>1. TypeInv /\ PoolInv => ExclusiveExecution
  BY OneRunner DEF PoolInv, RunInv, ExclusiveExecution
<1> QED
  BY <1>1, TypeInvariant, PoolInvariant, PTL

\* Every attempt charged to a job is an execution that was begun: under the same
\* condition no retry is spent, and no job failed, without one.
THEOREM AttemptsAreExecutions ==
    ASSUME ~RestartAfterLoss
    PROVE  Spec => []AttemptsCountClaims
<1>1. PoolInv => AttemptsCountClaims
  BY DEF PoolInv
<1> QED
  BY <1>1, PoolInvariant, PTL

-----------------------------------------------------------------------------
(* Reclaiming.                                                              *)

\* Only the supervisor raises a job's attempt, and it has the job on its list or
\* has just killed the job's worker.
LEMMA ReclaimerIsSupervisor ==
    ASSUME TypeInv, [Next]_vars,
           NEW j \in Jobs, Status(j) # "absent", jobs'[j].attempt > jobs[j].attempt
    PROVE  \/ \E r \in rows : Reconcile(r) /\ r[1] = j
           \/ WatchReclaim /\ cur = j
<1> USE DEF TypeInv, PoolTypeOK, HoldsAJob
<1>n. jobs[j].attempt \in Nat
  BY BoundsAssumption DEF QueueTypeOK, Row
<1>s. jobs'[j].attempt # jobs[j].attempt
  BY <1>n
<1>1. ASSUME NEW r \in rows, Reconcile(r) PROVE r[1] = j
  BY <1>1, <1>s, PoolReclaimEffect DEF Reconcile
<1>2. CASE WatchReclaim
  BY <1>2, <1>s, PoolReclaimEffect DEF WatchReclaim
<1>3. ASSUME NEW p \in Process, WorkerStep(p) PROVE FALSE
  <2>1. ASSUME NEW i \in Jobs, ClaimJob(p, i) PROVE FALSE
    BY <2>1, <1>s, ClaimEffect DEF ClaimJob
  <2>2. CASE FinishJob(p) \/ FailJob(p)
    BY <2>2, <1>s, SettleEffect DEF FinishJob, FailJob
  <2>3. CASE UNCHANGED jobs
    BY <2>3, <1>s
  <2> QED
    BY <1>3, <2>1, <2>2, <2>3 DEF WorkerStep, WorkerLoop, CheckMaintenance,
       ClaimNothing, LoopAgain, ExitForMaintenance, Recycle, WorkerDies
<1>4. CASE SupervisorStep /\ UNCHANGED jobs
  BY <1>4, <1>s
<1>5. SupervisorStep => \/ \E r \in rows : Reconcile(r)
                        \/ WatchReclaim
                        \/ UNCHANGED jobs
  BY DEF SupervisorStep, SupervisorLoop, TableUnchanged, StartSpawn, GraceOver,
     PollAlive, PollDead, TopUpSpawn, ShutdownKill, WatchSkip, WatchKill, StartDone,
     ReconcileDone, WatchBegins, WatchDone, TopUpCheck, TopUpDone, WakeUp,
     ShutdownDone, StartAborts, Stop, SupervisorKilled, Restart, BeginReclaim,
     ReadAttempt, AbandonReclaim
<1>6. ASSUME NEW i \in Jobs, Submit(i) PROVE FALSE
  <2>1. PICK m \in Models, q \in Priorities, s \in Seconds : Enqueue(i, m, q, s)
    BY <1>6 DEF Submit
  <2> QED
    BY <2>1, <1>s, EnqueueEffect DEF Status
<1>7. ASSUME NEW i \in Jobs, CancelQueued(i) PROVE FALSE
  BY <1>7, <1>s, CancelEffect DEF CancelQueued
<1>8. ASSUME NEW i \in Jobs, BackoffOver(i) \/ TimesOut(i) PROVE FALSE
  BY <1>8, <1>s, ClockEffect DEF BackoffOver, TimesOut
<1>9. CASE Drain \/ Resume \/ UNCHANGED vars
  BY <1>9, <1>s DEF Drain, Resume, TableUnchanged, vars
<1> QED
  BY <1>1, <1>2, <1>3, <1>4, <1>5, <1>6, <1>7, <1>8, <1>9
  DEF Next, ClientStep, ClockStep

LEMMA ReclaimStep ==
    ASSUME TypeInv, PoolInv, [Next]_vars,
           NEW j \in Jobs, Status(j) # "absent", jobs'[j].attempt > jobs[j].attempt
    PROVE  RunnersOf(j) = {}
<1>1. \/ \E r \in rows : Reconcile(r) /\ r[1] = j
      \/ WatchReclaim /\ cur = j
  BY ReclaimerIsSupervisor
<1>2. ASSUME NEW r \in rows, Reconcile(r), r[1] = j PROVE RunnersOf(j) = {}
  BY <1>2, ReconciledIsIdle DEF Reconcile, RunnersOf
<1>3. CASE WatchReclaim /\ cur = j
  BY <1>3 DEF WatchReclaim, PoolInv, ReclaimInv, RunnersOf
<1> QED
  BY <1>1, <1>2, <1>3

\* The supervisor takes a job away only when nobody executes it, although the
\* list it works from is older than the reclaim, and although it never looks at
\* the job's row again.
THEOREM ReclaimIsSafe ==
    ASSUME ~RestartAfterLoss
    PROVE  Spec => ReclaimsOnlyAbandoned
<1>1. TypeInv /\ PoolInv /\ [Next]_vars
        => [\A j \in Stored : jobs'[j].attempt > jobs[j].attempt => RunnersOf(j) = {}]_vars
  BY ReclaimStep DEF Stored
<1> QED
  BY <1>1, TypeInvariant, PoolInvariant, PTL DEF Spec, ReclaimsOnlyAbandoned

-----------------------------------------------------------------------------
(* Refinement: the pool implements JobDispatch.                             *)

DispatchStep == [Dispatch!DispatchNext]_(Dispatch!dispatchVars)

Withdrawn == {j \in Jobs : Status(j) = "cancelled"}

LEMMA InvisibleStep ==
    ASSUME \A p \in Process : pc'[p] = "run" <=> pc[p] = "run",
           \A p \in Process : pc[p] = "run" => held'[p] = held[p],
           claims' = claims, Withdrawn' = Withdrawn
    PROVE  DispatchStep
<1>1. \A j \in Jobs : RunnersOf(j)' = RunnersOf(j)
  BY DEF RunnersOf
<1> QED
  BY <1>1 DEF DispatchStep, Dispatch!dispatchVars, Withdrawn

\* A step that takes one process out of its run ends that run, or nothing.
LEMMA EndingStep ==
    ASSUME TypeInv, PoolInv, NEW p \in Process,
           \E x \in WorkerPcs \ {"run"} : pc' = [pc EXCEPT ![p] = x],
           held' = [held EXCEPT ![p] = Nil],
           claims' = claims, Withdrawn' = Withdrawn
    PROVE  DispatchStep
<1> USE DEF TypeInv, PoolTypeOK, HoldsAJob
<1>1. CASE pc[p] # "run"
  BY <1>1, InvisibleStep
<1>2. CASE pc[p] = "run"
  <2>1. held[p] \in Jobs
    BY <1>2
  <2>2. RunnersOf(held[p]) # {}
    BY <1>2 DEF RunnersOf
  <2>3. \A j \in Jobs : RunnersOf(j)' = IF j = held[p] THEN {} ELSE RunnersOf(j)
    BY <1>2, OneRunner DEF RunnersOf
  <2>4. [j \in Jobs |-> RunnersOf(j)]'
          = [[j \in Jobs |-> RunnersOf(j)] EXCEPT ![held[p]] = {}]
    BY <2>1, <2>3
  <2>5. Dispatch!End(held[p])
    BY <2>1, <2>2, <2>4 DEF Dispatch!End, Withdrawn
  <2> QED
    BY <2>1, <2>5 DEF DispatchStep, Dispatch!DispatchNext
<1> QED
  BY <1>1, <1>2

LEMMA StartingStep ==
    ASSUME TypeInv, PoolInv, NEW p \in Process, NEW j \in Jobs, ClaimJob(p, j)
    PROVE  DispatchStep
<1> USE DEF TypeInv, PoolTypeOK
<1>1. /\ Claim(p[1], loaded[p], j)
      /\ pc[p] = "claim" /\ pc' = [pc EXCEPT ![p] = "run"]
      /\ held' = [held EXCEPT ![p] = j]
  BY DEF ClaimJob
<1>2. /\ jobs[j].status = "queued" /\ jobs'[j].status = "running"
      /\ \A i \in Jobs \ {j} : jobs'[i] = jobs[i]
  BY <1>1, ClaimEffect
<1>3. claims' = [claims EXCEPT ![j] = @ + 1]
  BY <1>1 DEF Claim
<1>4. claims[j] < MaxAttempts
  <2>1. claims[j] = jobs[j].attempt - 1
    BY <1>2 DEF PoolInv, AttemptsCountClaims, Status
  <2>2. jobs[j].attempt \in 1..MaxAttempts
    BY CapOfPool DEF QueueTypeOK, Row
  <2> QED
    BY <2>1, <2>2, BoundsAssumption
<1>5. RunnersOf(j) = {}
  BY <1>2 DEF PoolInv, RunInv, RunnersOf, Status
<1>6. \A i \in Jobs : RunnersOf(i)' = IF i = j THEN {p} ELSE RunnersOf(i)
  BY <1>1, <1>5 DEF RunnersOf
<1>7. [i \in Jobs |-> RunnersOf(i)]'
        = [[i \in Jobs |-> RunnersOf(i)] EXCEPT ![j] = {p}]
  BY <1>6
<1>8. Withdrawn' = Withdrawn /\ j \notin Withdrawn
  BY <1>2 DEF Withdrawn, Status
<1>9. Dispatch!Start(j, p)
  BY <1>3, <1>4, <1>5, <1>7, <1>8 DEF Dispatch!Start, Withdrawn
<1> QED
  BY <1>9 DEF DispatchStep, Dispatch!DispatchNext

LEMMA WithdrawingStep ==
    ASSUME TypeInv, PoolInv, NEW j \in Jobs, CancelQueued(j)
    PROVE  DispatchStep
<1> USE DEF TypeInv, PoolTypeOK
<1>1. /\ jobs[j].status = "queued" /\ jobs'[j].status = "cancelled"
      /\ \A i \in Jobs \ {j} : jobs'[i] = jobs[i]
      /\ claims' = claims
  BY CancelEffect DEF CancelQueued
<1>2. Withdrawn' = Withdrawn \cup {j}
  BY <1>1 DEF Withdrawn, Status
<1>3. RunnersOf(j) = {}
  BY <1>1 DEF PoolInv, RunInv, RunnersOf, Status
<1>4. [i \in Jobs |-> RunnersOf(i)]' = [i \in Jobs |-> RunnersOf(i)]
  BY DEF RunnersOf, CancelQueued, ClientUnchanged, workerVars
<1>5. Dispatch!Withdraw(j)
  BY <1>1, <1>2, <1>3, <1>4 DEF Dispatch!Withdraw, Withdrawn
<1> QED
  BY <1>5 DEF DispatchStep, Dispatch!DispatchNext

\* A row that is not queued and not cancelled does not become cancelled.
LEMMA WithdrawnKept ==
    ASSUME NEW j \in Jobs, Status(j) # "cancelled", jobs'[j].status # "cancelled",
           \A i \in Jobs \ {j} : jobs'[i] = jobs[i]
    PROVE  Withdrawn' = Withdrawn
BY DEF Withdrawn, Status

LEMMA RefinementStep ==
    ASSUME TypeInv, PoolInv, [Next]_vars
    PROVE  DispatchStep
<1> USE DEF TypeInv, PoolTypeOK, HoldsAJob
<1>1. ASSUME NEW p \in Process, WorkerStep(p) PROVE DispatchStep
  <2>1. ASSUME NEW j \in Jobs, ClaimJob(p, j) PROVE DispatchStep
    BY <2>1, StartingStep
  <2>2. CASE CheckMaintenance(p) \/ ClaimNothing(p) \/ LoopAgain(p)
    BY <2>2, InvisibleStep DEF CheckMaintenance, ClaimNothing, LoopAgain,
       Withdrawn, Status
  <2>3. CASE FinishJob(p) \/ FailJob(p)
    <3>1. pc[p] = "run" /\ held[p] \in Jobs /\ (MarkDone(held[p]) \/ MarkFailed(held[p]))
      BY <2>3 DEF FinishJob, FailJob
    <3>2. Status(held[p]) = "running"
      BY <3>1 DEF PoolInv, RunInv
    <3>3. claims' = claims /\ Withdrawn' = Withdrawn
      BY <3>1, <3>2, SettleEffect, WithdrawnKept
    <3>4. pc' = [pc EXCEPT ![p] = "ran"] /\ held' = [held EXCEPT ![p] = Nil]
      BY <2>3 DEF FinishJob, FailJob
    <3> QED
      BY <3>3, <3>4, EndingStep DEF WorkerPcs
  <2>4. CASE ExitForMaintenance(p) \/ Recycle(p) \/ WorkerDies(p)
    BY <2>4, EndingStep DEF ExitForMaintenance, Recycle, WorkerDies, Ends,
       WorkerPcs, Withdrawn, Status
  <2> QED
    BY <1>1, <2>1, <2>2, <2>3, <2>4 DEF WorkerStep, WorkerLoop
<1>2. ASSUME NEW w \in Workers, StartSpawn(w) \/ TopUpSpawn(w) PROVE DispatchStep
  BY <1>2, EndingStep, ProcessFacts DEF StartSpawn, TopUpSpawn, Spawn,
     TableUnchanged, WorkerPcs, Withdrawn, Status
<1>3. ASSUME NEW w \in Workers, ShutdownKill(w) PROVE DispatchStep
  BY <1>3, EndingStep, ProcessFacts DEF ShutdownKill, Ends, TableUnchanged,
     WorkerPcs, Withdrawn, Status
<1>4. ASSUME NEW r \in rows, WatchKill(r) PROVE DispatchStep
  BY <1>4, EndingStep, ProcessFacts DEF WatchKill, Ends, TableUnchanged,
     WorkerPcs, Withdrawn, Status
<1>5. ASSUME NEW r \in rows, Reconcile(r) PROVE DispatchStep
  <2>1. FinishReclaim(r[1]) /\ r[1] \in Jobs /\ UNCHANGED workerVars
    BY <1>5 DEF Reconcile
  <2>2. Status(r[1]) # "cancelled"
    BY DEF PoolInv, RowsInv, ClaimedStatuses
  <2>3. claims' = claims /\ Withdrawn' = Withdrawn
    BY <2>1, <2>2, PoolReclaimEffect, WithdrawnKept
  <2> QED
    BY <2>1, <2>3, InvisibleStep DEF workerVars
<1>6. CASE WatchReclaim
  <2>1. supPc = "reclaim" /\ FinishReclaim(cur) /\ cur \in Jobs /\ UNCHANGED workerVars
    BY <1>6 DEF WatchReclaim
  <2>2. Status(cur) # "cancelled"
    BY <2>1 DEF PoolInv, ReclaimInv, ClaimedStatuses
  <2>3. claims' = claims /\ Withdrawn' = Withdrawn
    BY <2>1, <2>2, PoolReclaimEffect, WithdrawnKept
  <2> QED
    BY <2>1, <2>3, InvisibleStep DEF workerVars
<1>7. CASE UNCHANGED <<jobs, claims, workerVars>>
  BY <1>7, InvisibleStep DEF workerVars, Withdrawn, Status
<1>8. SupervisorStep => \/ \E w \in Workers : \/ StartSpawn(w) \/ TopUpSpawn(w)
                                              \/ ShutdownKill(w)
                        \/ \E r \in rows : WatchKill(r) \/ Reconcile(r)
                        \/ WatchReclaim
                        \/ UNCHANGED <<jobs, claims, workerVars>>
  BY DEF SupervisorStep, SupervisorLoop, TableUnchanged, GraceOver, PollAlive,
     PollDead, WatchSkip, StartDone, ReconcileDone, WatchBegins, WatchDone,
     TopUpCheck, TopUpDone, WakeUp, ShutdownDone, StartAborts, Stop,
     SupervisorKilled, Restart, BeginReclaim, ReadAttempt, AbandonReclaim
<1>9. ASSUME NEW j \in Jobs, CancelQueued(j) PROVE DispatchStep
  BY <1>9, WithdrawingStep
<1>10. ASSUME NEW j \in Jobs, Submit(j) PROVE DispatchStep
  <2>1. PICK m \in Models, q \in Priorities, s \in Seconds : Enqueue(j, m, q, s)
    BY <1>10 DEF Submit
  <2>2. claims' = claims /\ Withdrawn' = Withdrawn
    BY <2>1, EnqueueEffect, WithdrawnKept DEF Status
  <2> QED
    BY <1>10, <2>2, InvisibleStep DEF Submit, ClientUnchanged, workerVars
<1>11. ASSUME NEW j \in Jobs, BackoffOver(j) \/ TimesOut(j) PROVE DispatchStep
  <2>1. claims' = claims /\ Withdrawn' = Withdrawn
    BY <1>11, ClockEffect DEF BackoffOver, TimesOut, Withdrawn, Status
  <2> QED
    BY <1>11, <2>1, InvisibleStep DEF BackoffOver, TimesOut, ClientUnchanged, workerVars
<1>12. CASE Drain \/ Resume \/ UNCHANGED vars
  BY <1>12, <1>7 DEF Drain, Resume, TableUnchanged, ClientUnchanged, vars
<1> QED
  BY <1>1, <1>2, <1>3, <1>4, <1>5, <1>6, <1>7, <1>8, <1>9, <1>10, <1>11, <1>12
  DEF Next, ClientStep, ClockStep

\* The pool, with its processes, snapshots, crashes and kills, does nothing a
\* dispatcher may not do that runs each job on at most one worker, at most
\* max_attempts times, and never again once it is cancelled.
THEOREM PoolRefinesDispatch ==
    ASSUME ~RestartAfterLoss
    PROVE  Spec => ImplementsDispatch
<1>1. Init => Dispatch!DispatchInit
  BY DEF Init, QueueInit, Dispatch!DispatchInit, RunnersOf, Status, NoRow
<1>2. TypeInv /\ PoolInv /\ [Next]_vars => [Dispatch!DispatchNext]_(Dispatch!dispatchVars)
  BY RefinementStep DEF DispatchStep
<1> QED
  BY <1>1, <1>2, TypeInvariant, PoolInvariant, PTL
  DEF Spec, ImplementsDispatch, Dispatch!DispatchSpec

\* A cancelled job stays cancelled and is never executed again, although
\* mark_done, mark_failed and requeue_or_fail would overwrite its row whatever
\* it says: whoever could call them has a job that was not cancelled. A worker
\* left behind by a lost supervisor could break it.
THEOREM CancellationIsFinal ==
    ASSUME ~RestartAfterLoss
    PROVE  Spec => CancelledStaysCancelled
<1>1. ASSUME TypeInv, PoolInv, PoolInv', [Next]_vars, NEW j \in Jobs, Status(j) = "cancelled"
      PROVE  Status(j)' = "cancelled" /\ RunnersOf(j)' = {} /\ claims'[j] = claims[j]
  <2>1. DispatchStep
    BY <1>1, RefinementStep
  <2>2. j \in Withdrawn
    BY <1>1 DEF Withdrawn
  <2>3. Withdrawn \subseteq Withdrawn'
    BY <2>1 DEF DispatchStep, Dispatch!DispatchNext, Dispatch!Start, Dispatch!End,
                Dispatch!Withdraw, Dispatch!dispatchVars, Withdrawn
  <2>4. Status(j)' = "cancelled"
    BY <2>2, <2>3 DEF Withdrawn
  <2>5. RunnersOf(j)' = {}
    BY <1>1, <2>4 DEF PoolInv, RunInv, RunnersOf
  <2>6. claims'[j] = claims[j]
    BY <1>1, <2>1, <2>2 DEF DispatchStep, Dispatch!DispatchNext, Dispatch!Start,
       Dispatch!End, Dispatch!Withdraw, Dispatch!dispatchVars, Withdrawn,
       TypeInv, PoolTypeOK, QueueTypeOK
  <2> QED
    BY <2>4, <2>5, <2>6
<1>2. TypeInv /\ PoolInv /\ PoolInv' /\ [Next]_vars
        => [\A j \in Jobs : Status(j) = "cancelled" =>
               Status(j)' = "cancelled" /\ RunnersOf(j)' = {} /\ claims'[j] = claims[j]]_vars
  BY <1>1
<1> QED
  BY <1>2, TypeInvariant, PoolInvariant, PTL DEF Spec, CancelledStaysCancelled

-----------------------------------------------------------------------------
(* Refinement: the pool implements the queue that JobQueue specifies. This  *)
(* needs no condition on the supervisors, so what the queue promises to     *)
(* callers it does not trust, a pool with stray workers keeps as well.      *)

LEMMA SupervisorQueueStep ==
    ASSUME TypeInv, TouchedInv, SupervisorStep
    PROVE  [QueueNext]_queueVars
<1> USE SupervisorReclaims DEF TypeInv, PoolTypeOK, HoldsAJob
<1>1. CASE WatchReclaim \/ \E r \in rows : Reconcile(r)
  BY <1>1 DEF WatchReclaim, Reconcile, FinishReclaim, QueueNext, ReclaimAny
<1>2. CASE BeginReclaim
  BY <1>2 DEF BeginReclaim, TouchedInv, QueueNext, ReadAny
<1>3. CASE Stop \/ SupervisorKilled
  BY <1>3 DEF Stop, SupervisorKilled, QueueNext, AbandonAny
<1>4. SupervisorStep => \/ WatchReclaim \/ \E r \in rows : Reconcile(r)
                        \/ BeginReclaim \/ Stop \/ SupervisorKilled
                        \/ UNCHANGED queueVars
  BY DEF SupervisorStep, SupervisorLoop, TableUnchanged, StartSpawn, GraceOver,
     PollAlive, PollDead, TopUpSpawn, ShutdownKill, WatchSkip, WatchKill, StartDone,
     ReconcileDone, WatchBegins, WatchDone, TopUpCheck, TopUpDone, WakeUp,
     ShutdownDone, StartAborts, Restart, queueVars
<1> QED
  BY <1>1, <1>2, <1>3, <1>4

LEMMA QueueStep ==
    ASSUME TypeInv, TouchedInv, [Next]_vars
    PROVE  [QueueNext]_queueVars
<1> USE DEF TypeInv, PoolTypeOK, HoldsAJob
<1>1. ASSUME NEW p \in Process, WorkerStep(p) PROVE [QueueNext]_queueVars
  <2>1. ASSUME NEW j \in Jobs, ClaimJob(p, j) PROVE QueueNext
    <3>1. Claim(p[1], loaded[p], j) /\ p[1] \in Workers /\ loaded[p] \in Models \cup {Nil}
      BY <2>1, ProcessFacts DEF ClaimJob
    <3>2. ClaimAny
      BY <3>1 DEF ClaimAny
    <3> QED
      BY <3>2 DEF QueueNext
  <2>2. CASE FinishJob(p) \/ FailJob(p)
    BY <2>2 DEF FinishJob, FailJob, TouchedInv, QueueNext, SettleAny
  <2> QED
    BY <1>1, <2>1, <2>2 DEF WorkerStep, WorkerLoop, CheckMaintenance, ClaimNothing,
       LoopAgain, ExitForMaintenance, Recycle, WorkerDies, WorkerUnchanged, supVars,
       queueVars
<1>2. CASE SupervisorStep
  BY <1>2, SupervisorQueueStep
<1>3. ASSUME NEW j \in Jobs, Submit(j) PROVE QueueNext
  BY <1>3 DEF Submit, QueueNext, EnqueueAny
<1>4. ASSUME NEW j \in Jobs, CancelQueued(j) PROVE QueueNext
  BY <1>4 DEF CancelQueued, QueueNext, CancelAny
<1>5. ASSUME NEW j \in Jobs, BackoffOver(j) \/ TimesOut(j) PROVE QueueNext
  BY <1>5 DEF BackoffOver, TimesOut, QueueNext, ClockTicks
<1>6. CASE Drain \/ Resume \/ UNCHANGED vars
  BY <1>6 DEF Drain, Resume, TableUnchanged, vars, supVars, queueVars
<1> QED
  BY <1>1, <1>2, <1>3, <1>4, <1>5, <1>6 DEF Next, ClientStep, ClockStep

LEMMA TouchedStep ==
    ASSUME TypeInv, ClaimsInv, TouchedInv, [Next]_vars
    PROVE  TouchedInv'
<1> USE DEF TypeInv, PoolTypeOK, HoldsAJob
<1>1. \A j \in Jobs : claims[j] > 0 => claims'[j] > 0
  BY QueueStep, ClaimsGrow
<1>2. \A r \in RunningRows : r[1] \in Jobs /\ claims[r[1]] > 0
  BY DEF RunningRows, ClaimsInv, RowClaimsInv
<1>3. CASE \* nothing new is held, listed or reclaimed
           /\ \A p \in Process : pc'[p] = "run" => pc[p] = "run" /\ held'[p] = held[p]
           /\ rows' \subseteq rows \cup RunningRows
           /\ supPc' = "reclaim" => \/ supPc = "reclaim" /\ cur' = cur
                                    \/ \E r \in rows : cur' = r[1]
  <2>1. \A p \in Process : pc'[p] = "run" => claims'[held'[p]] > 0
    BY <1>1, <1>3 DEF TouchedInv
  <2>2. \A r \in rows' : claims'[r[1]] > 0
    BY <1>1, <1>2, <1>3 DEF TouchedInv
  <2>3. supPc' = "reclaim" => claims'[cur'] > 0
    BY <1>1, <1>3 DEF TouchedInv
  <2> QED
    BY <2>1, <2>2, <2>3 DEF TouchedInv
<1>4. ASSUME NEW p \in Process, WorkerStep(p) PROVE TouchedInv'
  <2> USE DEF WorkerUnchanged, supVars
  <2>1. ASSUME NEW j \in Jobs, ClaimJob(p, j) PROVE TouchedInv'
    <3>1. claims'[j] > 0
      BY <2>1, ClaimEffect DEF ClaimJob, QueueTypeOK
    <3>2. /\ pc' = [pc EXCEPT ![p] = "run"] /\ held' = [held EXCEPT ![p] = j]
          /\ UNCHANGED <<rows, supPc, cur>>
      BY <2>1 DEF ClaimJob
    <3>3. \A q \in Process : pc'[q] = "run" =>
              held'[q] = j \/ (pc[q] = "run" /\ held'[q] = held[q])
      BY <3>2
    <3>4. \A q \in Process : pc'[q] = "run" => claims'[held'[q]] > 0
      BY <1>1, <3>1, <3>3 DEF TouchedInv
    <3>5. \A r \in rows' : claims'[r[1]] > 0
      BY <1>1, <3>2 DEF TouchedInv
    <3>6. supPc' = "reclaim" => claims'[cur'] > 0
      BY <1>1, <3>2 DEF TouchedInv
    <3> QED
      BY <3>4, <3>5, <3>6 DEF TouchedInv
  <2>2. CASE CheckMaintenance(p) \/ ClaimNothing(p) \/ LoopAgain(p)
    BY <2>2, <1>3 DEF CheckMaintenance, ClaimNothing, LoopAgain
  <2>3. CASE ExitForMaintenance(p) \/ Recycle(p) \/ WorkerDies(p)
    BY <2>3, <1>3 DEF ExitForMaintenance, Recycle, WorkerDies, Ends
  <2>4. CASE FinishJob(p) \/ FailJob(p)
    BY <2>4, <1>3 DEF FinishJob, FailJob
  <2> QED
    BY <1>4, <2>1, <2>2, <2>3, <2>4 DEF WorkerStep, WorkerLoop
<1>5. CASE SupervisorStep
  <2> USE DEF workerVars, Spawn, Ends
  <2>1. ASSUME NEW w \in Workers, StartSpawn(w) \/ TopUpSpawn(w) \/ ShutdownKill(w)
        PROVE  TouchedInv'
    BY <2>1, <1>3 DEF StartSpawn, TopUpSpawn, ShutdownKill
  <2>2. ASSUME NEW w \in Workers, GraceOver(w) \/ PollAlive(w) \/ PollDead(w)
        PROVE  TouchedInv'
    BY <2>2, <1>3 DEF GraceOver, PollAlive, PollDead
  <2>3. ASSUME NEW r \in rows, Reconcile(r) \/ WatchSkip(r) \/ WatchKill(r)
        PROVE  TouchedInv'
    BY <2>3, <1>3 DEF Reconcile, WatchSkip, WatchKill
  <2>4. CASE StartDone \/ ReconcileDone \/ WatchBegins \/ WatchReclaim \/ WatchDone
    BY <2>4, <1>3 DEF StartDone, ReconcileDone, WatchBegins, WatchReclaim, WatchDone
  <2>5. CASE TopUpCheck \/ TopUpDone \/ WakeUp \/ ShutdownDone \/ BeginReclaim
    BY <2>5, <1>3 DEF TopUpCheck, TopUpDone, WakeUp, ShutdownDone, BeginReclaim
  <2>6. CASE StartAborts \/ Stop \/ SupervisorKilled \/ Restart
    BY <2>6, <1>3 DEF StartAborts, Stop, SupervisorKilled, Restart
  <2> QED
    BY <1>5, <2>1, <2>2, <2>3, <2>4, <2>5, <2>6 DEF SupervisorStep, SupervisorLoop
<1>6. CASE ClientStep \/ ClockStep \/ UNCHANGED vars
  <2>1. UNCHANGED <<workerVars, supVars>>
    BY <1>6 DEF ClientStep, ClockStep, Submit, CancelQueued, Drain, Resume,
       BackoffOver, TimesOut, ClientUnchanged, vars
  <2> QED
    BY <2>1, <1>3 DEF workerVars, supVars
<1> QED
  BY <1>4, <1>5, <1>6 DEF Next

\* Whatever the processes do, workers left over from a lost supervisor included,
\* the statements they run on the jobs table are a behaviour of the queue: no
\* row is settled or reclaimed that nobody ever claimed, and every claim is one
\* claim_next_job may make.
THEOREM PoolRefinesQueue == Spec => ImplementsQueue
<1>1. Init => QueueInit
  BY DEF Init
<1>2. Init => ClaimsInv
  BY ClaimsInit DEF Init
<1>3. Init => TouchedInv
  BY DEF Init, TouchedInv
<1>4. TypeInv /\ ClaimsInv /\ TouchedInv /\ [Next]_vars
        => [QueueNext]_queueVars /\ ClaimsInv' /\ TouchedInv'
  <2> SUFFICES ASSUME TypeInv, ClaimsInv, TouchedInv, [Next]_vars
               PROVE  [QueueNext]_queueVars /\ ClaimsInv' /\ TouchedInv'
    OBVIOUS
  <2>1. [QueueNext]_queueVars
    BY QueueStep
  <2>2. ClaimsInv'
    BY <2>1, ClaimsInvStep DEF TypeInv, PoolTypeOK
  <2>3. TouchedInv'
    BY TouchedStep
  <2> QED
    BY <2>1, <2>2, <2>3
<1> QED
  BY <1>1, <1>2, <1>3, <1>4, TypeInvariant, PTL DEF Spec, ImplementsQueue, QueueSpec

\* The cap of requeue_or_fail holds exactly in the pool, whatever becomes of its
\* supervisors: no job is begun more than max_attempts times, even when stray
\* workers write to rows that meanwhile belong to others. The check of attempt and
\* its increment are two statements here too; what the queue cannot promise to
\* several reclaimers it promises to the one supervisor.
THEOREM PoolCapsAttempts ==
    Spec => [](ClaimsBounded /\ \A j \in Jobs : claims[j] <= MaxAttempts)
<1>1. ClaimsBounded => \A j \in Jobs : claims[j] <= MaxAttempts
  BY CapOfPool DEF ClaimsBounded
<1> QED
  BY <1>1, PoolRefinesQueue, ClaimsAreBounded, PTL DEF ImplementsQueue

\* Beside stray workers the attempt column may count too many executions, for they
\* settle jobs that are back in the queue, but never too few.
THEOREM AttemptsCoverExecutions == Spec => [](\A j \in Jobs : claims[j] <= jobs[j].attempt)
<1>1. ClaimsInv => \A j \in Jobs : claims[j] <= jobs[j].attempt
  BY DEF ClaimsInv, RowClaimsInv
<1> QED
  BY <1>1, PoolRefinesQueue, ClaimsInvariant, PTL DEF ImplementsQueue

\* In the pool as well, of two jobs of one kind that are in the table together the
\* older is started first, whoever claims and however the supervisor's reclaims,
\* deaths of workers and cancellations fall between. Submit puts no condition on
\* created_at, so handlers may read the clock in one order and insert in another.
THEOREM PoolServesInOrder == Spec => StartedInOrder
BY PoolRefinesQueue, QueueIsFair, PTL DEF ImplementsQueue

-----------------------------------------------------------------------------
(* What a lost supervisor cannot spoil. Its workers are still alive, claim  *)
(* jobs under the ids of the present workers and settle rows that are no    *)
(* longer theirs. No condition on the supervisors here.                     *)

\* The steps that neither write a row nor start a run.
LEMMA IdleStepKeepsOwnInv ==
    ASSUME TypeInv, OwnInv, jobs' = jobs, UNCHANGED <<rows, cur, restarts>>,
           \A p \in Process : Alive(p)' => Alive(p) \/ p[2] = restarts,
           \A p \in Process : pc'[p] = "run" => pc[p] = "run" /\ held'[p] = held[p],
           supPc' = "reconcile" =>
               /\ supPc = "reconcile"
               /\ \A p \in Process : ~Alive(p) => ~Alive(p)',
           supPc' = "reclaim" => supPc = "reclaim"
    PROVE  OwnInv'
<1> USE DEF OwnInv, Status, Alive, Proc, TypeInv, PoolTypeOK
<1>1. OwnRunInv'
  BY DEF OwnRunInv
<1>2. OwnRowsInv'
  <2>1. supPc' = "reconcile" => \A r \in rows' : ~Alive(Proc(r[2]))'
    BY ProcessFacts DEF OwnRowsInv
  <2> QED
    BY <2>1 DEF OwnRowsInv, ClaimedStatuses
<1>3. OwnReclaimInv'
  BY DEF OwnReclaimInv, OwnRunnersOf, RunnersOf, ClaimedStatuses
<1> QED
  BY <1>1, <1>2, <1>3

\* The statements that write no row somebody has claimed, or leave its worker
\* and its status among the claimed ones: all but the claim and the requeue.
LEMMA RowStepKeepsOwnInv ==
    ASSUME TypeInv, OwnInv, UNCHANGED <<rows, cur, supPc, restarts>>,
           \A p \in Process : Alive(p)' => Alive(p),
           \A p \in Process : pc'[p] = "run" => pc[p] = "run" /\ held'[p] = held[p],
           \A j \in Jobs : Status(j) \in ClaimedStatuses =>
               Status(j)' \in ClaimedStatuses /\ jobs'[j].worker = jobs[j].worker
    PROVE  OwnInv'
<1> USE DEF OwnInv, TypeInv, PoolTypeOK, HoldsAJob
<1>1. OwnRunInv'
  BY DEF OwnRunInv
<1>2. OwnRowsInv'
  <2>1. supPc' = "reconcile" => \A r \in rows' : ~Alive(Proc(r[2]))'
    BY ProcessFacts DEF OwnRowsInv, Alive, Proc
  <2>2. \A r \in rows' : Status(r[1])' \in ClaimedStatuses
    BY DEF OwnRowsInv
  <2> QED
    BY <2>1, <2>2 DEF OwnRowsInv
<1>3. OwnReclaimInv'
  BY DEF OwnReclaimInv, OwnRunnersOf, RunnersOf
<1> QED
  BY <1>1, <1>2, <1>3

LEMMA WorkerKeepsOwnInv ==
    ASSUME TypeInv, OwnInv, NEW p \in Process, WorkerStep(p)
    PROVE  OwnInv'
<1> USE DEF TypeInv, PoolTypeOK, HoldsAJob, WorkerUnchanged, supVars
<1>1. CASE \/ CheckMaintenance(p) \/ ClaimNothing(p) \/ LoopAgain(p)
           \/ ExitForMaintenance(p) \/ Recycle(p) \/ WorkerDies(p)
  BY <1>1, IdleStepKeepsOwnInv DEF CheckMaintenance, ClaimNothing, LoopAgain,
     ExitForMaintenance, Recycle, WorkerDies, Ends, Alive
<1>2. CASE FinishJob(p) \/ FailJob(p)
  <2>1. held[p] \in Jobs /\ (MarkDone(held[p]) \/ MarkFailed(held[p]))
    BY <1>2 DEF FinishJob, FailJob
  <2>2. /\ pc' = [pc EXCEPT ![p] = "ran"] /\ pc[p] = "run"
        /\ held' = [held EXCEPT ![p] = Nil]
        /\ UNCHANGED supVars
    BY <1>2 DEF FinishJob, FailJob
  <2>3. \A j \in Jobs : Status(j) \in ClaimedStatuses =>
            Status(j)' \in ClaimedStatuses /\ jobs'[j].worker = jobs[j].worker
    <3>1. /\ jobs'[held[p]].status \in {"done", "failed"}
          /\ jobs'[held[p]].worker = jobs[held[p]].worker
          /\ \A i \in Jobs \ {held[p]} : jobs'[i] = jobs[i]
      BY <2>1, SettleEffect
    <3> QED
      BY <3>1 DEF Status, ClaimedStatuses
  <2> QED
    BY <2>2, <2>3, RowStepKeepsOwnInv DEF Alive
<1>3. ASSUME NEW j \in Jobs, ClaimJob(p, j) PROVE OwnInv'
  <2> USE DEF OwnInv
  <2>1. /\ pc[p] = "claim" /\ pc' = [pc EXCEPT ![p] = "run"]
        /\ held' = [held EXCEPT ![p] = j]
        /\ UNCHANGED supVars
    BY <1>3 DEF ClaimJob
  <2>2. /\ jobs[j].status = "queued" /\ jobs'[j].status = "running"
        /\ jobs'[j].worker = p[1]
        /\ \A i \in Jobs \ {j} : jobs'[i] = jobs[i]
    BY <1>3, ClaimEffect DEF ClaimJob
  <2>3. \A q \in Process : pc[q] = "run" /\ q[2] = restarts => held[q] # j
    BY <2>2 DEF OwnRunInv, ClaimedStatuses, Status
  <2>4. OwnRunInv'
    BY <2>1, <2>2, <2>3 DEF OwnRunInv, ClaimedStatuses, Status, Alive
  <2>5. \A r \in rows : r[1] \in Jobs /\ r[1] # j
    BY <2>2 DEF OwnRowsInv, ClaimedStatuses, Status
  <2>6. OwnRowsInv'
    BY <2>1, <2>2, <2>5 DEF OwnRowsInv, ClaimedStatuses, Status, Alive, Proc
  <2>7. OwnReclaimInv'
    BY <2>1, <2>2 DEF OwnReclaimInv, OwnRunnersOf, RunnersOf, ClaimedStatuses, Status
  <2> QED
    BY <2>4, <2>6, <2>7
<1> QED
  BY <1>1, <1>2, <1>3 DEF WorkerStep, WorkerLoop

\* A requeue of a job no own worker executes and no other row lists.
LEMMA RequeueKeepsOwnInv ==
    ASSUME TypeInv, OwnInv, NEW j \in Jobs, FinishReclaim(j), OwnRunnersOf(j) = {},
           UNCHANGED <<pc, held, restarts>>,
           rows' \subseteq rows, \A r \in rows' : r[1] # j,
           supPc' = "reconcile" => supPc = "reconcile", supPc' # "reclaim"
    PROVE  OwnInv'
<1> USE DEF TypeInv, PoolTypeOK, HoldsAJob, OwnInv, Status
<1>1. \A i \in Jobs \ {j} : jobs'[i] = jobs[i]
  BY PoolReclaimEffect
<1>2. OwnRunInv'
  BY <1>1 DEF OwnRunInv, OwnRunnersOf, RunnersOf, Alive
<1>3. OwnRowsInv'
  BY <1>1 DEF OwnRowsInv, Alive, Proc
<1> QED
  BY <1>2, <1>3 DEF OwnReclaimInv

\* The supervisor reads the running rows: all of them, or those of a dead worker.
LEMMA ListingKeepsOwnInv ==
    ASSUME TypeInv, OwnInv, rows' \subseteq RunningRows,
           UNCHANGED <<jobs, pc, held, restarts>>,
           supPc' = "reconcile" => \A r \in rows' : ~Alive(Proc(r[2])),
           supPc' # "reclaim"
    PROVE  OwnInv'
<1> USE DEF TypeInv, PoolTypeOK, OwnInv, Status
<1>1. OwnRunInv'
  BY DEF OwnRunInv, Alive
<1>2. OwnRowsInv'
  BY DEF OwnRunInv, OwnRowsInv, RunningRows, ClaimedStatuses, Alive, Proc
<1> QED
  BY <1>1, <1>2 DEF OwnReclaimInv

LEMMA SupervisorKeepsOwnInv ==
    ASSUME TypeInv, OwnInv, SupervisorStep
    PROVE  OwnInv'
<1> USE DEF TypeInv, PoolTypeOK, HoldsAJob
<1> USE DEF SupervisorUnchanged, TableUnchanged, workerVars
<1>1. ASSUME NEW w \in Workers, StartSpawn(w) \/ TopUpSpawn(w) PROVE OwnInv'
  BY <1>1, IdleStepKeepsOwnInv DEF StartSpawn, TopUpSpawn, Spawn, Alive, Proc, Process
<1>2. ASSUME NEW w \in Workers, GraceOver(w) \/ PollAlive(w) PROVE OwnInv'
  BY <1>2, IdleStepKeepsOwnInv DEF GraceOver, PollAlive, Alive
<1>3. ASSUME NEW w \in Workers, ShutdownKill(w) PROVE OwnInv'
  BY <1>3, IdleStepKeepsOwnInv DEF ShutdownKill, Ends, Alive
<1>4. ASSUME NEW w \in Workers, PollDead(w) PROVE OwnInv'
  BY <1>4, ListingKeepsOwnInv DEF PollDead
<1>5. CASE WatchBegins
  BY <1>5, ListingKeepsOwnInv DEF WatchBegins
<1>6. ASSUME NEW r \in rows, Reconcile(r) PROVE OwnInv'
  <2>1. /\ supPc = "reconcile" /\ FinishReclaim(r[1]) /\ r[1] \in Jobs
        /\ rows' = rows \ {r}
        /\ UNCHANGED <<supPc, restarts, pc, held>>
    BY <1>6 DEF Reconcile
  <2>2. OwnRunnersOf(r[1]) = {}
    BY <2>1, ProcessFacts DEF OwnInv, OwnRowsInv, OwnRunnersOf, RunnersOf, Alive
  <2>3. \A t \in rows' : t[1] # r[1]
    BY <2>1 DEF OwnInv, OwnRowsInv
  <2> QED
    BY <2>1, <2>2, <2>3, RequeueKeepsOwnInv
<1>7. CASE WatchReclaim
  <2>1. /\ supPc = "reclaim" /\ FinishReclaim(cur) /\ cur \in Jobs /\ supPc' = "watch"
        /\ UNCHANGED <<rows, restarts, pc, held>>
    BY <1>7 DEF WatchReclaim
  <2>2. OwnRunnersOf(cur) = {} /\ \A r \in rows : r[1] # cur
    BY <2>1 DEF OwnInv, OwnReclaimInv
  <2> QED
    BY <2>1, <2>2, RequeueKeepsOwnInv
<1>8. ASSUME NEW r \in rows, WatchSkip(r) PROVE OwnInv'
  BY <1>8 DEF WatchSkip, OwnInv, OwnRunInv, OwnRowsInv, OwnReclaimInv, ClaimedStatuses,
              Status, Alive
<1>9. ASSUME NEW r \in rows, WatchKill(r) PROVE OwnInv'
  <2> USE DEF OwnInv
  <2>1. /\ supPc = "watch" /\ supPc' = "reclaim"
        /\ pc' = [pc EXCEPT ![Proc(r[2])] = "dead"]
        /\ held' = [held EXCEPT ![Proc(r[2])] = Nil]
        /\ rows' = rows \ {r} /\ cur' = r[1]
        /\ UNCHANGED <<jobs, restarts>>
    BY <1>9 DEF WatchKill, Ends
  <2>2. Proc(r[2]) \in Process
    BY ProcessFacts
  <2>3. \A p \in Process : pc'[p] = "run" => pc[p] = "run" /\ held'[p] = held[p]
    BY <2>1, <2>2
  <2>4. OwnRunInv'
    BY <2>1, <2>2, <2>3 DEF OwnRunInv, ClaimedStatuses, Status, Alive
  <2>5. OwnRowsInv'
    BY <2>1, <2>3 DEF OwnRowsInv, ClaimedStatuses, Status
  <2>6. \A p \in Process : ~(pc'[p] = "run" /\ held'[p] = r[1] /\ p[2] = restarts)
    BY <2>1, <2>2, <2>3, ProcessFacts DEF OwnRowsInv
  <2>7. OwnReclaimInv'
    BY <2>1, <2>6 DEF OwnRowsInv, OwnReclaimInv, OwnRunnersOf, RunnersOf,
                      ClaimedStatuses, Status
  <2> QED
    BY <2>4, <2>5, <2>7
<1>10. CASE \/ StartDone \/ ReconcileDone \/ WatchDone \/ TopUpCheck \/ TopUpDone
            \/ WakeUp \/ ShutdownDone \/ StartAborts \/ BeginReclaim
  BY <1>10, IdleStepKeepsOwnInv DEF StartDone, ReconcileDone, WatchDone,
     TopUpCheck, TopUpDone, WakeUp, ShutdownDone, StartAborts, BeginReclaim,
     ReadAttempt, Alive
<1>11. CASE Stop \/ SupervisorKilled
  BY <1>11 DEF Stop, SupervisorKilled, AbandonReclaim, OwnInv, OwnRunInv,
               OwnRowsInv, OwnReclaimInv, ClaimedStatuses, Status, Alive
<1>12. CASE Restart
  <2>1. /\ restarts' = restarts + 1 /\ supPc' = "start"
        /\ UNCHANGED <<jobs, rows, pc, held>>
    BY <1>12 DEF Restart
  <2>2. \A p \in Process : Alive(p)' => Alive(p) /\ p[2] <= restarts /\ p[2] # restarts'
    BY <2>1, ProcessFacts, PoolBoundsAssumption DEF OwnInv, OwnRunInv, Alive
  <2>3. OwnRunInv'
    BY <2>1, <2>2, ProcessFacts, PoolBoundsAssumption DEF OwnRunInv, Alive
  <2>4. OwnRowsInv'
    BY <2>1, <2>2 DEF OwnInv, OwnRowsInv, ClaimedStatuses, Status, Alive
  <2> QED
    BY <2>1, <2>3, <2>4 DEF OwnInv, OwnReclaimInv
<1> QED
  BY <1>1, <1>2, <1>3, <1>4, <1>5, <1>6, <1>7, <1>8, <1>9, <1>10, <1>11, <1>12
  DEF SupervisorStep, SupervisorLoop

LEMMA OutsideKeepsOwnInv ==
    ASSUME TypeInv, OwnInv, ClientStep \/ ClockStep \/ UNCHANGED vars
    PROVE  OwnInv'
<1> USE DEF TypeInv, PoolTypeOK
<1>1. UNCHANGED <<rows, cur, supPc, restarts, pc, held>>
  BY DEF ClientStep, ClockStep, Submit, CancelQueued, Drain, Resume, BackoffOver,
     TimesOut, ClientUnchanged, workerVars, supVars, vars
<1>2. ASSUME NEW j \in Jobs, Status(j) \in ClaimedStatuses
      PROVE  Status(j)' \in ClaimedStatuses /\ jobs'[j].worker = jobs[j].worker
  <2> USE <1>2 DEF Status, ClaimedStatuses
  <2>1. ASSUME NEW i \in Jobs, Submit(i) PROVE jobs'[j] = jobs[j]
    <3>1. PICK m \in Models, q \in Priorities, s \in Seconds : Enqueue(i, m, q, s)
      BY <2>1 DEF Submit
    <3> QED
      BY <3>1, EnqueueEffect
  <2>2. ASSUME NEW i \in Jobs, CancelQueued(i) PROVE jobs'[j] = jobs[j]
    BY <2>2, CancelEffect DEF CancelQueued
  <2>3. ASSUME NEW i \in Jobs, BackoffOver(i) \/ TimesOut(i)
        PROVE  jobs'[j].status = jobs[j].status /\ jobs'[j].worker = jobs[j].worker
    BY <2>3, ClockEffect DEF BackoffOver, TimesOut
  <2>4. CASE Drain \/ Resume \/ UNCHANGED vars
    BY <2>4 DEF Drain, Resume, TableUnchanged, vars
  <2> QED
    BY <2>1, <2>2, <2>3, <2>4 DEF ClientStep, ClockStep
<1> QED
  BY <1>1, <1>2, RowStepKeepsOwnInv DEF Alive

LEMMA OwnInvariant == Spec => []OwnInv
<1>1. Init => OwnInv
  BY DEF Init, OwnInv, OwnRunInv, OwnRowsInv, OwnReclaimInv, Alive
<1>2. TypeInv /\ OwnInv /\ [Next]_vars => OwnInv'
  BY WorkerKeepsOwnInv, SupervisorKeepsOwnInv, OutsideKeepsOwnInv DEF Next
<1> QED
  BY <1>1, <1>2, TypeInvariant, PTL DEF Spec

\* The workers of the present supervisor never share a job, even when a lost one
\* has left workers behind that claim and settle rows under the same ids.
THEOREM OwnWorkersExcludeEachOther == Spec => []OwnExecutionIsExclusive
<1>1. TypeInv /\ OwnInv => OwnExecutionIsExclusive
  BY ProcessFacts DEF OwnInv, OwnRunInv, OwnExecutionIsExclusive, OwnRunnersOf, RunnersOf
<1> QED
  BY <1>1, TypeInvariant, OwnInvariant, PTL

LEMMA OwnReclaimStep ==
    ASSUME TypeInv, OwnInv, [Next]_vars,
           NEW j \in Jobs, Status(j) # "absent", jobs'[j].attempt > jobs[j].attempt
    PROVE  OwnRunnersOf(j) = {}
<1> USE DEF TypeInv, PoolTypeOK, HoldsAJob
<1>1. \/ \E r \in rows : Reconcile(r) /\ r[1] = j
      \/ WatchReclaim /\ cur = j
  BY ReclaimerIsSupervisor
<1>2. ASSUME NEW r \in rows, Reconcile(r), r[1] = j PROVE OwnRunnersOf(j) = {}
  BY <1>2, ProcessFacts DEF Reconcile, OwnInv, OwnRowsInv, OwnRunnersOf, RunnersOf, Alive
<1>3. CASE WatchReclaim /\ cur = j
  BY <1>3 DEF WatchReclaim, OwnInv, OwnReclaimInv
<1> QED
  BY <1>1, <1>2, <1>3

\* The supervisor never takes a job from a worker of its own that executes it,
\* whoever else writes to the row.
THEOREM OwnReclaimIsSafe == Spec => OwnJobsAreNotReclaimed
<1>1. TypeInv /\ OwnInv /\ [Next]_vars
        => [\A j \in Stored :
               jobs'[j].attempt > jobs[j].attempt => OwnRunnersOf(j) = {}]_vars
  BY OwnReclaimStep DEF Stored
<1> QED
  BY <1>1, TypeInvariant, OwnInvariant, PTL DEF Spec, OwnJobsAreNotReclaimed

\* The supervisor never reclaims a job that is back in the queue or cancelled,
\* although it looks at no status but the one it read with its list. It is right
\* whoever else writes to the table, for nobody but the supervisor requeues.
THEOREM ReclaimsSpendOneRetry == Spec => ReclaimsOnlyClaimed
<1>1. ASSUME TypeInv, OwnInv, [Next]_vars, NEW j \in Stored,
             jobs'[j].attempt > jobs[j].attempt
      PROVE  Status(j) \in {"running", "done", "failed"}
  <2>1. \/ \E r \in rows : Reconcile(r) /\ r[1] = j
        \/ WatchReclaim /\ cur = j
    BY <1>1, ReclaimerIsSupervisor DEF Stored
  <2> QED
    BY <1>1, <2>1 DEF WatchReclaim, OwnInv, OwnRowsInv, OwnReclaimInv, ClaimedStatuses
<1>2. TypeInv /\ OwnInv /\ [Next]_vars
        => [\A j \in Stored :
               jobs'[j].attempt > jobs[j].attempt
                   => Status(j) \in {"running", "done", "failed"}]_vars
  BY <1>1
<1> QED
  BY <1>2, TypeInvariant, OwnInvariant, PTL DEF Spec, ReclaimsOnlyClaimed

=============================================================================
