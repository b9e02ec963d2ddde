------------------------------- MODULE JobQueue -------------------------------
(***************************************************************************)
(* The jobs table of simserver and the statements queue.py runs on it.     *)
(* The connection is in autocommit mode, so every statement is one atomic  *)
(* step; the claim is one BEGIN IMMEDIATE transaction and one step too.    *)
(* requeue_or_fail runs two statements and is two steps.                   *)
(*                                                                         *)
(* Times are kept as what the statements read of them: created_at is a     *)
(* whole second, not_before is "still in the future or not" (waiting), and *)
(* started_at is "at least the watchdog timeout ago or not" (overdue).     *)
(* Parameters, outputs, owners and error texts are left out.               *)
(*                                                                         *)
(* A definition whose name begins with Bug is a plausible slip in the one  *)
(* after it; no specification uses it, PROJECT.json says which property    *)
(* notices it.                                                             *)
(***************************************************************************)
EXTENDS Naturals, FiniteSets

CONSTANTS Jobs,          \* ids the AUTOINCREMENT column can hand out
          Models,        \* registered models
          Workers,       \* worker ids
          Priorities,    \* priorities a client may give
          Seconds,       \* values of created_at (bounds the clock)
          MaxAttempts,   \* max_attempts of requeue_or_fail
          Reclaimers,    \* who may be in a call of requeue_or_fail at once
          Nil            \* SQL NULL, Python None

ASSUME BoundsAssumption ==
    /\ Priorities \subseteq Nat
    /\ Seconds \subseteq Nat
    /\ MaxAttempts \in Nat \ {0}

ASSUME ReclaimersAssumption == Reclaimers # {} /\ IsFiniteSet(Reclaimers)

ASSUME NilAssumption == Nil \notin Jobs \cup Models \cup Workers

VARIABLES
    jobs,      \* the table: jobs[j] is row j, or NoRow before its INSERT
    claims,    \* history: claims[j] counts the claims that returned row j
    reclaims   \* locals of requeue_or_fail: its job_id, and attempt < max_attempts

queueVars == <<jobs, claims, reclaims>>

\* The attempt column can overrun max_attempts by one for every reclaimer but
\* the first: each may have read it before the others have written.
AttemptCap == MaxAttempts + (Cardinality(Reclaimers) - 1)

Statuses == {"absent", "queued", "running", "done", "failed", "cancelled"}

Row == [status   : Statuses,
        model    : Models \cup {Nil},
        priority : Priorities \cup {0},
        worker   : Workers \cup {Nil},
        attempt  : 1..AttemptCap,
        created  : Seconds \cup {0},
        waiting  : BOOLEAN,
        overdue  : BOOLEAN]

NoRow == [status |-> "absent", model |-> Nil, priority |-> 0, worker |-> Nil,
          attempt |-> 1, created |-> 0, waiting |-> FALSE, overdue |-> FALSE]

Reclaim == [job : Jobs \cup {Nil}, retry : BOOLEAN]

NoReclaim == [job |-> Nil, retry |-> FALSE]

\* The schema's column types, and attempt within its cap.
QueueTypeOK ==
    /\ jobs \in [Jobs -> Row]
    /\ claims \in [Jobs -> Nat]
    /\ reclaims \in [Reclaimers -> Reclaim]

QueueInit ==
    /\ jobs = [j \in Jobs |-> NoRow]
    /\ claims = [j \in Jobs |-> 0]
    /\ reclaims = [c \in Reclaimers |-> NoReclaim]

Status(j) == jobs[j].status

Stored == {j \in Jobs : Status(j) # "absent"}

-----------------------------------------------------------------------------
(* enqueue_job: the INSERT. created_at is any second: the clock is read     *)
(* before the statement waits for the write lock, rows may overtake each    *)
(* other in between, and nothing says that the clock runs forwards.         *)

Enqueue(j, m, p, s) ==
    /\ Status(j) = "absent"
    /\ jobs' = [jobs EXCEPT ![j] = [NoRow EXCEPT !.status = "queued",
                                                 !.model = m,
                                                 !.priority = p,
                                                 !.created = s]]
    /\ UNCHANGED <<claims, reclaims>>

-----------------------------------------------------------------------------
(* claim_next_job, its transaction.                                         *)

\* WHERE status='queued' AND (not_before IS NULL OR not_before <= now)
Eligible == {j \in Jobs : Status(j) = "queued" /\ ~jobs[j].waiting}

\* (model_id = ?) with NULL for a worker that has no model loaded
Affine(row, m) == m # Nil /\ row.model = m

BugBefore(a, b, m) ==
    \/ Affine(a, m) /\ ~Affine(b, m)
    \/ /\ Affine(a, m) <=> Affine(b, m)
       /\ \/ a.priority > b.priority
          \/ a.priority = b.priority /\ a.created > b.created

\* ORDER BY (model_id = ?) DESC, priority DESC, created_at ASC
Before(a, b, m) ==
    \/ Affine(a, m) /\ ~Affine(b, m)
    \/ /\ Affine(a, m) <=> Affine(b, m)
       /\ \/ a.priority > b.priority
          \/ a.priority = b.priority /\ a.created < b.created

\* LIMIT 1; rows with equal keys come back in an order SQL leaves open
ClaimChoices(m) ==
    {j \in Eligible : \A k \in Eligible : ~Before(jobs[k], jobs[j], m)}

\* UPDATE ... SET status='running', worker_id=?, started_at=?
Claim(w, m, j) ==
    /\ j \in ClaimChoices(m)
    /\ jobs' = [jobs EXCEPT ![j].status = "running",
                            ![j].worker = w,
                            ![j].overdue = FALSE]
    /\ claims' = [claims EXCEPT ![j] = @ + 1]
    /\ UNCHANGED reclaims

-----------------------------------------------------------------------------
(* The writers of a claimed row. None of them looks at the status or the    *)
(* worker of the row: their WHERE clause is the id alone.                   *)

SetSettled(j, outcome) == jobs' = [jobs EXCEPT ![j].status = outcome]

MarkDone(j) == SetSettled(j, "done") /\ UNCHANGED <<claims, reclaims>>

MarkFailed(j) == SetSettled(j, "failed") /\ UNCHANGED <<claims, reclaims>>

BugSetQueued(j) ==
    jobs' = [jobs EXCEPT ![j].status = "queued",
                         ![j].worker = Nil,
                         ![j].waiting = TRUE,
                         ![j].overdue = FALSE]

SetQueued(j) ==
    jobs' = [jobs EXCEPT ![j].status = "queued",
                         ![j].worker = Nil,
                         ![j].attempt = @ + 1,
                         ![j].waiting = TRUE,
                         ![j].overdue = FALSE]

BugReadAttempt(c, j) ==
    /\ reclaims[c] = NoReclaim
    /\ reclaims' = [reclaims EXCEPT ![c] =
                      [job |-> j, retry |-> jobs[j].attempt <= MaxAttempts]]
    /\ UNCHANGED <<jobs, claims>>

\* requeue_or_fail, its SELECT of attempt ...
ReadAttempt(c, j) ==
    /\ reclaims[c] = NoReclaim
    /\ reclaims' = [reclaims EXCEPT ![c] =
                      [job |-> j, retry |-> jobs[j].attempt < MaxAttempts]]
    /\ UNCHANGED <<jobs, claims>>

\* ... and what it does with the answer, however old that is by now: the UPDATE
\* increments the attempt the row has then, and mark_failed looks at nothing.
RequeueOrFail(c) ==
    /\ reclaims[c].job # Nil
    /\ IF reclaims[c].retry THEN SetQueued(reclaims[c].job)
                            ELSE SetSettled(reclaims[c].job, "failed")
    /\ reclaims' = [reclaims EXCEPT ![c] = NoReclaim]
    /\ UNCHANGED claims

\* The reclaimer ends between the two.
AbandonReclaim(c) ==
    /\ reclaims' = [reclaims EXCEPT ![c] = NoReclaim]
    /\ UNCHANGED <<jobs, claims>>

-----------------------------------------------------------------------------
(* cancel_job, whose UPDATE does look at the status.                        *)

BugCancelJob(j) ==
    /\ Status(j) # "absent"
    /\ jobs' = [jobs EXCEPT ![j].status = "cancelled"]
    /\ UNCHANGED <<claims, reclaims>>

CancelJob(j) ==
    /\ Status(j) = "queued"
    /\ jobs' = [jobs EXCEPT ![j].status = "cancelled"]
    /\ UNCHANGED <<claims, reclaims>>

-----------------------------------------------------------------------------
(* The clock.                                                               *)

\* not_before passes
BackoffElapses(j) ==
    /\ Status(j) = "queued" /\ jobs[j].waiting
    /\ jobs' = [jobs EXCEPT ![j].waiting = FALSE]
    /\ UNCHANGED <<claims, reclaims>>

\* started_at becomes older than the job's watchdog timeout
TimeoutElapses(j) ==
    /\ Status(j) = "running" /\ ~jobs[j].overdue
    /\ jobs' = [jobs EXCEPT ![j].overdue = TRUE]
    /\ UNCHANGED <<claims, reclaims>>

-----------------------------------------------------------------------------
(* The table under callers about whom nothing is assumed but that they only *)
(* settle or reclaim jobs somebody has claimed at some time: a writer may   *)
(* be late, may be a stranger to the row, and may write twice; several may  *)
(* be inside requeue_or_fail at once, of the same job too.                  *)

EnqueueAny == \E j \in Jobs, m \in Models, p \in Priorities, s \in Seconds :
                 Enqueue(j, m, p, s)

ClaimAny == \E w \in Workers, m \in Models \cup {Nil}, j \in Jobs : Claim(w, m, j)

CancelAny == \E j \in Jobs : CancelJob(j)

SettleAny == \E j \in Jobs : claims[j] > 0 /\ (MarkDone(j) \/ MarkFailed(j))

ReadAny == \E c \in Reclaimers, j \in Jobs : claims[j] > 0 /\ ReadAttempt(c, j)

ReclaimAny == \E c \in Reclaimers : RequeueOrFail(c)

AbandonAny == \E c \in Reclaimers : AbandonReclaim(c)

ClockTicks == \E j \in Jobs : BackoffElapses(j) \/ TimeoutElapses(j)

QueueNext ==
    \/ EnqueueAny
    \/ ClaimAny
    \/ CancelAny
    \/ SettleAny
    \/ ReadAny
    \/ ReclaimAny
    \/ AbandonAny
    \/ ClockTicks

QueueSpec == QueueInit /\ [][QueueNext]_queueVars

-----------------------------------------------------------------------------

\* However late, early or often its callers write, no job is handed to a
\* worker more often than max_attempts times and once more for every reclaimer
\* but the first (requeue_or_fail's docstring: "capped at max_attempts total
\* attempts"). With one reclaimer, as in a pool, the cap is exact; two that read
\* attempt before either has written both requeue (queue.py:259-268).
ClaimsBounded == \A j \in Jobs : claims[j] <= AttemptCap

\* Among jobs of one model and priority the queue is first come, first served
\* whatever the affinities of the claiming workers, and a job put back by a
\* retry cannot reopen the question: when a job is started for the first time,
\* each of its kind in the table with an earlier created_at has been started
\* before or was cancelled. One that comes into the table later with an earlier
\* created_at was not there to be preferred (queue.py:85, 154-164).
StartedInOrder ==
    [][\A j, k \in Stored :
        ( /\ jobs[j].model = jobs[k].model
          /\ jobs[j].priority = jobs[k].priority
          /\ jobs[j].created < jobs[k].created
          /\ claims[k] = 0 /\ claims'[k] > 0 )
        => claims[j] > 0 \/ Status(j) = "cancelled"]_queueVars

=============================================================================
