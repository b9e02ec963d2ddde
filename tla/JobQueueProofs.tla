---------------------------- MODULE JobQueueProofs ----------------------------
(***************************************************************************)
(* What the jobs table guarantees to any callers, for every set of jobs,   *)
(* models, workers, priorities, every max_attempts, and any number of      *)
(* reclaimers between the two statements of requeue_or_fail.               *)
(***************************************************************************)
EXTENDS JobQueue, FiniteSetTheorems, TLAPS

\* Who is about to requeue j, because it has read an attempt below the cap.
Retries(j) == {c \in Reclaimers : reclaims[c].job = j /\ reclaims[c].retry}

\* Behind the cap on attempt: it has room for all who are about to raise it.
CapInv == \A j \in Jobs : jobs[j].attempt + Cardinality(Retries(j)) <= AttemptCap

\* Behind ClaimsBounded and StartedInOrder: a row is untouched before its INSERT;
\* a queued row's attempt has not been claimed yet; a row that waits for its
\* backoff, or has left the queue other than by cancellation, has been claimed
\* before.
RowClaimsInv(j) ==
    /\ Status(j) = "absent" => claims[j] = 0
    /\ claims[j] <= jobs[j].attempt
    /\ Status(j) = "queued" => claims[j] < jobs[j].attempt
    /\ jobs[j].waiting => claims[j] > 0
    /\ Status(j) \in {"running", "done", "failed"} => claims[j] > 0

\* ... and so has a row somebody is about to requeue or fail.
ClaimsInv ==
    /\ \A j \in Jobs : RowClaimsInv(j)
    /\ \A c \in Reclaimers : reclaims[c].job # Nil => claims[reclaims[c].job] > 0

-----------------------------------------------------------------------------

\* There is a reclaimer, so the cap is max_attempts at least.
LEMMA CapIsNumber ==
    /\ AttemptCap \in Nat /\ 1 <= AttemptCap
    /\ Cardinality(Reclaimers) \in Nat
<1>1. Cardinality(Reclaimers) \in Nat /\ Cardinality(Reclaimers) # 0
  BY ReclaimersAssumption, FS_CardinalityType, FS_EmptySet
<1> QED
  BY <1>1, BoundsAssumption DEF AttemptCap

\* Those about to requeue a job are some of the reclaimers.
LEMMA RetriesAreFinite ==
    ASSUME NEW j
    PROVE  /\ IsFiniteSet(Retries(j)) /\ Cardinality(Retries(j)) \in Nat
           /\ Cardinality(Retries(j)) <= Cardinality(Reclaimers)
<1>1. Retries(j) \subseteq Reclaimers
  BY DEF Retries
<1> QED
  BY <1>1, ReclaimersAssumption, FS_Subset, FS_CardinalityType

LEMMA NoRowIsRow == NoRow \in Row
BY CapIsNumber DEF NoRow, Row, Statuses

(* One lemma per statement of queue.py: the table keeps its type.           *)

LEMMA EnqueueTyping ==
    ASSUME QueueTypeOK, NEW j \in Jobs, NEW m \in Models, NEW p \in Priorities,
           NEW s \in Seconds, Enqueue(j, m, p, s)
    PROVE  QueueTypeOK'
<1>1. [NoRow EXCEPT !.status = "queued", !.model = m,
                    !.priority = p, !.created = s] \in Row
  BY NoRowIsRow DEF Row, Statuses
<1> QED
  BY <1>1 DEF Enqueue, QueueTypeOK

LEMMA ClaimTyping ==
    ASSUME QueueTypeOK, NEW w \in Workers, NEW m, NEW j \in Jobs, Claim(w, m, j)
    PROVE  QueueTypeOK'
<1>1. [jobs[j] EXCEPT !.status = "running", !.worker = w, !.overdue = FALSE] \in Row
  BY DEF QueueTypeOK, Row, Statuses
<1> QED
  BY <1>1 DEF Claim, QueueTypeOK

LEMMA SettleTyping ==
    ASSUME QueueTypeOK, NEW j \in Jobs, MarkDone(j) \/ MarkFailed(j)
    PROVE  QueueTypeOK'
<1>1. /\ [jobs[j] EXCEPT !.status = "done"] \in Row
      /\ [jobs[j] EXCEPT !.status = "failed"] \in Row
  BY DEF QueueTypeOK, Row, Statuses
<1> QED
  BY <1>1 DEF MarkDone, MarkFailed, SetSettled, QueueTypeOK

LEMMA ReadTyping ==
    ASSUME QueueTypeOK, NEW c \in Reclaimers, NEW j \in Jobs,
           ReadAttempt(c, j) \/ AbandonReclaim(c)
    PROVE  QueueTypeOK'
<1>1. /\ [job |-> j, retry |-> jobs[j].attempt < MaxAttempts] \in Reclaim
      /\ NoReclaim \in Reclaim
  BY DEF Reclaim, NoReclaim
<1> QED
  BY <1>1 DEF ReadAttempt, AbandonReclaim, QueueTypeOK

LEMMA ReclaimTyping ==
    ASSUME QueueTypeOK, CapInv, NEW c \in Reclaimers, RequeueOrFail(c)
    PROVE  QueueTypeOK'
<1> DEFINE j == reclaims[c].job
<1>1. j \in Jobs /\ jobs[j] \in Row /\ reclaims[c].retry \in BOOLEAN
  BY DEF RequeueOrFail, QueueTypeOK, Reclaim
<1>2. reclaims' \in [Reclaimers -> Reclaim]
  BY DEF RequeueOrFail, QueueTypeOK, Reclaim, NoReclaim
<1>3. CASE reclaims[c].retry
  <2>1. Cardinality(Retries(j)) # 0
    BY <1>3, RetriesAreFinite, FS_EmptySet DEF Retries
  <2>2. jobs[j].attempt + 1 \in 1..AttemptCap
    BY <1>1, <2>1, RetriesAreFinite, CapIsNumber DEF CapInv, Row
  <2>3. [jobs[j] EXCEPT !.status = "queued", !.worker = Nil,
                        !.attempt = jobs[j].attempt + 1,
                        !.waiting = TRUE, !.overdue = FALSE] \in Row
    BY <1>1, <2>2 DEF Row, Statuses
  <2>4. jobs' = [jobs EXCEPT ![j] = [jobs[j] EXCEPT !.status = "queued", !.worker = Nil,
                                        !.attempt = jobs[j].attempt + 1,
                                        !.waiting = TRUE, !.overdue = FALSE]]
    BY <1>1, <1>3 DEF RequeueOrFail, SetQueued, QueueTypeOK
  <2>5. claims' = claims
    BY DEF RequeueOrFail
  <2> HIDE DEF j
  <2> QED
    BY <1>1, <1>2, <2>3, <2>4, <2>5 DEF QueueTypeOK
<1>4. CASE ~reclaims[c].retry
  <2>1. [jobs[j] EXCEPT !.status = "failed"] \in Row
    BY <1>1 DEF Row, Statuses
  <2>2. jobs' = [jobs EXCEPT ![j] = [jobs[j] EXCEPT !.status = "failed"]]
    BY <1>1, <1>4 DEF RequeueOrFail, SetSettled, QueueTypeOK
  <2>3. claims' = claims
    BY DEF RequeueOrFail
  <2> HIDE DEF j
  <2> QED
    BY <1>1, <1>2, <2>1, <2>2, <2>3 DEF QueueTypeOK
<1> QED
  BY <1>1, <1>3, <1>4

LEMMA CancelTyping ==
    ASSUME QueueTypeOK, NEW j \in Jobs, CancelJob(j)
    PROVE  QueueTypeOK'
<1>1. [jobs[j] EXCEPT !.status = "cancelled"] \in Row
  BY DEF QueueTypeOK, Row, Statuses
<1> QED
  BY <1>1 DEF CancelJob, QueueTypeOK

LEMMA ClockTyping ==
    ASSUME QueueTypeOK, NEW j \in Jobs, BackoffElapses(j) \/ TimeoutElapses(j)
    PROVE  QueueTypeOK'
<1>1. /\ [jobs[j] EXCEPT !.waiting = FALSE] \in Row
      /\ [jobs[j] EXCEPT !.overdue = TRUE] \in Row
  BY DEF QueueTypeOK, Row
<1>2. CASE BackoffElapses(j)
  BY <1>1, <1>2 DEF BackoffElapses, QueueTypeOK
<1>3. CASE TimeoutElapses(j)
  BY <1>1, <1>3 DEF TimeoutElapses, QueueTypeOK
<1> QED
  BY <1>2, <1>3

LEMMA QueueTyping ==
    ASSUME QueueTypeOK, CapInv, [QueueNext]_queueVars
    PROVE  QueueTypeOK'
<1>1. CASE EnqueueAny
  BY <1>1, EnqueueTyping DEF EnqueueAny
<1>2. CASE ClaimAny
  BY <1>2, ClaimTyping DEF ClaimAny
<1>3. CASE CancelAny
  BY <1>3, CancelTyping DEF CancelAny
<1>4. CASE SettleAny
  BY <1>4, SettleTyping DEF SettleAny
<1>5. CASE ReadAny
  BY <1>5, ReadTyping DEF ReadAny
<1>6. CASE ReclaimAny
  BY <1>6, ReclaimTyping DEF ReclaimAny
<1>7. CASE AbandonAny
  BY <1>7 DEF AbandonAny, AbandonReclaim, NoReclaim, Reclaim, QueueTypeOK
<1>8. CASE ClockTicks
  BY <1>8, ClockTyping DEF ClockTicks
<1>9. CASE UNCHANGED queueVars
  BY <1>9 DEF queueVars, QueueTypeOK
<1> QED
  BY <1>1, <1>2, <1>3, <1>4, <1>5, <1>6, <1>7, <1>8, <1>9 DEF QueueNext

-----------------------------------------------------------------------------
(* One lemma per statement: what it does to status, worker and attempt.     *)

LEMMA EnqueueEffect ==
    ASSUME QueueTypeOK, NEW j \in Jobs, NEW m, NEW p, NEW s, Enqueue(j, m, p, s)
    PROVE  /\ jobs[j].status = "absent" /\ jobs'[j].status = "queued"
           /\ jobs'[j].attempt = 1
           /\ \A i \in Jobs \ {j} : jobs'[i] = jobs[i]
           /\ claims' = claims /\ reclaims' = reclaims
BY DEF Enqueue, QueueTypeOK, Status, NoRow

LEMMA ClaimEffect ==
    ASSUME QueueTypeOK, NEW w, NEW m, NEW j \in Jobs, Claim(w, m, j)
    PROVE  /\ jobs[j].status = "queued" /\ jobs'[j].status = "running"
           /\ jobs'[j].worker = w
           /\ jobs'[j].attempt = jobs[j].attempt
           /\ \A i \in Jobs \ {j} : jobs'[i] = jobs[i] /\ claims'[i] = claims[i]
           /\ claims'[j] = claims[j] + 1 /\ reclaims' = reclaims
BY DEF Claim, ClaimChoices, Eligible, QueueTypeOK, Row, Status

LEMMA SettleEffect ==
    ASSUME QueueTypeOK, NEW j \in Jobs, MarkDone(j) \/ MarkFailed(j)
    PROVE  /\ jobs'[j].status \in {"done", "failed"}
           /\ jobs'[j].attempt = jobs[j].attempt
           /\ jobs'[j].worker = jobs[j].worker
           /\ \A i \in Jobs \ {j} : jobs'[i] = jobs[i]
           /\ claims' = claims /\ reclaims' = reclaims
BY DEF MarkDone, MarkFailed, SetSettled, QueueTypeOK, Row

LEMMA ReclaimEffect ==
    ASSUME QueueTypeOK, NEW c \in Reclaimers, NEW j \in Jobs,
           reclaims[c].job = j, RequeueOrFail(c)
    PROVE  /\ \/ /\ reclaims[c].retry
                 /\ jobs'[j].status = "queued"
                 /\ jobs'[j].attempt = jobs[j].attempt + 1
              \/ /\ jobs'[j].status = "failed"
                 /\ jobs'[j].attempt = jobs[j].attempt
           /\ \A i \in Jobs \ {j} : jobs'[i] = jobs[i]
           /\ claims' = claims
           /\ reclaims' = [reclaims EXCEPT ![c] = NoReclaim]
BY DEF RequeueOrFail, SetQueued, SetSettled, QueueTypeOK, Row

LEMMA CancelEffect ==
    ASSUME QueueTypeOK, NEW j \in Jobs, CancelJob(j)
    PROVE  /\ jobs[j].status = "queued" /\ jobs'[j].status = "cancelled"
           /\ jobs'[j].attempt = jobs[j].attempt
           /\ \A i \in Jobs \ {j} : jobs'[i] = jobs[i]
           /\ claims' = claims /\ reclaims' = reclaims
BY DEF CancelJob, QueueTypeOK, Row, Status

LEMMA ClockEffect ==
    ASSUME QueueTypeOK, NEW j \in Jobs, BackoffElapses(j) \/ TimeoutElapses(j)
    PROVE  /\ \A i \in Jobs : /\ jobs'[i].status = jobs[i].status
                              /\ jobs'[i].worker = jobs[i].worker
                              /\ jobs'[i].attempt = jobs[i].attempt
           /\ claims' = claims /\ reclaims' = reclaims
BY DEF BackoffElapses, TimeoutElapses, QueueTypeOK, Row

-----------------------------------------------------------------------------
(* The cap on attempt.                                                      *)

\* No statement but requeue_or_fail's UPDATE raises an attempt.
LEMMA OtherStepKeepsCap ==
    ASSUME QueueTypeOK, CapInv, \A j \in Jobs : jobs'[j].attempt \in Nat,
           \A j \in Jobs : jobs'[j].attempt <= jobs[j].attempt,
           \A j \in Jobs : Retries(j)' \subseteq Retries(j)
    PROVE  CapInv'
<1> SUFFICES ASSUME NEW j \in Jobs
             PROVE  jobs'[j].attempt + Cardinality(Retries(j)') <= AttemptCap
  BY DEF CapInv, AttemptCap
<1>1. /\ Cardinality(Retries(j)') \in Nat /\ Cardinality(Retries(j)) \in Nat
      /\ Cardinality(Retries(j)') <= Cardinality(Retries(j))
  BY RetriesAreFinite, FS_Subset, FS_CardinalityType
<1>2. jobs[j].attempt \in Nat /\ jobs[j].attempt + Cardinality(Retries(j)) <= AttemptCap
  BY CapIsNumber DEF CapInv, QueueTypeOK, Row
<1> QED
  BY <1>1, <1>2, CapIsNumber

\* Who reads an attempt below max_attempts finds room for one more retry,
\* however many others are about to write theirs.
LEMMA ReadKeepsCap ==
    ASSUME QueueTypeOK, CapInv, NEW c \in Reclaimers, NEW j \in Jobs, ReadAttempt(c, j)
    PROVE  CapInv'
<1> SUFFICES ASSUME NEW i \in Jobs
             PROVE  jobs[i].attempt + Cardinality(Retries(i)') <= AttemptCap
  BY DEF CapInv, AttemptCap, ReadAttempt
<1>1. /\ reclaims[c].job # i
      /\ reclaims' = [reclaims EXCEPT ![c] =
                        [job |-> j, retry |-> jobs[j].attempt < MaxAttempts]]
  BY NilAssumption DEF ReadAttempt, NoReclaim
<1>2. CASE i = j /\ jobs[j].attempt < MaxAttempts
  <2>1. Retries(i)' \subseteq Reclaimers
    BY DEF Retries
  <2>2. /\ Cardinality(Retries(i)') \in Nat
        /\ Cardinality(Retries(i)') <= Cardinality(Reclaimers)
    BY <2>1, ReclaimersAssumption, FS_Subset, FS_CardinalityType
  <2>3. jobs[i].attempt \in Nat
    BY CapIsNumber DEF QueueTypeOK, Row
  <2> QED
    BY <1>2, <2>2, <2>3, CapIsNumber, BoundsAssumption DEF AttemptCap
<1>3. CASE ~(i = j /\ jobs[j].attempt < MaxAttempts)
  <2>1. Retries(i)' = Retries(i)
    BY <1>1, <1>3 DEF Retries, QueueTypeOK
  <2> QED
    BY <2>1 DEF CapInv
<1> QED
  BY <1>2, <1>3

\* The retry that is written is one less to come.
LEMMA ReclaimKeepsCap ==
    ASSUME QueueTypeOK, CapInv, NEW c \in Reclaimers, RequeueOrFail(c)
    PROVE  CapInv'
<1> DEFINE j == reclaims[c].job
<1>0. j \in Jobs /\ reclaims[c].retry \in BOOLEAN
  BY DEF RequeueOrFail, QueueTypeOK, Reclaim
<1>1. /\ \/ reclaims[c].retry /\ jobs'[j].attempt = jobs[j].attempt + 1
         \/ jobs'[j].attempt = jobs[j].attempt
      /\ \A i \in Jobs \ {j} : jobs'[i] = jobs[i]
      /\ reclaims' = [reclaims EXCEPT ![c] = NoReclaim]
  BY <1>0, ReclaimEffect
<1>2. \A i : Retries(i)' = Retries(i) \ {c}
  BY <1>1 DEF Retries, NoReclaim, QueueTypeOK
<1> SUFFICES ASSUME NEW i \in Jobs
             PROVE  jobs'[i].attempt + Cardinality(Retries(i) \ {c}) <= AttemptCap
  BY <1>2 DEF CapInv, AttemptCap
<1>3. /\ jobs[i].attempt \in Nat
      /\ jobs[i].attempt + Cardinality(Retries(i)) <= AttemptCap
  BY CapIsNumber DEF CapInv, QueueTypeOK, Row
<1>4. /\ Cardinality(Retries(i) \ {c}) \in Nat /\ Cardinality(Retries(i)) \in Nat
      /\ Cardinality(Retries(i) \ {c}) <= Cardinality(Retries(i))
  BY RetriesAreFinite, FS_Subset, FS_CardinalityType
<1>5. CASE i = j /\ reclaims[c].retry
  <2>1. c \in Retries(i)
    BY <1>5 DEF Retries
  <2>2. Cardinality(Retries(i) \ {c}) = Cardinality(Retries(i)) - 1
    BY <2>1, RetriesAreFinite, FS_RemoveElement
  <2>3. jobs'[i].attempt = jobs[i].attempt + 1 \/ jobs'[i].attempt = jobs[i].attempt
    BY <1>1, <1>5
  <2> QED
    BY <1>3, <1>4, <2>2, <2>3, CapIsNumber
<1>6. CASE ~(i = j /\ reclaims[c].retry)
  <2>1. jobs'[i].attempt = jobs[i].attempt
    BY <1>1, <1>6
  <2> QED
    BY <1>3, <1>4, <2>1, CapIsNumber
<1> QED
  BY <1>5, <1>6

LEMMA AbandonKeepsCap ==
    ASSUME QueueTypeOK, CapInv, NEW c \in Reclaimers, AbandonReclaim(c)
    PROVE  CapInv'
<1>1. \A j \in Jobs : Retries(j)' \subseteq Retries(j)
  BY DEF AbandonReclaim, Retries, NoReclaim, QueueTypeOK
<1>2. \A j \in Jobs : jobs'[j].attempt \in Nat /\ jobs'[j].attempt <= jobs[j].attempt
  BY CapIsNumber DEF AbandonReclaim, QueueTypeOK, Row
<1> QED
  BY <1>1, <1>2, OtherStepKeepsCap

\* The statements of everybody else.
LEMMA StatementKeepsCap ==
    ASSUME QueueTypeOK, CapInv, NEW j \in Jobs,
           \/ MarkDone(j) \/ MarkFailed(j) \/ CancelJob(j)
           \/ BackoffElapses(j) \/ TimeoutElapses(j)
           \/ \E w \in Workers, m \in Models \cup {Nil} : Claim(w, m, j)
           \/ \E m \in Models, q \in Priorities, s \in Seconds : Enqueue(j, m, q, s)
    PROVE  CapInv'
<1>1. \A i \in Jobs : jobs[i].attempt \in 1..AttemptCap
  BY DEF QueueTypeOK, Row
<1>2. /\ \A i \in Jobs : jobs'[i].attempt = jobs[i].attempt \/ jobs'[i].attempt = 1
      /\ reclaims' = reclaims
  <2>1. CASE MarkDone(j) \/ MarkFailed(j)
    BY <2>1, SettleEffect
  <2>2. CASE CancelJob(j)
    BY <2>2, CancelEffect
  <2>3. CASE BackoffElapses(j) \/ TimeoutElapses(j)
    BY <2>3, ClockEffect
  <2>4. ASSUME NEW w, NEW m, Claim(w, m, j)
        PROVE  /\ \A i \in Jobs : jobs'[i].attempt = jobs[i].attempt
               /\ reclaims' = reclaims
    BY <2>4, ClaimEffect
  <2>5. ASSUME NEW m, NEW q, NEW s, Enqueue(j, m, q, s)
        PROVE  /\ \A i \in Jobs : jobs'[i].attempt = jobs[i].attempt \/ jobs'[i].attempt = 1
               /\ reclaims' = reclaims
    BY <2>5, EnqueueEffect
  <2> QED
    BY <2>1, <2>2, <2>3, <2>4, <2>5
<1>3. \A i \in Jobs : jobs'[i].attempt \in Nat /\ jobs'[i].attempt <= jobs[i].attempt
  BY <1>1, <1>2, CapIsNumber
<1>4. \A i \in Jobs : Retries(i)' \subseteq Retries(i)
  BY <1>2 DEF Retries
<1> QED
  BY <1>3, <1>4, OtherStepKeepsCap

LEMMA CapStep ==
    ASSUME QueueTypeOK, CapInv, [QueueNext]_queueVars
    PROVE  CapInv'
<1>1. CASE EnqueueAny \/ ClaimAny \/ CancelAny \/ SettleAny \/ ClockTicks
  BY <1>1, StatementKeepsCap
  DEF EnqueueAny, ClaimAny, CancelAny, SettleAny, ClockTicks
<1>2. CASE ReadAny
  BY <1>2, ReadKeepsCap DEF ReadAny
<1>3. CASE ReclaimAny
  BY <1>3, ReclaimKeepsCap DEF ReclaimAny
<1>4. CASE AbandonAny
  BY <1>4, AbandonKeepsCap DEF AbandonAny
<1>5. CASE UNCHANGED queueVars
  BY <1>5 DEF queueVars, CapInv, Retries
<1> QED
  BY <1>1, <1>2, <1>3, <1>4, <1>5 DEF QueueNext

LEMMA CapInit == QueueInit => CapInv
<1> SUFFICES ASSUME QueueInit, NEW j \in Jobs
             PROVE  jobs[j].attempt + Cardinality(Retries(j)) <= AttemptCap
  BY DEF CapInv
<1>1. jobs[j].attempt = 1
  BY DEF QueueInit, NoRow
<1>2. Retries(j) = {}
  BY DEF QueueInit, Retries, NoReclaim
<1>3. Cardinality(Retries(j)) = 0
  BY <1>2, FS_EmptySet
<1> QED
  BY <1>1, <1>3, CapIsNumber

LEMMA TypeAndCap == QueueSpec => [](QueueTypeOK /\ CapInv)
<1>1. QueueInit => QueueTypeOK
  BY NoRowIsRow DEF QueueInit, QueueTypeOK, Reclaim, NoReclaim
<1>2. QueueTypeOK /\ CapInv /\ [QueueNext]_queueVars => (QueueTypeOK /\ CapInv)'
  BY QueueTyping, CapStep
<1> QED
  BY <1>1, <1>2, CapInit, PTL DEF QueueSpec

\* The columns keep their types under every call of every writer. attempt stays
\* within max_attempts and one more for each reclaimer but the first, also when
\* all of them have read it before any has written; it could not be said of
\* max_attempts itself, for the check and the increment are two statements.
THEOREM QueueTypeCorrect == QueueSpec => []QueueTypeOK
BY TypeAndCap, PTL

-----------------------------------------------------------------------------
(* Claims.                                                                  *)

\* The part about the rows; each statement that writes one is looked at.
LEMMA RowClaimsStep ==
    ASSUME QueueTypeOK, ClaimsInv, [QueueNext]_queueVars, NEW j \in Jobs
    PROVE  RowClaimsInv(j)'
<1> USE CapIsNumber DEF QueueTypeOK, Row, Statuses, Status, RowClaimsInv
<1>0. RowClaimsInv(j)
  BY DEF ClaimsInv
<1>1. CASE EnqueueAny
  BY <1>0, <1>1 DEF EnqueueAny, Enqueue, NoRow
<1>2. CASE ClaimAny
  BY <1>0, <1>2 DEF ClaimAny, Claim, ClaimChoices, Eligible
<1>3. CASE CancelAny
  BY <1>0, <1>3 DEF CancelAny, CancelJob
<1>4. CASE SettleAny
  BY <1>0, <1>4 DEF SettleAny, MarkDone, MarkFailed, SetSettled
<1>5. CASE ReclaimAny
  <2>1. PICK c \in Reclaimers : RequeueOrFail(c)
    BY <1>5 DEF ReclaimAny
  <2>2. reclaims[c].job \in Jobs /\ claims[reclaims[c].job] > 0
    BY <2>1 DEF RequeueOrFail, ClaimsInv, Reclaim
  <2> QED
    BY <1>0, <2>1, <2>2 DEF RequeueOrFail, SetQueued, SetSettled
<1>6. CASE ClockTicks
  BY <1>0, <1>6 DEF ClockTicks, BackoffElapses, TimeoutElapses
<1>7. CASE ReadAny \/ AbandonAny \/ UNCHANGED queueVars
  BY <1>0, <1>7 DEF ReadAny, ReadAttempt, AbandonAny, AbandonReclaim, queueVars
<1> QED
  BY <1>1, <1>2, <1>3, <1>4, <1>5, <1>6, <1>7 DEF QueueNext

\* Nothing but a claim counts as one.
LEMMA OnlyClaimsCount ==
    ASSUME [QueueNext]_queueVars
    PROVE  ClaimAny \/ claims' = claims
BY DEF QueueNext, EnqueueAny, Enqueue, CancelAny, CancelJob, SettleAny, MarkDone,
   MarkFailed, ReadAny, ReadAttempt, ReclaimAny, RequeueOrFail, AbandonAny,
   AbandonReclaim, ClockTicks, BackoffElapses, TimeoutElapses, queueVars

\* A job that was claimed stays claimed.
LEMMA ClaimsGrow ==
    ASSUME QueueTypeOK, [QueueNext]_queueVars, NEW j \in Jobs, claims[j] > 0
    PROVE  claims'[j] > 0
<1> USE DEF QueueTypeOK
<1>1. CASE ClaimAny
  <2>1. PICK w \in Workers, m \in Models \cup {Nil}, k \in Jobs : Claim(w, m, k)
    BY <1>1 DEF ClaimAny
  <2>2. claims'[k] = claims[k] + 1 /\ \A i \in Jobs \ {k} : claims'[i] = claims[i]
    BY <2>1, ClaimEffect
  <2> QED
    BY <2>2
<1> QED
  BY <1>1, OnlyClaimsCount

LEMMA ClaimsInvStep ==
    ASSUME QueueTypeOK, ClaimsInv, [QueueNext]_queueVars
    PROVE  ClaimsInv'
<1>1. \A j \in Jobs : RowClaimsInv(j)'
  BY RowClaimsStep
<1> SUFFICES ASSUME NEW c \in Reclaimers, reclaims'[c].job # Nil
             PROVE  claims'[reclaims'[c].job] > 0
  BY <1>1 DEF ClaimsInv
<1>2. CASE reclaims'[c] = reclaims[c]
  <2>1. reclaims[c].job \in Jobs /\ claims[reclaims[c].job] > 0
    BY <1>2 DEF ClaimsInv, QueueTypeOK, Reclaim
  <2> QED
    BY <1>2, <2>1, ClaimsGrow
<1>3. CASE \E j \in Jobs : claims[j] > 0 /\ ReadAttempt(c, j)
  <2>1. PICK j \in Jobs : claims[j] > 0 /\ ReadAttempt(c, j)
    BY <1>3
  <2>2. reclaims'[c].job = j
    BY <2>1 DEF ReadAttempt, QueueTypeOK
  <2> QED
    BY <2>1, <2>2, ClaimsGrow
<1>4. \/ reclaims'[c] = reclaims[c]
      \/ reclaims'[c] = NoReclaim
      \/ \E j \in Jobs : claims[j] > 0 /\ ReadAttempt(c, j)
  BY DEF QueueNext, EnqueueAny, Enqueue, ClaimAny, Claim, CancelAny, CancelJob,
     SettleAny, MarkDone, MarkFailed, ReadAny, ReadAttempt, ReclaimAny, RequeueOrFail,
     AbandonAny, AbandonReclaim, ClockTicks, BackoffElapses, TimeoutElapses,
     queueVars, QueueTypeOK
<1> QED
  BY <1>2, <1>3, <1>4 DEF NoReclaim

LEMMA ClaimsInit == QueueInit => ClaimsInv
<1> SUFFICES ASSUME QueueInit PROVE ClaimsInv
  OBVIOUS
<1>1. \A c \in Reclaimers : reclaims[c].job = Nil
  BY DEF QueueInit, NoReclaim
<1>2. ASSUME NEW j \in Jobs PROVE RowClaimsInv(j)
  <2>1. jobs[j] = NoRow /\ claims[j] = 0
    BY DEF QueueInit
  <2>2. Status(j) = "absent" /\ jobs[j].attempt = 1 /\ jobs[j].waiting = FALSE
    BY <2>1 DEF NoRow, Status
  <2> QED
    BY <2>1, <2>2 DEF RowClaimsInv
<1> QED
  BY <1>1, <1>2 DEF ClaimsInv

\* No statement of queue.py, called in any order, breaks the relation between a
\* row's status, its attempt column and the claims that returned it.
THEOREM ClaimsInvariant == QueueSpec => []ClaimsInv
<1>1. QueueTypeOK /\ ClaimsInv /\ [QueueNext]_queueVars => ClaimsInv'
  BY ClaimsInvStep
<1> QED
  BY <1>1, ClaimsInit, QueueTypeCorrect, PTL DEF QueueSpec

\* No job is handed out more often than max_attempts, and once more for each
\* reclaimer but the first, whoever calls the writers, in whatever order and
\* however the two statements of requeue_or_fail interleave.
THEOREM ClaimsAreBounded == QueueSpec => []ClaimsBounded
<1>1. QueueTypeOK /\ ClaimsInv => ClaimsBounded
  <2> SUFFICES ASSUME QueueTypeOK, ClaimsInv, NEW j \in Jobs
               PROVE  claims[j] <= AttemptCap
    BY DEF ClaimsBounded
  <2>1. jobs[j].attempt \in 1..AttemptCap /\ claims[j] \in Nat
    BY DEF QueueTypeOK, Row
  <2>2. claims[j] <= jobs[j].attempt
    BY DEF ClaimsInv, RowClaimsInv
  <2> QED
    BY <2>1, <2>2, CapIsNumber
<1> QED
  BY <1>1, QueueTypeCorrect, ClaimsInvariant, PTL

-----------------------------------------------------------------------------

\* What LIMIT 1 can return leaves no older eligible row of the same model and
\* priority behind, whatever the preferred model.
LEMMA ClaimTakesOldest ==
    ASSUME QueueTypeOK,
           NEW m, NEW k \in ClaimChoices(m), NEW j \in Eligible,
           jobs[j].model = jobs[k].model,
           jobs[j].priority = jobs[k].priority
    PROVE  ~(jobs[j].created < jobs[k].created)
BY BoundsAssumption DEF ClaimChoices, Before, Affine, Eligible, QueueTypeOK, Row

\* Only the claim that returns it starts a job.
LEMMA StartIsClaim ==
    ASSUME QueueTypeOK, [QueueNext]_queueVars,
           NEW k \in Jobs, claims[k] = 0, claims'[k] > 0
    PROVE  \E w \in Workers, m \in Models \cup {Nil} : Claim(w, m, k)
<1>1. ClaimAny
  BY OnlyClaimsCount
<1>2. PICK w \in Workers, m \in Models \cup {Nil}, i \in Jobs : Claim(w, m, i)
  BY <1>1 DEF ClaimAny
<1>3. i = k
  BY <1>2, ClaimEffect
<1> QED
  BY <1>2, <1>3

\* When equal jobs are in the table together, the older is started first, although
\* the claim order puts the workers' affinities before age and a retry puts jobs
\* back. The clock and the order in which the rows came do not matter.
THEOREM QueueIsFair == QueueSpec => StartedInOrder
<1>1. ASSUME QueueTypeOK, ClaimsInv, [QueueNext]_queueVars,
             NEW j \in Stored, NEW k \in Stored,
             jobs[j].model = jobs[k].model,
             jobs[j].priority = jobs[k].priority,
             jobs[j].created < jobs[k].created,
             claims[k] = 0, claims'[k] > 0
      PROVE  claims[j] > 0 \/ Status(j) = "cancelled"
  <2>1. j \in Jobs /\ k \in Jobs /\ Status(j) # "absent"
    BY <1>1 DEF Stored
  <2>2. PICK w \in Workers, m \in Models \cup {Nil} : Claim(w, m, k)
    BY <1>1, <2>1, StartIsClaim
  <2>3. j \notin Eligible
    BY <1>1, <2>2, ClaimTakesOldest DEF Claim
  <2>4. Status(j) # "queued" \/ jobs[j].waiting
    BY <2>1, <2>3 DEF Eligible
  <2>5. Status(j) \in {"running", "done", "failed", "cancelled"} \/ jobs[j].waiting
    BY <1>1, <2>1, <2>4 DEF QueueTypeOK, Row, Statuses, Status
  <2> QED
    BY <1>1, <2>1, <2>5 DEF ClaimsInv, RowClaimsInv
<1>2. QueueTypeOK /\ ClaimsInv /\ [QueueNext]_queueVars =>
        [\A j, k \in Stored :
            ( /\ jobs[j].model = jobs[k].model
              /\ jobs[j].priority = jobs[k].priority
              /\ jobs[j].created < jobs[k].created
              /\ claims[k] = 0 /\ claims'[k] > 0 )
            => claims[j] > 0 \/ Status(j) = "cancelled"]_queueVars
  BY <1>1
<1> QED
  BY <1>2, QueueTypeCorrect, ClaimsInvariant, PTL DEF QueueSpec, StartedInOrder

=============================================================================
