------------------------------ MODULE JobDispatch ------------------------------
(***************************************************************************)
(* What simserver promises about running jobs, without tables, processes   *)
(* or supervisors: at any time at most one worker runs a job, a job is run *)
(* at most MaxAttempts times, and a job that was withdrawn is not running  *)
(* and will never run.                                                     *)
(***************************************************************************)
EXTENDS Naturals

CONSTANTS Jobs, Workers, MaxAttempts

VARIABLES
    runners,     \* runners[j]: the workers running job j
    runs,        \* runs[j]: how often job j was started
    withdrawn    \* the cancelled jobs

dispatchVars == <<runners, runs, withdrawn>>

DispatchInit ==
    /\ runners = [j \in Jobs |-> {}]
    /\ runs = [j \in Jobs |-> 0]
    /\ withdrawn = {}

Start(j, w) ==
    /\ runs[j] < MaxAttempts
    /\ runs' = [runs EXCEPT ![j] = @ + 1]
    /\ j \notin withdrawn
    /\ runners[j] = {}
    /\ runners' = [runners EXCEPT ![j] = {w}]
    /\ UNCHANGED withdrawn

\* The run ends: settled by the worker, or the worker died or was killed.
End(j) ==
    /\ UNCHANGED <<runs, withdrawn>>
    /\ runners[j] # {}
    /\ runners' = [runners EXCEPT ![j] = {}]

Withdraw(j) ==
    /\ withdrawn' = withdrawn \cup {j}
    /\ UNCHANGED runs
    /\ runners[j] = {}
    /\ UNCHANGED runners

DispatchNext ==
    \/ \E j \in Jobs, w \in Workers : Start(j, w)
    \/ \E j \in Jobs : End(j) \/ Withdraw(j)

DispatchSpec == DispatchInit /\ [][DispatchNext]_dispatchVars

=============================================================================
