----------------------------- MODULE MCWorkerPool -----------------------------
(* WorkerPool on small instances, for TLC. *)
EXTENDS WorkerPool, TLC

\* Sound for the safety runs: job ids and worker ids are only compared for
\* equality, and no loop of the supervisor depends on the order it visits them.
Symmetry == Permutations(Jobs) \cup Permutations(Workers)

=============================================================================
