------------------------------ MODULE MCJobQueue ------------------------------
(* JobQueue on a small instance, for TLC. *)
EXTENDS JobQueue, TLC

\* Job ids, model ids and reclaimers are only compared for equality.
Symmetry == Permutations(Jobs) \cup Permutations(Models) \cup Permutations(Reclaimers)

=============================================================================
