--------------------------- MODULE MCModelVersions ---------------------------
(* ModelVersions on a small instance, for TLC. *)
EXTENDS ModelVersions, TLC

RequestSymmetry == Permutations(Requests)

=============================================================================
