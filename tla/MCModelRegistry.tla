--------------------------- MODULE MCModelRegistry ---------------------------
(* ModelRegistry on a small instance, for TLC. *)
EXTENDS ModelRegistry, TLC

RequestSymmetry == Permutations(Requests)

=============================================================================
