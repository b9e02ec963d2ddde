---------------------------- MODULE MCModelSession ----------------------------
(* ModelSession on a small instance, for TLC: two models that share a geometry *)
(* parameter g, of which one sweeps over a plain parameter and one over g.     *)
EXTENDS ModelSession

CONSTANTS m1, m2, g, x

MCGeometryOf == [m \in {m1, m2} |-> {g}]

MCSweepOf == [m \in {m1, m2} |-> IF m = m1 THEN x ELSE g]

=============================================================================
