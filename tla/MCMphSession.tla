----------------------------- MODULE MCMphSession -----------------------------
(* MphSession on a small instance, for TLC: a length g that is a geometry     *)
(* parameter of both models, and a plain number x. m1 sweeps over x, m2 over  *)
(* g; m2's file brings parametric solutions of its own.                       *)
EXTENDS MphSession

CONSTANTS m1, m2, g, x

MCTexts == {"1[um]", "2[um]", "5[um]", "1[m]", "1", "5", "one"}

MCMagnitude == [t \in MCTexts |->
    CASE t = "2[um]" -> 2 [] t \in {"5[um]", "5"} -> 5 [] OTHER -> 1]

MCUnit == [t \in MCTexts |->
    CASE t \in {"1", "5"} -> Bare [] t = "one" -> Junk [] t = "1[m]" -> "m" [] OTHER -> "um"]

CONSTANTS up, over, plain, both, empty

MCElements == [l \in {up, over, plain, both, empty} |->
    CASE l = up -> <<"1[um]", "2[um]">> [] l = over -> <<"1[um]", "5[um]">>
      [] l = plain -> <<"1">> [] l = both -> <<"1", "5">> [] OTHER -> <<>>]

MCScale == [u \in Units |-> IF u = "m" THEN 1000 ELSE 1]

MCGeometryOf == [m \in {m1, m2} |-> {g}]

MCSweepOf == [m \in {m1, m2} |-> IF m = m1 THEN x ELSE g]

MCManifestOf == [m \in {m1, m2} |->
    [parameters |-> [p \in {g, x} |-> IF p = g
                       THEN [unit |-> "um", min |-> 1, max |-> 2, geometry |-> TRUE]
                       ELSE [unit |-> "1", min |-> 1, max |-> 5, geometry |-> FALSE]],
     sweep_parameter |-> MCSweepOf[m]]]

MCDefaultUnit == [p \in {g, x} |-> IF p = g THEN "m" ELSE "1"]

\* m1 names its study, m2 leaves it to its only one.
MCStudyOf == [m \in {m1, m2} |-> IF m = m1 THEN "std1" ELSE Nil]

MCStudiesOf == [m \in {m1, m2} |-> IF m = m1 THEN {"std1", "std2"} ELSE {"std1"}]

=============================================================================
