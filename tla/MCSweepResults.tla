---------------------------- MODULE MCSweepResults ----------------------------
(* BatchDataset, and SweepResults under it, on a small instance, for TLC: a    *)
(* job with a parameter of its own and one that is called like an output.      *)
EXTENDS BatchDataset

MCOutputs == <<"neff", "loss">>

MCParamsOf == [j \in Jobs |-> [radius |-> "1[um]", loss |-> "2"]]

=============================================================================
