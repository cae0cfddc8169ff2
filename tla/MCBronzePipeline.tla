--------------------------- MODULE MCBronzePipeline ---------------------------
(* Instances of BronzePipeline for TLC.                                      *)
EXTENDS BronzePipeline, TLC

CONSTANTS k1, k2, p1, p2

\* Both keys on one partition, or each on its own.
OnePartition  == (k1 :> p1) @@ (k2 :> p1)
TwoPartitions == (k1 :> p1) @@ (k2 :> p2)

\* A wall clock that is set back at every commit: only the LSN orders changes.
SetBackClock == [lsn \in 0..MaxLsn |-> -lsn]

\* The two keys are interchangeable when they share a partition.
KeySymmetry == Permutations(Keys)
=============================================================================
