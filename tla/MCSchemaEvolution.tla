-------------------------- MODULE MCSchemaEvolution --------------------------
(* One row of one partition, or two rows, each with a partition of its own.  *)
EXTENDS SchemaEvolution, TLC

CONSTANTS k1, p1, k2, p2

OnePartition == [k \in Keys |-> p1]

TwoPartitions == (k1 :> p1) @@ (k2 :> p2)
=============================================================================
