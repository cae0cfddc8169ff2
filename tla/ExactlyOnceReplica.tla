-------------------------- MODULE ExactlyOnceReplica --------------------------
(* What Silver promises its readers, with no engine, checkpoint, crash or    *)
(* MERGE in sight: a replica that applies the records of a partitioned log,  *)
(* each exactly once and in order, any number of them in one atomic step.    *)
(* At every moment its view is the state that the applied prefix describes.  *)
EXTENDS Integers, Sequences

CONSTANTS Keys, Partitions, PartitionOf, NULL

VARIABLES log,      \* per partition, changes [key, value]; value NULL deletes
          applied,  \* how many changes of each partition have been applied
          view      \* the value the replica shows for each key

vars == <<log, applied, view>>

\* The last change of k among the first n[p] records of its partition.
ValueAt(n, k) ==
    LET p == PartitionOf[k]
        changes == {i \in 1..n[p] : log[p][i].key = k}
    IN  IF changes = {} THEN NULL
        ELSE log[p][CHOOSE i \in changes : \A j \in changes : j <= i].value

Init ==
    /\ log = [p \in Partitions |-> <<>>]
    /\ applied = [p \in Partitions |-> 0]
    /\ view = [k \in Keys |-> NULL]

\* The log grows at the end of one partition.
Grow ==
    /\ \E p \in Partitions :
          /\ log' = [log EXCEPT ![p] = log'[p]]
          /\ Len(log'[p]) > Len(log[p])
          /\ SubSeq(log'[p], 1, Len(log[p])) = log[p]
    /\ UNCHANGED <<applied, view>>

\* The replica applies some further records, never one it applied before.
Apply ==
    /\ applied' # applied
    /\ \A p \in Partitions : applied'[p] \in applied[p]..Len(log[p])
    /\ view' = [k \in Keys |-> ValueAt(applied', k)]
    /\ UNCHANGED log

Next == Grow \/ Apply

Spec == Init /\ [][Next]_vars
=============================================================================
