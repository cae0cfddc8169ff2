--------------------------- MODULE StreamingEngine ---------------------------
(* StreamingJob as Spark Structured Streaming runs it over one topic: a      *)
(* driver process that plans a micro-batch, records its end offsets in the   *)
(* checkpoint, calls process_batch (foreachBatch), and records the batch as  *)
(* committed when the call returns.  The checkpoint outlives the process:    *)
(* a driver that starts and finds a planned batch that is not committed runs *)
(* that batch again, over the same offsets.                                  *)
(*                                                                           *)
(* process_batch itself belongs to the jobs (SilverJob, BronzeJob): it takes *)
(* the batch from "planned" through "ensured" (the target table exists) to   *)
(* "written" (the Iceberg commit is done).                                   *)
EXTENDS KafkaTopic, FiniteSetsExt

CONSTANTS MaxOffsetsPerTrigger,   \* records one micro-batch may hold
          MaxRestarts,            \* bound: failures of the driver
          MaxResets               \* bound: deletions of the checkpoint

ASSUME EngineAssumption ==
    /\ MaxOffsetsPerTrigger \in Nat \ {0}
    /\ MaxRestarts \in Nat
    /\ MaxResets \in Nat

VARIABLES phase,      \* where the driver is in the micro-batch loop
          offsets,    \* checkpoint: end of the batch planned last
          commits,    \* checkpoint: end of the batch committed last
          restarts,   \* how many times the driver has failed
          resets      \* how many times the checkpoint has been deleted

engineVars == <<phase, offsets, commits, restarts, resets>>

-----------------------------------------------------------------------------
Phases == {"down", "idle", "planned", "ensured", "written"}

\* Mutant: startingOffsets=latest, a new checkpoint skips the backlog.
LatestOffsets == [p \in Partitions |-> Len(topic[p])]

\* startingOffsets=earliest: a new checkpoint starts at the first record.
ZeroOffsets == [p \in Partitions |-> 0]

EngineTypeOK ==
    /\ phase \in Phases
    /\ offsets \in Offsets
    /\ commits \in Offsets
    /\ restarts \in Nat
    /\ resets \in Nat

EngineInit ==
    /\ phase = "down"
    /\ offsets = ZeroOffsets
    /\ commits = ZeroOffsets
    /\ restarts = 0
    /\ resets = 0

\* Mutant: a batch that was planned counts as committed after a failure.
StartSkippingPlannedBatch ==
    /\ phase = "down"
    /\ phase' = "idle"
    /\ commits' = offsets
    /\ UNCHANGED <<topicVars, offsets, restarts, resets>>

\* The pod starts the driver, which first runs a batch left uncommitted.
Start ==
    /\ phase = "down"
    /\ phase' = IF offsets = commits THEN "idle" ELSE "planned"
    /\ UNCHANGED <<topicVars, offsets, commits, restarts, resets>>

\* The ends a batch may have: at most maxOffsetsPerTrigger new records, of
\* those the driver saw when it asked Kafka for the latest offsets.
BatchEnds ==
    {end \in [Partitions -> UNION {commits[p]..Len(topic[p]) : p \in Partitions}] :
        /\ \A p \in Partitions : end[p] \in commits[p]..Len(topic[p])
        /\ end # commits
        /\ MapThenSumSet(LAMBDA p : end[p] - commits[p], Partitions)
              <= MaxOffsetsPerTrigger}

PlanBatch ==
    /\ phase = "idle"
    /\ \E end \in BatchEnds : offsets' = end
    /\ phase' = "planned"
    /\ UNCHANGED <<topicVars, commits, restarts, resets>>

\* The micro-batch: what Kafka still has of the planned range.
Batch == Poll(commits, offsets)

\* Mutant: the batch may be committed before process_batch is called.
CommitBatchEarly ==
    /\ phase \in {"planned", "written"}
    /\ commits' = offsets
    /\ phase' = "idle"
    /\ UNCHANGED <<topicVars, offsets, restarts, resets>>

\* process_batch returned: the batch is committed.
CommitBatch ==
    /\ phase = "written"
    /\ commits' = offsets
    /\ phase' = "idle"
    /\ UNCHANGED <<topicVars, offsets, restarts, resets>>

\* The driver dies, or process_batch raises and the query fails with it.
Fail ==
    /\ phase # "down"
    /\ restarts < MaxRestarts
    /\ restarts' = restarts + 1
    /\ phase' = "down"
    /\ UNCHANGED <<topicVars, offsets, commits, resets>>

\* An operator deletes the checkpoint of a stopped job.
ResetCheckpoint ==
    /\ phase = "down"
    /\ resets < MaxResets
    /\ offsets # ZeroOffsets
    /\ resets' = resets + 1
    /\ offsets' = ZeroOffsets
    /\ commits' = ZeroOffsets
    /\ UNCHANGED <<topicVars, phase, restarts>>

\* Every record of the topic belongs to a committed batch.
Drained == phase = "idle" /\ \A p \in Partitions : commits[p] = Len(topic[p])

\* The checkpoint is ordered: committed, planned, and no more than there is.
CheckpointInv ==
    \A p \in Partitions : /\ commits[p] <= offsets[p]
                          /\ offsets[p] <= Len(topic[p])
                          /\ logStart[p] <= Len(topic[p])

\* The end of what has been written in this life of the checkpoint.
Done == IF phase = "written" THEN offsets ELSE commits
=============================================================================
