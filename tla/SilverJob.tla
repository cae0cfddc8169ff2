------------------------------ MODULE SilverJob ------------------------------
(* SilverJob: the streaming engine with the process_batch that keeps         *)
(* lakehouse.silver.<table> as the current state of the source table.        *)
EXTENDS StreamingEngine, SilverTransform

VARIABLES created,   \* the Iceberg table exists
          silver,    \* its rows
          applied    \* history: highest offset of each partition ever merged

silverVars == <<created, silver, applied>>

SilverTypeOK ==
    /\ created \in BOOLEAN
    /\ silver \subseteq SilverRow
    /\ applied \in Offsets

SilverInit ==
    /\ created = FALSE
    /\ silver = {}
    /\ applied = ZeroOffsets

\* Mutant: ensure_table fails when the table is there already.
EnsureTableOnce ==
    /\ phase = "planned"
    /\ ~created
    /\ created' = TRUE
    /\ phase' = "ensured"
    /\ UNCHANGED <<topicVars, offsets, commits, restarts, resets, silver, applied>>

\* ensure_table: create the target with the batch's columns unless it exists.
EnsureTable ==
    /\ phase = "planned"
    /\ created' = TRUE
    /\ phase' = "ensured"
    /\ UNCHANGED <<topicVars, offsets, commits, restarts, resets, silver, applied>>

FlatBatch == {Flatten(d) : d \in Batch}

\* current_timestamp() is a clock that ticks when the driver restarts.
Now == restarts

\* The rest of process_batch: one MERGE, one atomic Iceberg commit.  A MERGE
\* that raises a cardinality error writes nothing; the driver can only Fail.
MergeBatch ==
    /\ phase = "ensured"
    /\ created
    /\ \E winners \in Deduplications(FlatBatch) :
          /\ ~CardinalityError(silver, winners)
          /\ silver' = Merge(silver, winners, Now)
    /\ applied' = [p \in Partitions |->
                     IF offsets[p] > applied[p] THEN offsets[p] ELSE applied[p]]
    /\ phase' = "written"
    /\ UNCHANGED <<topicVars, offsets, commits, restarts, resets, created>>

Engine ==
    /\ \/ Start
       \/ PlanBatch
       \/ CommitBatch
       \/ Fail
       \/ ResetCheckpoint
    /\ UNCHANGED silverVars

JobNext == Engine \/ EnsureTable \/ MergeBatch

-----------------------------------------------------------------------------
\* The version Silver holds of each key.
SilverView == ViewOf(silver)

\* The rows without the columns that only say when they were merged.
Contents(table) ==
    {[pk |-> t.pk, version |-> t.version, source_lsn |-> t.source_lsn,
      source_ts_ms |-> t.source_ts_ms] : t \in table}
=============================================================================
