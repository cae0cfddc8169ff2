------------------------------ MODULE BronzeJob ------------------------------
(* BronzeJob: the streaming engine with the process_batch that appends every *)
(* decoded record, with its Kafka coordinates, to lakehouse.bronze.<table>.  *)
EXTENDS StreamingEngine, Bags

VARIABLES landed,   \* the Bronze table exists
          bronze    \* its rows: a bag of decoded records

bronzeVars == <<landed, bronze>>

\* A row of Bronze is a change with the images of its kind, or a tombstone,
\* of which decode_cdc leaves nothing but its coordinates.
ChangeRow ==
    {d \in [kafka_partition : Partitions, kafka_offset : Nat, op : Ops,
            before : Image \cup {NULL}, after : Image \cup {NULL},
            lsn : Nat, ts_ms : Int] : WellFormed(d)}

TombstoneRow ==
    [kafka_partition : Partitions, kafka_offset : Nat, op : {NULL},
     before : {NULL}, after : {NULL}, lsn : {NULL}, ts_ms : {NULL}]

DecodedRow == ChangeRow \cup TombstoneRow

BronzeTypeOK ==
    /\ landed \in BOOLEAN
    /\ IsABag(bronze)
    /\ BagToSet(bronze) \subseteq DecodedRow

BronzeInit == landed = FALSE /\ bronze = EmptyBag

\* ensure_table: create the target with the batch's columns unless it exists.
EnsureBronzeTable ==
    /\ phase = "planned"
    /\ landed' = TRUE
    /\ phase' = "ensured"
    /\ UNCHANGED <<topicVars, offsets, commits, restarts, resets, bronze>>

\* enriched.writeTo(target).append(): one atomic Iceberg commit, which adds a
\* copy of every record of the batch (bronze_ingested_at is left out).
AppendBatch ==
    /\ phase = "ensured"
    /\ landed
    /\ bronze' = bronze (+) SetToBag(Batch)
    /\ phase' = "written"
    /\ UNCHANGED <<topicVars, offsets, commits, restarts, resets, landed>>

BronzeEngine ==
    /\ \/ Start
       \/ PlanBatch
       \/ CommitBatch
       \/ Fail
       \/ ResetCheckpoint
    /\ UNCHANGED bronzeVars

BronzeNext == BronzeEngine \/ EnsureBronzeTable \/ AppendBatch

-----------------------------------------------------------------------------
\* How many copies Bronze holds of the record at one Kafka coordinate.
Copies(p, offset) ==
    MapThenSumSet(LAMBDA d : bronze[d],
                  {d \in BagToSet(bronze) : d.kafka_partition = p /\ d.kafka_offset = offset})
=============================================================================
