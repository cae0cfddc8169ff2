--------------------------- MODULE SchemaEvolution ---------------------------
(* A column is added to a replicated table while its streaming job runs.     *)
(* Debezium registers the new schema with the first change it writes with    *)
(* it; the job reads the registry once in the life of its driver, decodes    *)
(* every record with that schema alone, and merges into a table that has the *)
(* columns of the first batch.  Schemas are versions, each with one more     *)
(* column than the one before.                                               *)
EXTENDS StreamingEngine

CONSTANTS MaxVersion,   \* bound: versions of the source table's schema
          MaxChanges    \* bound: changes

ASSUME SchemaAssumption == MaxVersion \in Nat \ {0} /\ MaxChanges \in Nat

VARIABLES schema,    \* the version the source table has
          registry,  \* the latest version of the subject, 0 if there is none
          writer,    \* the version each record of the topic was written with
          reader,    \* the version the driver has cached, 0 if it has none
          columns,   \* the version whose columns the target has, 0: no table
          merged     \* the records merged, as <<partition, offset>>

schemaVars == <<schema, registry, writer, reader, columns, merged>>
vars == <<topicVars, engineVars, schemaVars>>

Init ==
    /\ TopicInit /\ EngineInit
    /\ schema = 1
    /\ registry = 0
    /\ writer = [p \in Partitions |-> << >>]
    /\ reader = 0
    /\ columns = 0
    /\ merged = {}

-----------------------------------------------------------------------------
\* ALTER TABLE ... ADD COLUMN at the source.
AddColumn ==
    /\ schema < MaxVersion
    /\ schema' = schema + 1
    /\ UNCHANGED <<topicVars, engineVars, registry, writer, reader, columns, merged>>

\* What a change says does not matter here, only how it was written.
AnyChange(k) == [before |-> NULL, after |-> [pk |-> k, version |-> 0],
                 op |-> OP_CREATE, lsn |-> 0, ts_ms |-> 0]

Change(k) ==
    /\ MapThenSumSet(LAMBDA p : Len(topic[p]), Partitions) < MaxChanges
    /\ Produce(k, <<[key |-> k, value |-> AnyChange(k)]>>)
    /\ writer' = [writer EXCEPT ![PartitionOf[k]] = Append(@, schema)]
    /\ registry' = schema
    /\ UNCHANGED <<engineVars, schema, reader, columns, merged>>

-----------------------------------------------------------------------------
\* Mutant: a driver may start on a topic whose subject is not registered.
StartDriverUnregistered ==
    /\ Start
    /\ reader' = registry
    /\ UNCHANGED <<schema, registry, writer, columns, merged>>

\* decode_cdc asks value_schema for the latest version: of a subject that is
\* not registered yet the driver dies, and is started again.
StartDriver ==
    /\ registry # 0
    /\ Start
    /\ reader' = registry
    /\ UNCHANGED <<schema, registry, writer, columns, merged>>

Written(record) == writer[record.kafka_partition][record.kafka_offset]

\* Avro carries no field names: the bytes of a record make sense only in the
\* schema that wrote them, and from_avro is given the cached one alone.
Fits(record) == Written(record) = reader

\* from_avro raises on the first record it cannot decode (FAILFAST), before
\* process_batch; or the MERGE names columns the table does not have.
BatchFails ==
    /\ \/ phase = "planned" /\ \E record \in Batch : ~Fits(record)
       \/ phase = "ensured" /\ reader > columns
    /\ phase' = "down"
    /\ UNCHANGED <<topicVars, offsets, commits, restarts, resets, schemaVars>>

\* Mutant: the job widens a table that is narrower than the batch.
EnsureWideTable ==
    /\ phase = "planned"
    /\ phase' = "ensured"
    /\ columns' = reader
    /\ UNCHANGED <<topicVars, offsets, commits, restarts, resets,
                   schema, registry, writer, reader, merged>>

\* process_batch creates a missing table with the columns of this batch.  The
\* decoding has not raised: bytes of another schema may be read by chance, and
\* are counted as merged below, although their values are wrong.
EnsureTable ==
    /\ phase = "planned"
    /\ phase' = "ensured"
    /\ columns' = IF columns = 0 THEN reader ELSE columns
    /\ UNCHANGED <<topicVars, offsets, commits, restarts, resets,
                   schema, registry, writer, reader, merged>>

\* Mutant: from_avro in PERMISSIVE mode, which drops what it cannot decode.
MergePermissively ==
    /\ phase = "ensured"
    /\ reader <= columns
    /\ phase' = "written"
    /\ merged' = merged \cup {<<record.kafka_partition, record.kafka_offset>> :
                                 record \in {r \in Batch : Fits(r)}}
    /\ UNCHANGED <<topicVars, offsets, commits, restarts, resets,
                   schema, registry, writer, reader, columns>>

MergeBatch ==
    /\ phase = "ensured"
    /\ reader <= columns
    /\ phase' = "written"
    /\ merged' = merged \cup {<<record.kafka_partition, record.kafka_offset>> :
                                 record \in Batch}
    /\ UNCHANGED <<topicVars, offsets, commits, restarts, resets,
                   schema, registry, writer, reader, columns>>

Process == BatchFails \/ EnsureTable \/ MergeBatch

Engine == (PlanBatch \/ CommitBatch \/ Fail) /\ UNCHANGED schemaVars

Next == AddColumn \/ (\E k \in Keys : Change(k)) \/ StartDriver \/ Process \/ Engine

Spec == Init /\ [][Next]_vars

\* Kubernetes restarts the driver, and a driver that is up keeps working.
FairSpec ==
    /\ Spec
    /\ WF_vars(StartDriver)
    /\ WF_vars(Process)
    /\ WF_vars((PlanBatch \/ CommitBatch) /\ UNCHANGED schemaVars)

-----------------------------------------------------------------------------
(* Types; a driver that is up has a schema, the registry has nothing newer   *)
(* than the source, no driver has seen anything newer than the registry, and *)
(* the table has no column the driver does not know.                         *)
TypeOK ==
    /\ TopicTypeOK /\ EngineTypeOK
    /\ schema \in 1..MaxVersion
    /\ registry \in 0..schema
    /\ reader \in 0..registry
    /\ columns \in 0..reader
    /\ phase # "down" => reader # 0
    /\ writer \in [Partitions -> Seq(1..MaxVersion)]
    /\ \A p \in Partitions : Len(writer[p]) = Len(topic[p])
    /\ merged \subseteq Partitions \X Nat

(* FAILFAST and the checkpoint: a batch that cannot be decoded or merged is  *)
(* never passed over.  Every record below the committed offsets was merged,  *)
(* however the schemas of records, driver and table have drifted apart.      *)
NoChangeIsSkipped ==
    \A p \in Partitions : \A i \in 1..commits[p] : <<p, i>> \in merged

\* SilverJob.ensure_table creates a table and never alters one.
TooNarrow == columns # 0 /\ reader > columns

(* Once a driver has started with a schema that has more columns than the    *)
(* table, nothing is merged again: no restart, and no further change of the  *)
(* schema, brings the job back.                                              *)
NarrowTableStopsTheJob == [][TooNarrow => TooNarrow' /\ merged' = merged]_vars

\* HOW_IT_WORKS.md, bonus problem: an added column breaks nothing.  Every change
\* that is in the topic is merged in the end.
NothingBreaks ==
    \A p \in Partitions : \A i \in 1..MaxChanges :
        Len(topic[p]) >= i ~> <<p, i>> \in merged
=============================================================================
