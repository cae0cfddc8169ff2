------------------------ MODULE SchemaEvolutionProofs ------------------------
(* Theorems about SchemaEvolution, for any rows, partitions, batch size,     *)
(* number of schema versions and of driver failures: what cannot be decoded  *)
(* or merged is never passed over, and a table that has become too narrow    *)
(* stops its job for good.                                                   *)
EXTENDS SchemaEvolution, TLAPS

-----------------------------------------------------------------------------
(* The inductive invariant.  Nothing expires here, so a batch is its whole   *)
(* range; and what counts as written has been merged.                        *)
NothingExpires == \A p \in Partitions : logStart[p] = 0

DoneIsMerged == \A p \in Partitions : \A i \in 1..Done[p] : <<p, i>> \in merged

IInv == TypeOK /\ CheckpointInv /\ NothingExpires /\ DoneIsMerged

(* A planned batch ends between what is committed and what there is.         *)
LEMMA PlanEnds ==
    ASSUME TopicTypeOK, EngineTypeOK, PlanBatch
    PROVE  /\ offsets' \in Offsets
           /\ \A p \in Partitions : commits[p] <= offsets'[p] /\ offsets'[p] <= Len(topic[p])
<1>1. PICK end \in BatchEnds : offsets' = end
  BY DEF PlanBatch
<1>2. /\ DOMAIN end = Partitions
      /\ end = [p \in Partitions |-> end[p]]
      /\ \A p \in Partitions : end[p] \in commits[p]..Len(topic[p])
  BY DEF BatchEnds
<1>3. \A p \in Partitions : commits[p] \in Nat /\ Len(topic[p]) \in Nat
  BY DEF EngineTypeOK, Offsets, TopicTypeOK
<1>4. \A p \in Partitions : /\ end[p] \in Nat
                            /\ commits[p] <= end[p] /\ end[p] <= Len(topic[p])
  BY <1>2, <1>3
<1>5. QED
  BY <1>1, <1>2, <1>4 DEF Offsets

(* The records of a batch, by their coordinates: all of the planned range.   *)
LEMMA BatchIsRange ==
    ASSUME IInv
    PROVE  {<<record.kafka_partition, record.kafka_offset>> : record \in Batch}
              = UNION {{<<p, i>> : i \in (commits[p] + 1)..offsets[p]} : p \in Partitions}
<1> DEFINE range(p) == {i \in 1..Len(topic[p]) :
                          i > commits[p] /\ i > logStart[p] /\ i <= offsets[p]}
           coordinates == {<<record.kafka_partition, record.kafka_offset>> : record \in Batch}
<1>1. \A p \in Partitions : range(p) = (commits[p] + 1)..offsets[p]
  <2> SUFFICES ASSUME NEW p \in Partitions
               PROVE  range(p) = (commits[p] + 1)..offsets[p]
    OBVIOUS
  <2>1. /\ commits[p] \in Nat /\ offsets[p] \in Nat /\ Len(topic[p]) \in Nat
        /\ logStart[p] = 0 /\ offsets[p] <= Len(topic[p])
    BY DEF IInv, TypeOK, TopicTypeOK, EngineTypeOK, Offsets, CheckpointInv, NothingExpires
  <2>2. QED
    BY <2>1
<1>2. Batch = UNION {{Decode(p, i) : i \in range(p)} : p \in Partitions}
  BY DEF Batch, Poll
<1>3. \A p, i : Decode(p, i).kafka_partition = p /\ Decode(p, i).kafka_offset = i
  BY DEF Decode
<1> HIDE DEF range
<1>4. \A d : d \in Batch <=> \E p \in Partitions : \E i \in range(p) : d = Decode(p, i)
  BY <1>2
<1>5. \A c : c \in coordinates <=> \E p \in Partitions : \E i \in range(p) : c = <<p, i>>
  <2> SUFFICES ASSUME NEW c
               PROVE  c \in coordinates <=> \E p \in Partitions : \E i \in range(p) : c = <<p, i>>
    OBVIOUS
  <2>1. ASSUME c \in coordinates
        PROVE  \E p \in Partitions : \E i \in range(p) : c = <<p, i>>
    <3>1. PICK d \in Batch : c = <<d.kafka_partition, d.kafka_offset>>
      BY <2>1
    <3>2. PICK p \in Partitions : \E i \in range(p) : d = Decode(p, i)
      BY <1>4
    <3>3. PICK i \in range(p) : d = Decode(p, i)
      BY <3>2
    <3>4. QED
      BY <1>3, <3>1, <3>3
  <2>2. ASSUME NEW p \in Partitions, NEW i \in range(p), c = <<p, i>>
        PROVE  c \in coordinates
    <3>1. Decode(p, i) \in Batch
      BY <1>4
    <3>2. QED
      BY <1>3, <2>2, <3>1
  <2>3. QED
    BY <2>1, <2>2
<1> HIDE DEF coordinates
<1>6. coordinates = UNION {{<<p, i>> : i \in range(p)} : p \in Partitions}
  BY <1>5
<1>7. UNION {{<<p, i>> : i \in range(p)} : p \in Partitions}
         = UNION {{<<p, i>> : i \in (commits[p] + 1)..offsets[p]} : p \in Partitions}
  BY <1>1
<1>8. QED
  BY <1>6, <1>7 DEF coordinates

-----------------------------------------------------------------------------
(* The source: a new column, and a change written with the schema of now.    *)
LEMMA AddColumnStep ==
    ASSUME IInv, AddColumn
    PROVE  IInv'
<1>1. TypeOK'
  BY SchemaAssumption DEF IInv, TypeOK, AddColumn, TopicTypeOK, EngineTypeOK, topicVars, engineVars
<1>2. CheckpointInv' /\ NothingExpires' /\ DoneIsMerged'
  BY DEF IInv, AddColumn, CheckpointInv, NothingExpires, DoneIsMerged, Done, topicVars, engineVars
<1>3. QED
  BY <1>1, <1>2 DEF IInv

LEMMA ChangeStep ==
    ASSUME IInv, NEW k \in Keys, Change(k)
    PROVE  IInv'
<1> DEFINE q == PartitionOf[k]
           r == [key |-> k, value |-> AnyChange(k)]
           s == <<r>>
<1>1. q \in Partitions
  BY TopicAssumption
<1>2. r \in Record
  BY DEF Record, AnyChange, Envelope, Image, Ops
<1>3. /\ topic' = [topic EXCEPT ![q] = @ \o s]
      /\ writer' = [writer EXCEPT ![q] = Append(@, schema)]
      /\ registry' = schema
      /\ UNCHANGED <<logStart, engineVars, schema, reader, columns, merged>>
  BY DEF Change, Produce
<1> HIDE DEF r, q
<1>4. topic[q] \in Seq(Record) /\ writer[q] \in Seq(1..MaxVersion) /\ schema \in 1..MaxVersion
  BY <1>1 DEF IInv, TypeOK, TopicTypeOK
<1>5. topic[q] \o s \in Seq(Record) /\ Len(topic[q] \o s) = Len(topic[q]) + 1
  BY <1>2, <1>4
<1>6. Append(writer[q], schema) \in Seq(1..MaxVersion)
      /\ Len(Append(writer[q], schema)) = Len(writer[q]) + 1
  BY <1>4
<1> HIDE DEF s
<1>7. \A p \in Partitions : /\ topic'[p] = IF p = q THEN topic[q] \o s ELSE topic[p]
                            /\ writer'[p] = IF p = q THEN Append(writer[q], schema) ELSE writer[p]
  BY <1>1, <1>3 DEF IInv, TypeOK, TopicTypeOK
<1>8. TopicTypeOK' /\ writer' \in [Partitions -> Seq(1..MaxVersion)]
  BY <1>1, <1>3, <1>5, <1>6 DEF IInv, TypeOK, TopicTypeOK
<1>9. \A p \in Partitions : Len(writer'[p]) = Len(topic'[p]) /\ Len(topic[p]) <= Len(topic'[p])
  <2> SUFFICES ASSUME NEW p \in Partitions
               PROVE  Len(writer'[p]) = Len(topic'[p]) /\ Len(topic[p]) <= Len(topic'[p])
    OBVIOUS
  <2>1. Len(writer[p]) = Len(topic[p]) /\ Len(topic[p]) \in Nat
    BY DEF IInv, TypeOK, TopicTypeOK
  <2>2. CASE p = q
    <3>1. topic'[p] = topic[q] \o s /\ writer'[p] = Append(writer[q], schema)
      BY <1>7, <2>2
    <3>2. /\ Len(topic'[p]) = Len(topic[p]) + 1
          /\ Len(writer'[p]) = Len(writer[p]) + 1
      BY <1>5, <1>6, <2>2, <3>1
    <3>3. QED
      BY <2>1, <3>2
  <2>3. CASE p # q
    BY <1>7, <2>1, <2>3
  <2>4. QED
    BY <2>2, <2>3
<1>10. TypeOK'
  <2>1. EngineTypeOK' /\ schema' \in 1..MaxVersion /\ registry' \in 0..schema'
        /\ merged' \subseteq Partitions \X Nat
    BY <1>3, SchemaAssumption DEF IInv, TypeOK, EngineTypeOK, engineVars
  <2>2. reader' \in 0..registry' /\ columns' \in 0..reader' /\ (phase' # "down" => reader' # 0)
    BY <1>3, SchemaAssumption DEF IInv, TypeOK, engineVars
  <2>3. QED
    BY <1>8, <1>9, <2>1, <2>2 DEF TypeOK
<1>11. CheckpointInv'
  <2> SUFFICES ASSUME NEW p \in Partitions
               PROVE  /\ commits'[p] <= offsets'[p] /\ offsets'[p] <= Len(topic'[p])
                      /\ logStart'[p] <= Len(topic'[p])
    BY DEF CheckpointInv
  <2>1. /\ commits'[p] = commits[p] /\ offsets'[p] = offsets[p] /\ logStart'[p] = logStart[p]
        /\ commits[p] <= offsets[p] /\ offsets[p] <= Len(topic[p]) /\ logStart[p] <= Len(topic[p])
        /\ commits[p] \in Nat /\ offsets[p] \in Nat /\ logStart[p] \in Nat
        /\ Len(topic[p]) \in Nat /\ Len(topic'[p]) \in Nat
    BY <1>3, <1>8 DEF IInv, TypeOK, TopicTypeOK, EngineTypeOK, Offsets, CheckpointInv, engineVars
  <2>2. QED
    BY <1>9, <2>1
<1>12. NothingExpires' /\ DoneIsMerged'
  BY <1>3 DEF IInv, NothingExpires, DoneIsMerged, Done, engineVars
<1>13. QED
  BY <1>10, <1>11, <1>12 DEF IInv

-----------------------------------------------------------------------------
(* The driver: what it knows of the schemas changes when it starts, what is  *)
(* merged when it merges, and the checkpoint when it plans and commits.      *)
LEMMA StartStep ==
    ASSUME IInv, StartDriver
    PROVE  IInv'
<1>1. /\ registry # 0 /\ phase' \in {"idle", "planned"} /\ reader' = registry
      /\ UNCHANGED <<topic, logStart, offsets, commits, restarts, resets,
                     schema, registry, writer, columns, merged>>
  BY DEF StartDriver, Start, topicVars
<1>2. TypeOK'
  BY <1>1, SchemaAssumption DEF IInv, TypeOK, TopicTypeOK, EngineTypeOK, Phases
<1>3. CheckpointInv' /\ NothingExpires'
  BY <1>1 DEF IInv, CheckpointInv, NothingExpires
<1>4. DoneIsMerged'
  <2>1. phase = "down" /\ Done = commits /\ Done' = commits
    BY <1>1 DEF StartDriver, Start, Done
  <2>2. QED
    BY <1>1, <2>1 DEF IInv, DoneIsMerged
<1>5. QED
  BY <1>2, <1>3, <1>4 DEF IInv

LEMMA ProcessStep ==
    ASSUME IInv, Process
    PROVE  IInv'
<1>1. CASE BatchFails \/ EnsureTable
  <2>1. /\ phase \in {"planned", "ensured"} /\ phase' \in {"down", "ensured"}
        /\ columns' = columns \/ (columns = 0 /\ columns' = reader)
        /\ UNCHANGED <<topic, logStart, offsets, commits, restarts, resets,
                       schema, registry, writer, reader, merged>>
    BY <1>1 DEF BatchFails, EnsureTable, topicVars, schemaVars
  <2>2. TypeOK'
    BY <2>1, SchemaAssumption DEF IInv, TypeOK, TopicTypeOK, EngineTypeOK, Phases
  <2>3. CheckpointInv' /\ NothingExpires'
    BY <2>1 DEF IInv, CheckpointInv, NothingExpires
  <2>4. DoneIsMerged'
    BY <2>1 DEF IInv, DoneIsMerged, Done
  <2>5. QED
    BY <2>2, <2>3, <2>4 DEF IInv
<1>2. CASE MergeBatch
  <2> DEFINE coordinates == {<<record.kafka_partition, record.kafka_offset>> : record \in Batch}
  <2>1. /\ phase = "ensured" /\ phase' = "written"
        /\ merged' = merged \cup coordinates
        /\ UNCHANGED <<topic, logStart, offsets, commits, restarts, resets,
                       schema, registry, writer, reader, columns>>
    BY <1>2 DEF MergeBatch, topicVars
  <2>2. coordinates = UNION {{<<p, i>> : i \in (commits[p] + 1)..offsets[p]} : p \in Partitions}
    BY BatchIsRange
  <2> HIDE DEF coordinates
  <2>3. \A p \in Partitions : commits[p] \in Nat /\ offsets[p] \in Nat
    BY DEF IInv, TypeOK, EngineTypeOK, Offsets
  <2>4. coordinates \subseteq Partitions \X Nat
    BY <2>2, <2>3
  <2>5. TypeOK'
    BY <2>1, <2>4, SchemaAssumption DEF IInv, TypeOK, TopicTypeOK, EngineTypeOK, Phases
  <2>6. CheckpointInv' /\ NothingExpires'
    BY <2>1 DEF IInv, CheckpointInv, NothingExpires
  <2>7. DoneIsMerged'
    <3> SUFFICES ASSUME NEW p \in Partitions, NEW i \in 1..offsets[p]
                 PROVE  <<p, i>> \in merged'
      BY <2>1 DEF DoneIsMerged, Done
    <3>1. CASE i <= commits[p]
      <4>1. i \in 1..commits[p] /\ Done = commits
        BY <2>1, <2>3, <3>1 DEF Done
      <4>2. QED
        BY <2>1, <4>1 DEF IInv, DoneIsMerged
    <3>2. CASE ~(i <= commits[p])
      <4>1. i \in (commits[p] + 1)..offsets[p]
        BY <2>3, <3>2
      <4>2. QED
        BY <2>1, <2>2, <4>1
    <3>3. QED
      BY <3>1, <3>2
  <2>8. QED
    BY <2>5, <2>6, <2>7 DEF IInv
<1>3. QED
  BY <1>1, <1>2 DEF Process

LEMMA EngineStep ==
    ASSUME IInv, Engine
    PROVE  IInv'
<1>0. UNCHANGED <<topic, logStart, schemaVars>>
  BY DEF Engine, PlanBatch, CommitBatch, Fail, topicVars
<1>1. CASE PlanBatch
  <2>1. phase = "idle" /\ phase' = "planned" /\ UNCHANGED <<commits, restarts, resets>>
    BY <1>1 DEF PlanBatch
  <2>2. /\ offsets' \in Offsets
        /\ \A p \in Partitions : commits[p] <= offsets'[p] /\ offsets'[p] <= Len(topic[p])
    BY <1>1, PlanEnds DEF IInv, TypeOK
  <2>3. TypeOK'
    BY <1>0, <2>1, <2>2 DEF IInv, TypeOK, TopicTypeOK, EngineTypeOK, Phases, schemaVars
  <2>4. CheckpointInv' /\ NothingExpires' /\ DoneIsMerged'
    BY <1>0, <2>1, <2>2 DEF IInv, CheckpointInv, NothingExpires, DoneIsMerged, Done, schemaVars
  <2>5. QED
    BY <2>3, <2>4 DEF IInv
<1>2. CASE CommitBatch
  <2>1. /\ phase = "written" /\ phase' = "idle" /\ commits' = offsets
        /\ UNCHANGED <<offsets, restarts, resets>>
    BY <1>2 DEF CommitBatch
  <2>2. TypeOK'
    BY <1>0, <2>1 DEF IInv, TypeOK, TopicTypeOK, EngineTypeOK, Phases, schemaVars
  <2>3. CheckpointInv'
    BY <1>0, <2>1 DEF IInv, TypeOK, EngineTypeOK, Offsets, CheckpointInv
  <2>4. NothingExpires' /\ DoneIsMerged'
    BY <1>0, <2>1 DEF IInv, NothingExpires, DoneIsMerged, Done, schemaVars
  <2>5. QED
    BY <2>2, <2>3, <2>4 DEF IInv
<1>3. CASE Fail
  <2>1. /\ phase # "down" /\ phase' = "down" /\ restarts' = restarts + 1
        /\ UNCHANGED <<offsets, commits, resets>>
    BY <1>3 DEF Fail
  <2>2. TypeOK'
    BY <1>0, <2>1 DEF IInv, TypeOK, TopicTypeOK, EngineTypeOK, Phases, schemaVars
  <2>3. CheckpointInv' /\ NothingExpires'
    BY <1>0, <2>1 DEF IInv, CheckpointInv, NothingExpires
  <2>4. DoneIsMerged'
    <3> SUFFICES ASSUME NEW p \in Partitions, NEW i \in 1..commits[p]
                 PROVE  <<p, i>> \in merged'
      BY <2>1 DEF DoneIsMerged, Done
    <3>1. commits[p] \in Nat /\ offsets[p] \in Nat /\ commits[p] <= offsets[p]
      BY DEF IInv, TypeOK, EngineTypeOK, Offsets, CheckpointInv
    <3>2. i \in 1..Done[p]
      BY <3>1 DEF Done
    <3>3. QED
      BY <1>0, <3>2 DEF IInv, DoneIsMerged, schemaVars
  <2>5. QED
    BY <2>2, <2>3, <2>4 DEF IInv
<1>4. QED
  BY <1>1, <1>2, <1>3 DEF Engine

LEMMA InitIInv == Init => IInv
<1> SUFFICES ASSUME Init PROVE IInv
  OBVIOUS
<1>1. /\ topic = [p \in Partitions |-> << >>] /\ logStart = [p \in Partitions |-> 0]
      /\ phase = "down" /\ offsets = [p \in Partitions |-> 0] /\ commits = [p \in Partitions |-> 0]
      /\ restarts = 0 /\ resets = 0
      /\ schema = 1 /\ registry = 0 /\ reader = 0 /\ columns = 0 /\ merged = {}
      /\ writer = [p \in Partitions |-> << >>]
  BY DEF Init, TopicInit, EngineInit, ZeroOffsets
<1>2. TypeOK
  BY <1>1, SchemaAssumption DEF TypeOK, TopicTypeOK, EngineTypeOK, Offsets, Phases
<1>3. CheckpointInv /\ NothingExpires /\ DoneIsMerged
  BY <1>1 DEF CheckpointInv, NothingExpires, DoneIsMerged, Done
<1>4. QED
  BY <1>2, <1>3 DEF IInv

LEMMA StepIInv == IInv /\ [Next]_vars => IInv'
<1> SUFFICES ASSUME IInv, [Next]_vars PROVE IInv'
  OBVIOUS
<1>1. CASE Next
  BY <1>1, AddColumnStep, ChangeStep, StartStep, ProcessStep, EngineStep DEF Next
<1>2. CASE UNCHANGED vars
  BY <1>2 DEF vars, IInv, TypeOK, TopicTypeOK, EngineTypeOK, CheckpointInv, NothingExpires,
              DoneIsMerged, Done, topicVars, engineVars, schemaVars
<1>3. QED
  BY <1>1, <1>2

LEMMA Invariance == Spec => []IInv
BY InitIInv, StepIInv, PTL DEF Spec

-----------------------------------------------------------------------------
(* The versions never run ahead of each other: the table has no column the   *)
(* driver does not know, nor the driver one the registry does not.           *)
THEOREM SchemaTypeCorrect == Spec => []TypeOK
<1>1. IInv => TypeOK
  BY DEF IInv
<1>2. QED
  BY <1>1, Invariance, PTL

(* from_avro in FAILFAST mode and the checkpoint: a record that is committed *)
(* was merged; what cannot be decoded or merged is never passed over.        *)
THEOREM NoChangeLost == Spec => []NoChangeIsSkipped
<1>1. IInv => NoChangeIsSkipped
  <2> SUFFICES ASSUME IInv, NEW p \in Partitions, NEW i \in 1..commits[p]
               PROVE  <<p, i>> \in merged
    BY DEF NoChangeIsSkipped
  <2>1. commits[p] \in Nat /\ offsets[p] \in Nat /\ commits[p] <= offsets[p]
    BY DEF IInv, TypeOK, EngineTypeOK, Offsets, CheckpointInv
  <2>2. i \in 1..Done[p]
    BY <2>1 DEF Done
  <2>3. QED
    BY <2>2 DEF IInv, DoneIsMerged
<1>2. QED
  BY <1>1, Invariance, PTL

(* SilverJob.ensure_table: once a driver knows a column the table lacks, no  *)
(* driver after it knows less, nobody widens the table, and nothing is       *)
(* merged again.                                                             *)
THEOREM NarrowTableIsFinal == Spec => NarrowTableStopsTheJob
<1> DEFINE Stopped == TooNarrow => TooNarrow' /\ merged' = merged
<1>1. IInv /\ [Next]_vars => Stopped
  <2> SUFFICES ASSUME IInv, [Next]_vars, TooNarrow
               PROVE  TooNarrow' /\ merged' = merged
    OBVIOUS
  <2>1. /\ columns # 0 /\ reader > columns
        /\ schema \in Nat /\ registry \in Nat /\ reader \in Nat /\ columns \in Nat
        /\ reader <= registry
    BY SchemaAssumption DEF TooNarrow, IInv, TypeOK
  <2>2. ASSUME columns' = columns, reader' = reader \/ reader' = registry, merged' = merged
        PROVE  TooNarrow' /\ merged' = merged
    BY <2>1, <2>2 DEF TooNarrow
  <2>3. CASE AddColumn
    BY <2>2, <2>3 DEF AddColumn
  <2>4. ASSUME NEW k \in Keys, Change(k)
        PROVE  TooNarrow' /\ merged' = merged
    BY <2>2, <2>4 DEF Change
  <2>5. CASE StartDriver
    BY <2>2, <2>5 DEF StartDriver
  <2>6. CASE Process
    <3>1. ~MergeBatch
      BY <2>1 DEF MergeBatch
    <3>2. QED
      BY <2>1, <2>2, <2>6, <3>1 DEF Process, BatchFails, EnsureTable, schemaVars
  <2>7. CASE Engine
    BY <2>2, <2>7 DEF Engine, schemaVars
  <2>8. CASE UNCHANGED vars
    BY <2>2, <2>8 DEF vars, schemaVars
  <2>9. QED
    BY <2>3, <2>4, <2>5, <2>6, <2>7, <2>8 DEF Next
<1>2. IInv /\ [Next]_vars => [Stopped]_vars
  BY <1>1
<1>3. QED
  BY <1>2, Invariance, PTL DEF Spec, NarrowTableStopsTheJob
=============================================================================
