------------------------- MODULE SilverPipelineProofs -------------------------
(* Theorems about SilverPipeline that hold whatever retention does: Silver   *)
(* keeps its types and its key, and no row of it goes back to an older       *)
(* change.  For every table, partitioning, clock, batch size and bound on    *)
(* failures.                                                                 *)
EXTENDS SilverPipeline, PipelineProofs

(* Types: TypeOK is inductive with what SourceTypes adds of the WAL and the  *)
(* topic.                                                                    *)
TypeInv == SourceTypes /\ EngineTypeOK /\ SilverTypeOK

(* The micro-batch, row by row.                                              *)
InBatch(k, i) ==
    LET p == PartitionOf[k]
    IN  i > commits[p] /\ i > logStart[p] /\ i <= offsets[p]

(* A row of the batch is a tombstone's row of NULLs, or comes from an event  *)
(* in the planned range that retention has left.                             *)
LEMMA FlatBatchRows ==
    ASSUME SourceTypes, EngineTypeOK, NEW f \in FlatBatch
    PROVE  \/ f.pk = NULL /\ f.op = NULL
           \/ /\ f.pk \in Keys /\ f.pk # NULL
              /\ \E i \in Slots(f.pk) :
                    IsEvent(f.pk, i) /\ InBatch(f.pk, i) /\ f = RowOf(f.pk, i)
<1>1. PICK p \in Partitions : \E i \in 1..Len(topic[p]) :
         /\ i > commits[p] /\ i > logStart[p] /\ i <= offsets[p]
         /\ f = Flatten(Decode(p, i))
  BY DEF FlatBatch, Batch, Poll
<1> PICK i \in 1..Len(topic[p]) :
         /\ i > commits[p] /\ i > logStart[p] /\ i <= offsets[p]
         /\ f = Flatten(Decode(p, i))
  BY <1>1
<1>2. CASE f.pk # NULL \/ f.op # NULL
  <2>1. /\ f.pk \in Keys /\ f.pk # NULL /\ PartitionOf[f.pk] = p
        /\ i \in Slots(f.pk) /\ IsEvent(f.pk, i) /\ f = RowOf(f.pk, i)
    BY <1>1, <1>2, FlatRow
  <2>2. InBatch(f.pk, i)
    BY <1>1, <2>1 DEF InBatch
  <2>3. QED
    BY <2>1, <2>2
<1>3. QED
  BY <1>2

(* And every event in that range has its row in the batch.                   *)
LEMMA EventsInBatch ==
    ASSUME SourceTypes, NEW k \in Keys, NEW i, IsEvent(k, i), InBatch(k, i)
    PROVE  RowOf(k, i) \in FlatBatch
<1>1. PartitionOf[k] \in Partitions /\ i \in 1..Len(topic[PartitionOf[k]])
  BY TopicAssumption DEF IsEvent, Slots
<1>2. Decode(PartitionOf[k], i) \in Batch
  BY <1>1 DEF Batch, Poll, InBatch
<1>3. QED
  BY <1>2 DEF FlatBatch, RowOf

-----------------------------------------------------------------------------
(* The rows a merge of the batch writes are typed: a tombstone's row, which  *)
(* has no key, is neither an update nor an insert.                           *)
LEMMA MergeType ==
    ASSUME TypeInv, NEW winners \in Deduplications(FlatBatch), NEW now \in Nat
    PROVE  Merge(silver, winners, now) \subseteq SilverRow
<1> SUFFICES ASSUME NEW r \in Merge(silver, winners, now)
             PROVE  r \in SilverRow
  OBVIOUS
<1>1. CASE r \in silver
  BY <1>1 DEF TypeInv, SilverTypeOK
<1>2. CASE \E s \in Updates(silver, winners) \cup Inserts(silver, winners) :
              r = Persisted(s, now)
  <2>1. PICK s \in Updates(silver, winners) \cup Inserts(silver, winners) :
           r = Persisted(s, now)
    BY <1>2
  <2>2. s \in FlatBatch
    BY WinnersUnique DEF Updates, Inserts
  <2>3. s.pk # NULL \/ s.op # NULL
    BY DEF Updates, Inserts, Matches, IsNotDelete
  <2>4. s.pk \in Keys /\ \E i \in Slots(s.pk) : IsEvent(s.pk, i) /\ s = RowOf(s.pk, i)
    BY <2>2, <2>3, FlatBatchRows DEF TypeInv
  <2>5. s.version \in Nat /\ s.source_lsn \in Nat /\ s.source_ts_ms \in Int
    BY <2>4, RowOfEvent DEF TypeInv
  <2>6. QED
    BY <2>1, <2>4, <2>5 DEF Persisted, SilverRow
<1>3. QED
  BY <1>1, <1>2, MergeRows

(* Every step of the engine and of the job keeps the types.                  *)
LEMMA JobTypesStep ==
    ASSUME TypeInv, JobNext
    PROVE  EngineTypeOK' /\ SilverTypeOK' /\ UNCHANGED topicVars
<1> USE DEF TypeInv
<1>1. CASE EngineStep /\ UNCHANGED silverVars
  BY <1>1, EngineTypesStep DEF SourceTypes, SilverTypeOK, silverVars
<1>2. CASE EnsureTable
  BY <1>2 DEF EnsureTable, EngineTypeOK, Phases, SilverTypeOK
<1>3. CASE MergeBatch
  <2>1. PICK winners \in Deduplications(FlatBatch) : silver' = Merge(silver, winners, Now)
    BY <1>3 DEF MergeBatch
  <2>2. Now \in Nat
    BY DEF Now, EngineTypeOK
  <2>3. silver' \subseteq SilverRow
    BY <2>1, <2>2, MergeType
  <2>4. applied' \in Offsets
    BY <1>3 DEF MergeBatch, EngineTypeOK, SilverTypeOK, Offsets
  <2>5. QED
    BY <1>3, <2>3, <2>4 DEF MergeBatch, EngineTypeOK, Phases, SilverTypeOK
<1>4. QED
  BY <1>1, <1>2, <1>3 DEF JobNext, Engine, EngineStep

(* Retention only moves the start of the log.                                *)
LEMMA RetentionTypesStep ==
    ASSUME TypeInv, Retention
    PROVE  TopicTypeOK' /\ topic' = topic
BY DEF Retention, ExpireRecord, TypeInv, SourceTypes, TopicTypeOK, Offsets

(* The initial states are typed.                                             *)
LEMMA InitTypes ==
    ASSUME Init
    PROVE  TypeInv
<1>1. SourceTypes
  BY InitSource DEF Init
<1>2. EngineTypeOK
  BY DEF Init, EngineInit, EngineTypeOK, Phases, ZeroOffsets, Offsets
<1>3. SilverTypeOK
  BY DEF Init, SilverInit, SilverTypeOK, ZeroOffsets, Offsets
<1>4. QED
  BY <1>1, <1>2, <1>3 DEF TypeInv

(* Every step keeps the types.                                               *)
LEMMA TypesStep ==
    ASSUME TypeInv, [Next]_vars
    PROVE  TypeInv'
<1>1. CASE Source
  <2>1. SourceTypes'
    BY <1>1, SourceTypesStep DEF Source, TypeInv
  <2>2. EngineTypeOK' /\ SilverTypeOK'
    BY <1>1 DEF Source, TypeInv, EngineTypeOK, SilverTypeOK, engineVars, silverVars
  <2>3. QED
    BY <2>1, <2>2 DEF TypeInv
<1>2. CASE Job
  <2>1. EngineTypeOK' /\ SilverTypeOK' /\ UNCHANGED topicVars /\ UNCHANGED captureVars
    BY <1>2, JobTypesStep DEF Job
  <2>2. TopicTypeOK' /\ topic' = topic
    BY <2>1 DEF topicVars, TypeInv, SourceTypes, TopicTypeOK
  <2>3. QED
    BY <2>1, <2>2, SourceTypesFrame DEF TypeInv
<1>3. CASE Retention
  <2>1. SourceTypes'
    BY <1>3, RetentionTypesStep, SourceTypesFrame DEF Retention, TypeInv
  <2>2. EngineTypeOK' /\ SilverTypeOK'
    BY <1>3 DEF Retention, TypeInv, EngineTypeOK, SilverTypeOK, engineVars, silverVars
  <2>3. QED
    BY <2>1, <2>2 DEF TypeInv
<1>4. CASE UNCHANGED vars
  <2>1. TopicTypeOK' /\ topic' = topic /\ UNCHANGED captureVars
    BY <1>4 DEF vars, topicVars, TypeInv, SourceTypes, TopicTypeOK
  <2>2. EngineTypeOK' /\ SilverTypeOK'
    BY <1>4 DEF vars, TypeInv, EngineTypeOK, SilverTypeOK, engineVars, silverVars
  <2>3. QED
    BY <2>1, <2>2, SourceTypesFrame DEF TypeInv
<1>5. QED
  BY <1>1, <1>2, <1>3, <1>4 DEF Next

(* Silver's rows, the topic, the WAL and the checkpoint always have their    *)
(* types: in particular no row of Silver ever has a NULL key, although every *)
(* delete is followed by a tombstone that decodes to a row of NULLs.         *)
THEOREM TypeCorrect == Spec => []TypeOK
<1>1. TypeInv => TypeOK
  BY DEF TypeInv, SourceTypes, TypeOK
<1>2. Init => TypeInv
  BY InitTypes
<1>3. TypeInv /\ [Next]_vars => TypeInv'
  BY TypesStep
<1>4. QED
  BY <1>1, <1>2, <1>3, PTL DEF Spec

(* No step of the system makes two rows of Silver share a primary key.       *)
THEOREM KeyIsUnique == Spec => []OneRowPerKey
<1> DEFINE Inv == TypeInv /\ OneRowPerKey
<1>1. Init => Inv
  BY InitTypes DEF Init, SilverInit, OneRowPerKey
<1>2. Inv /\ [Next]_vars => Inv'
  <2> SUFFICES ASSUME Inv, [Next]_vars
               PROVE  Inv'
    OBVIOUS
  <2>1. TypeInv'
    BY TypesStep
  <2>2. CASE MergeBatch
    <3>1. PICK winners \in Deduplications(FlatBatch) : silver' = Merge(silver, winners, Now)
      BY <2>2 DEF MergeBatch
    <3>2. \A t \in silver : t.pk # NULL
      BY TopicAssumption DEF TypeInv, SilverTypeOK, SilverRow
    <3>3. UniqueKey(silver)
      BY DEF OneRowPerKey, UniqueKey
    <3>4. UniqueKey(silver')
      BY <3>1, <3>2, <3>3, WinnersUnique, MergeKeepsKey
    <3>5. QED
      BY <2>1, <3>4 DEF OneRowPerKey, UniqueKey
  <2>3. CASE silver' = silver
    BY <2>1, <2>3 DEF OneRowPerKey
  <2>4. MergeBatch \/ silver' = silver
    BY DEF Next, Source, Job, JobNext, Engine, EnsureTable, Retention, vars, silverVars
  <2>5. QED
    BY <2>2, <2>3, <2>4
<1>3. Inv => OneRowPerKey
  OBVIOUS
<1>4. QED
  BY <1>1, <1>2, <1>3, PTL DEF Spec

(* The LSN guard of the MERGE, with the uniqueness of the key: an update     *)
(* replaces the one row of its key, whose LSN the guard compared.            *)
THEOREM LsnMonotone == Spec => LsnNeverRegresses
<1> DEFINE Inv == TypeInv /\ OneRowPerKey
           NoRegress == \A t \in silver, u \in silver' :
                           t.pk = u.pk => u.source_lsn >= t.source_lsn
<1>1. Inv /\ [Next]_vars => NoRegress
  <2> SUFFICES ASSUME Inv, [Next]_vars, NEW t \in silver, NEW u \in silver', t.pk = u.pk
               PROVE  u.source_lsn >= t.source_lsn
    OBVIOUS
  <2>1. t.source_lsn \in Nat /\ t.source_lsn # NULL
    BY TopicAssumption DEF TypeInv, SilverTypeOK, SilverRow
  <2>2. CASE u \in silver
    BY <2>1, <2>2 DEF OneRowPerKey
  <2>3. CASE MergeBatch /\ u \notin silver
    <3>1. PICK winners \in Deduplications(FlatBatch) : silver' = Merge(silver, winners, Now)
      BY <2>3 DEF MergeBatch
    <3>2. PICK s \in Updates(silver, winners) \cup Inserts(silver, winners) :
             u = Persisted(s, Now) /\ u.pk = s.pk
      BY <2>3, <3>1, MergeRows
    <3>3. s \in FlatBatch
      BY WinnersUnique DEF Updates, Inserts
    <3>4. s.pk # NULL \/ s.op # NULL
      BY DEF Updates, Inserts, Matches, IsNotDelete
    <3>5. PICK k \in Keys : k = s.pk /\ k # NULL
      BY <3>3, <3>4, FlatBatchRows DEF TypeInv
    <3>6. PICK i \in Slots(k) : IsEvent(k, i) /\ s = RowOf(k, i)
      BY <3>3, <3>4, <3>5, FlatBatchRows DEF TypeInv
    <3>7. s.source_lsn \in Nat /\ s.source_lsn # NULL
      BY <3>6, RowOfEvent DEF TypeInv
    <3>8. Matches(t, s)
      BY <3>2, <3>5 DEF Matches
    <3>9. \E r \in silver : Matches(r, s) /\ LsnAllows(r, s)
      BY <3>8 DEF Updates, Inserts
    <3>10. LsnAllows(t, s)
      BY <3>8, <3>9 DEF OneRowPerKey, Matches
    <3>11. u.source_lsn = s.source_lsn
      BY <3>2 DEF Persisted
    <3>12. QED
      BY <2>1, <3>7, <3>10, <3>11 DEF LsnAllows
  <2>4. MergeBatch \/ silver' = silver
    BY DEF Next, Source, Job, JobNext, Engine, EnsureTable, Retention, vars, silverVars
  <2>5. QED
    BY <2>2, <2>3, <2>4
<1>2. Inv /\ [Next]_vars => [NoRegress]_vars
  BY <1>1
<1>3. Spec => []TypeInv
  <2>1. Init => TypeInv
    BY InitTypes
  <2>2. TypeInv /\ [Next]_vars => TypeInv'
    BY TypesStep
  <2>3. QED
    BY <2>1, <2>2, PTL DEF Spec
<1>4. QED
  BY <1>2, <1>3, KeyIsUnique, PTL DEF Spec, LsnNeverRegresses

(* A row the merge writes is the after image of an event: a winner that is   *)
(* a delete, or a tombstone's row, is neither an update nor an insert.       *)
LEMMA MergeWritesImages ==
    ASSUME TypeInv, NEW winners \in Deduplications(FlatBatch), NEW now,
           NEW r \in Merge(silver, winners, now), r \notin silver
    PROVE  \E k \in Keys : \E i \in Slots(k) :
              /\ IsEvent(k, i)
              /\ Event(k, i).after = [pk |-> r.pk, version |-> r.version]
              /\ Event(k, i).lsn = r.source_lsn
              /\ Event(k, i).ts_ms = r.source_ts_ms
<1>1. PICK s \in Updates(silver, winners) \cup Inserts(silver, winners) :
         r = Persisted(s, now)
  BY MergeRows
<1>2. s \in FlatBatch
  BY WinnersUnique DEF Updates, Inserts
<1>3. s.pk # NULL \/ s.op # NULL
  BY DEF Updates, Inserts, Matches, IsNotDelete
<1>4. PICK k \in Keys : k = s.pk /\ k # NULL
  BY <1>2, <1>3, FlatBatchRows DEF TypeInv
<1>5. PICK i \in Slots(k) : IsEvent(k, i) /\ s = RowOf(k, i)
  BY <1>2, <1>3, <1>4, FlatBatchRows DEF TypeInv
<1> DEFINE e == Event(k, i)
<1>6. /\ e \in Envelope /\ WellFormed(e) /\ s.pk = k /\ s.op = e.op
      /\ s.source_lsn = e.lsn /\ s.source_ts_ms = e.ts_ms
      /\ s.op # OP_DELETE => s.version = e.after.version
  BY <1>5, RowOfEvent DEF TypeInv
<1>7. s.op # OP_DELETE
  BY DEF Updates, Inserts, IsDelete, IsNotDelete
<1>8. e.after # NULL /\ e.after \in Image
  BY <1>6, <1>7 DEF WellFormed, Envelope
<1>9. EventKey(e) = k
  <2>1. PartitionOf[k] \in Partitions /\ i \in 1..Len(topic[PartitionOf[k]])
        /\ topic[PartitionOf[k]][i].key = k /\ topic[PartitionOf[k]][i].value = e /\ e # NULL
    BY <1>5, TopicAssumption DEF IsEvent, Slots, Event
  <2>2. QED
    BY <2>1, RecordWellFormed DEF TypeInv
<1>10. e.after = [pk |-> k, version |-> e.after.version]
  BY <1>8, <1>9 DEF EventKey, Image
<1>11. QED
  BY <1>1, <1>4, <1>5, <1>6, <1>7, <1>10 DEF Persisted

(* SilverJob.process_batch: every row of Silver is, column by column, what   *)
(* one insert, update or snapshot read left, with the LSN and the clock of   *)
(* that same event, whatever is redelivered, replayed or expires.            *)
THEOREM RowsAreWrites == Spec => []RowsAreCommittedWrites
<1> DEFINE Committed == {wal[n] : n \in DOMAIN wal} \cup {SnapshotEvent(k) : k \in Keys}
           Inv == TypeInv /\ RowsAreCommittedWrites
<1>1. Init => Inv
  BY InitTypes DEF Init, SilverInit, RowsAreCommittedWrites
<1>2. Inv /\ [Next]_vars => Inv'
  <2> SUFFICES ASSUME Inv, [Next]_vars
               PROVE  Inv'
    OBVIOUS
  <2>1. TypeInv'
    BY TypesStep
  <2>2. Committed \subseteq Committed'
    <3>1. \A k \in Keys : SnapshotEvent(k)' = SnapshotEvent(k)
      BY DEF SnapshotEvent
    <3>2. \A n \in DOMAIN wal : n \in DOMAIN wal' /\ wal'[n] = wal[n]
      <4>1. CASE Source /\ Workload
        <5>1. PICK k \in Keys : InsertRow(k) \/ UpdateRow(k) \/ DeleteRow(k)
          BY <4>1 DEF Workload
        <5>2. PICK op \in Ops, version \in Nat \cup {NULL} :
                 /\ Write(k, op, version)
                 /\ (version = NULL) <=> (op = OP_DELETE)
                 /\ WriteFits(k, op)
          BY <5>1, WorkloadWrites DEF TypeInv
        <5>3. /\ Len(wal') = Len(wal) + 1
              /\ \A n \in 1..Len(wal) : wal'[n] = wal[n]
          BY <5>2, WriteType DEF TypeInv
        <5>4. DOMAIN wal = 1..Len(wal) /\ DOMAIN wal' = 1..Len(wal') /\ Len(wal) \in Nat
          BY <2>1 DEF TypeInv, SourceTypes, CaptureTypeOK
        <5>5. QED
          BY <5>3, <5>4
      <4>2. CASE wal' = wal
        BY <4>2
      <4>3. wal' = wal \/ (Source /\ Workload)
        BY DEF Next, Source, CaptureNext, SnapshotRow, Capture, FlushOffsets, ConnectorRestart,
               Job, Retention, vars, captureVars
      <4>4. QED
        BY <4>1, <4>2, <4>3
    <3>3. QED
      BY <3>1, <3>2
  <2>3. ASSUME NEW t \in silver'
        PROVE  \E e \in Committed : /\ e.after = [pk |-> t.pk, version |-> t.version]
                                    /\ e.lsn = t.source_lsn
                                    /\ e.ts_ms = t.source_ts_ms
    <3>1. CASE t \in silver
      BY <3>1 DEF RowsAreCommittedWrites
    <3>2. CASE MergeBatch /\ t \notin silver
      <4>1. PICK winners \in Deduplications(FlatBatch) : silver' = Merge(silver, winners, Now)
        BY <3>2 DEF MergeBatch
      <4>2. PICK k \in Keys : \E i \in Slots(k) :
               /\ IsEvent(k, i)
               /\ Event(k, i).after = [pk |-> t.pk, version |-> t.version]
               /\ Event(k, i).lsn = t.source_lsn
               /\ Event(k, i).ts_ms = t.source_ts_ms
        BY <3>2, <4>1, MergeWritesImages
      <4>3. PICK i \in Slots(k) :
               /\ IsEvent(k, i)
               /\ Event(k, i).after = [pk |-> t.pk, version |-> t.version]
               /\ Event(k, i).lsn = t.source_lsn
               /\ Event(k, i).ts_ms = t.source_ts_ms
        BY <4>2
      <4>4. /\ PartitionOf[k] \in Partitions /\ i \in 1..Len(topic[PartitionOf[k]])
            /\ topic[PartitionOf[k]][i].key = k
            /\ topic[PartitionOf[k]][i].value = Event(k, i)
            /\ topic[PartitionOf[k]][i].value # NULL
        BY <4>3, TopicAssumption DEF IsEvent, Slots, Event
      <4>5. Event(k, i) \in Committed
        <5>1. \/ Event(k, i) = SnapshotEvent(k)
              \/ \E n \in 1..Len(wal) : Event(k, i) = wal[n]
          BY <4>4 DEF TypeInv, SourceTypes, TopicInv
        <5>2. DOMAIN wal = 1..Len(wal)
          BY DEF TypeInv, SourceTypes, CaptureTypeOK
        <5>3. QED
          BY <5>1, <5>2
      <4>6. QED
        BY <4>3, <4>5
    <3>3. MergeBatch \/ silver' = silver
      BY DEF Next, Source, Job, JobNext, Engine, EnsureTable, Retention, vars, silverVars
    <3>4. QED
      BY <3>1, <3>2, <3>3
  <2>4. RowsAreCommittedWrites'
    BY <2>2, <2>3 DEF RowsAreCommittedWrites
  <2>5. QED
    BY <2>1, <2>4
<1>3. QED
  BY <1>1, <1>2, PTL DEF Spec
=============================================================================
