---------------------------- MODULE PipelineProofs ----------------------------
(* What both pipelines, to Bronze and to Silver, rest on: lemmas about the   *)
(* workload, the connector and the topic (CdcCapture), the checkpoint        *)
(* (StreamingEngine) and the dataframes (SilverTransform), for every table,  *)
(* partitioning, clock, batch size and bound on failures.                    *)
EXTENDS CdcCapture, StreamingEngine, SilverTransform, TLAPS

(* Appending records leaves the earlier offsets of every partition alone and *)
(* puts the new ones after them.                                             *)
LEMMA ProduceExtends ==
    ASSUME TopicTypeOK, NEW k \in Keys, NEW s \in Seq(Record), Produce(k, s)
    PROVE  /\ TopicTypeOK'
           /\ \A p \in Partitions :
                 Len(topic'[p]) = IF p = PartitionOf[k] THEN Len(topic[p]) + Len(s)
                                  ELSE Len(topic[p])
           /\ \A p \in Partitions : \A i \in 1..Len(topic[p]) : topic'[p][i] = topic[p][i]
           /\ \A i \in 1..Len(s) :
                 topic'[PartitionOf[k]][Len(topic[PartitionOf[k]]) + i] = s[i]
<1> DEFINE q == PartitionOf[k]
<1>1. q \in Partitions
  BY TopicAssumption
<1>2. topic[q] \in Seq(Record)
  BY <1>1 DEF TopicTypeOK
<1>3. /\ topic' = [topic EXCEPT ![q] = topic[q] \o s]
      /\ logStart' = logStart
  BY DEF Produce
<1>4. /\ topic[q] \o s \in Seq(Record)
      /\ Len(topic[q] \o s) = Len(topic[q]) + Len(s)
      /\ \A i \in 1..Len(topic[q]) : (topic[q] \o s)[i] = topic[q][i]
      /\ \A i \in 1..Len(s) : (topic[q] \o s)[Len(topic[q]) + i] = s[i]
  BY <1>2
<1> HIDE DEF q
<1>5. topic'[q] = topic[q] \o s /\ \A p \in Partitions : p # q => topic'[p] = topic[p]
  BY <1>1, <1>3 DEF TopicTypeOK
<1>6. TopicTypeOK'
  BY <1>1, <1>3, <1>4 DEF TopicTypeOK
<1>7. QED
  BY <1>1, <1>4, <1>5, <1>6 DEF q

-----------------------------------------------------------------------------
(* Types: they are inductive once the WAL and the topic are known to hold   *)
(* only well-formed changes, each under its own key.                         *)
SourceTypes == TopicTypeOK /\ CaptureTypeOK /\ WalNumbered /\ TopicInv

(* An insert is of a row that is not there, any other write of one that is.  *)
WriteFits(k, op) == (rows[k] = NULL <=> op = OP_CREATE) /\ op # OP_READ

(* A well-formed change names one key of the table.                          *)
LEMMA EventKeyType ==
    ASSUME NEW e \in Envelope, WellFormed(e)
    PROVE  EventKey(e) \in Keys
BY TopicAssumption DEF EventKey, WellFormed, Envelope, Image, OP_DELETE, OP_CREATE, OP_READ

(* The event of the initial snapshot is a well-formed change of its key.     *)
LEMMA SnapshotEventType ==
    ASSUME NEW k \in Keys
    PROVE  /\ SnapshotEvent(k) \in Envelope
           /\ WellFormed(SnapshotEvent(k))
           /\ EventKey(SnapshotEvent(k)) = k
<1>1. CommitClock[0] \in Int
  BY CaptureAssumption
<1>2. [pk |-> k, version |-> 0] \in Image
  BY DEF Image
<1>3. [pk |-> k, version |-> 0] # NULL
  BY <1>2, TopicAssumption
<1>4. SnapshotEvent(k) \in Envelope
  BY <1>1, <1>2 DEF SnapshotEvent, Envelope, Ops, OP_READ
<1>5. QED
  BY <1>3, <1>4 DEF SnapshotEvent, WellFormed, EventKey, OP_READ, OP_DELETE

(* Every value in the topic is a well-formed change of the record's key.     *)
LEMMA RecordWellFormed ==
    ASSUME SourceTypes, NEW p \in Partitions, NEW i \in 1..Len(topic[p]),
           topic[p][i].value # NULL
    PROVE  /\ topic[p][i] \in Record
           /\ topic[p][i].key \in Keys
           /\ topic[p][i].value \in Envelope
           /\ WellFormed(topic[p][i].value)
           /\ EventKey(topic[p][i].value) = topic[p][i].key
<1> DEFINE r == topic[p][i]
<1>1. r \in Record
  BY DEF SourceTypes, TopicTypeOK
<1>2. r.key \in Keys /\ r.value \in Envelope
  BY <1>1 DEF Record
<1>3. \/ r.value = SnapshotEvent(r.key)
      \/ \E n \in 1..Len(wal) : r.value = wal[n] /\ EventKey(wal[n]) = r.key
  BY DEF SourceTypes, TopicInv
<1>4. WellFormed(r.value) /\ EventKey(r.value) = r.key
  BY <1>2, <1>3, SnapshotEventType DEF SourceTypes, WalNumbered
<1>5. QED
  BY <1>1, <1>2, <1>4

(* Two events of a key with the same LSN are the same change.                *)
LEMMA SameLsnSameEvent ==
    ASSUME SourceTypes, NEW k \in Keys, NEW i, NEW j, IsEvent(k, i), IsEvent(k, j),
           Event(k, i).lsn = Event(k, j).lsn
    PROVE  Event(k, i) = Event(k, j)
<1>1. \A m : IsEvent(k, m) =>
         \/ Event(k, m) = SnapshotEvent(k)
         \/ \E n \in 1..Len(wal) : Event(k, m) = wal[n] /\ wal[n].lsn = n
  <2> SUFFICES ASSUME NEW m, IsEvent(k, m)
               PROVE  \/ Event(k, m) = SnapshotEvent(k)
                      \/ \E n \in 1..Len(wal) : Event(k, m) = wal[n] /\ wal[n].lsn = n
    OBVIOUS
  <2>1. /\ PartitionOf[k] \in Partitions /\ m \in 1..Len(topic[PartitionOf[k]])
        /\ topic[PartitionOf[k]][m].key = k
        /\ topic[PartitionOf[k]][m].value = Event(k, m)
        /\ topic[PartitionOf[k]][m].value # NULL
    BY TopicAssumption DEF IsEvent, Slots, Event
  <2>2. \/ Event(k, m) = SnapshotEvent(k)
        \/ \E n \in 1..Len(wal) : Event(k, m) = wal[n]
    BY <2>1 DEF SourceTypes, TopicInv
  <2>3. QED
    BY <2>2 DEF SourceTypes, WalNumbered
<1>2. SnapshotEvent(k).lsn = 0
  BY DEF SnapshotEvent
<1>3. Len(wal) \in Nat
  BY DEF SourceTypes, CaptureTypeOK
<1>4. QED
  BY <1>1, <1>2, <1>3

(* One more change at the end of the WAL.                                    *)
LEMMA WriteType ==
    ASSUME SourceTypes, NEW k \in Keys, NEW op \in Ops, NEW version \in Nat \cup {NULL},
           Write(k, op, version),
           (version = NULL) <=> (op = OP_DELETE), WriteFits(k, op)
    PROVE  /\ SourceTypes'
           /\ Len(wal') = Len(wal) + 1
           /\ \A n \in 1..Len(wal) : wal'[n] = wal[n]
           /\ EventKey(wal'[Len(wal) + 1]) = k
           /\ VersionAfter(wal'[Len(wal) + 1]) = version
<1> DEFINE lsn == Len(wal) + 1
           after == IF version = NULL THEN NULL ELSE [pk |-> k, version |-> version]
           e == [before |-> RowImage(k), after |-> after, op |-> op,
                 lsn |-> lsn, ts_ms |-> CommitClock[lsn]]
<1>0. /\ wal \in Seq(Envelope)
      /\ Len(wal) < MaxLsn
      /\ wal' = Append(wal, e)
      /\ rows' = [rows EXCEPT ![k] = version]
      /\ UNCHANGED <<topicVars, snapTodo, pos, flushed, rewinds>>
  BY DEF Write, SourceTypes, CaptureTypeOK
<1>1. lsn \in 0..MaxLsn /\ lsn \in Nat
  BY <1>0, CaptureAssumption
<1>2. CommitClock[lsn] \in Int
  BY <1>1, CaptureAssumption
<1>3. RowImage(k) \in Image \cup {NULL} /\ (rows[k] # NULL => RowImage(k) # NULL)
  BY TopicAssumption DEF RowImage, Image, SourceTypes, CaptureTypeOK
<1>4. after \in Image \cup {NULL} /\ (version # NULL => after # NULL)
  BY TopicAssumption DEF Image
<1>5. e \in Envelope
  BY <1>1, <1>2, <1>3, <1>4 DEF Envelope
<1>6. WellFormed(e) /\ e.lsn = lsn
  BY <1>3, <1>4 DEF WellFormed, WriteFits, RowImage
<1>7. EventKey(e) = k /\ VersionAfter(e) = version
  <2>1. version = NULL => rows[k] # NULL
    BY DEF WriteFits, OP_CREATE, OP_DELETE
  <2>2. QED
    BY <1>3, <1>4, <2>1 DEF EventKey, VersionAfter, RowImage
<1> HIDE DEF e
<1>8. /\ wal' \in Seq(Envelope)
      /\ Len(wal') = Len(wal) + 1
      /\ \A n \in 1..Len(wal) : wal'[n] = wal[n]
      /\ wal'[lsn] = e
  BY <1>0, <1>5
<1>9. TopicTypeOK' /\ CaptureTypeOK'
  BY <1>0, <1>8 DEF TopicTypeOK, CaptureTypeOK, SourceTypes, topicVars
<1>10. WalNumbered'
  BY <1>0, <1>6, <1>8 DEF WalNumbered, SourceTypes, WellFormed
<1>11. TopicInv'
  <2> SUFFICES ASSUME NEW p \in Partitions, NEW i \in 1..Len(topic[p])
               PROVE  LET r == topic[p][i]
                      IN  /\ PartitionOf[r.key] = p
                          /\ r.value # NULL =>
                                \/ r.value = SnapshotEvent(r.key)
                                \/ \E n \in 1..Len(wal') : r.value = wal'[n] /\ EventKey(wal'[n]) = r.key
    BY <1>0 DEF TopicInv, topicVars, SnapshotEvent
  <2>1. \A n \in 1..Len(wal) : n \in 1..Len(wal') /\ wal'[n] = wal[n]
    BY <1>0, <1>8
  <2>2. QED
    BY <2>1 DEF TopicInv, SourceTypes
<1>12. QED
  BY <1>7, <1>8, <1>9, <1>10, <1>11 DEF SourceTypes

(* New records of well-formed changes keep the topic in order.               *)
LEMMA ProduceType ==
    ASSUME SourceTypes, NEW k \in Keys, NEW s \in Seq(Record), Produce(k, s), wal' = wal,
           \A i \in 1..Len(s) :
              /\ s[i].key = k
              /\ s[i].value # NULL =>
                    \/ s[i].value = SnapshotEvent(k)
                    \/ \E n \in 1..Len(wal) : s[i].value = wal[n] /\ EventKey(wal[n]) = k
    PROVE  TopicTypeOK' /\ TopicInv' /\ WalNumbered'
<1>1. /\ TopicTypeOK'
      /\ \A p \in Partitions :
            Len(topic'[p]) = IF p = PartitionOf[k] THEN Len(topic[p]) + Len(s)
                             ELSE Len(topic[p])
      /\ \A p \in Partitions : \A i \in 1..Len(topic[p]) : topic'[p][i] = topic[p][i]
      /\ \A i \in 1..Len(s) :
            topic'[PartitionOf[k]][Len(topic[PartitionOf[k]]) + i] = s[i]
  BY ProduceExtends DEF SourceTypes
<1>2. TopicInv'
  <2> SUFFICES ASSUME NEW p \in Partitions, NEW i \in 1..Len(topic'[p])
               PROVE  LET r == topic'[p][i]
                      IN  /\ PartitionOf[r.key] = p
                          /\ r.value # NULL =>
                                \/ r.value = SnapshotEvent(r.key)
                                \/ \E n \in 1..Len(wal) : r.value = wal[n] /\ EventKey(wal[n]) = r.key
    BY DEF TopicInv, SnapshotEvent
  <2>0. Len(topic[p]) \in Nat /\ Len(s) \in Nat
    BY DEF SourceTypes, TopicTypeOK
  <2>1. CASE i \in 1..Len(topic[p])
    <3>1. topic'[p][i] = topic[p][i]
      BY <1>1, <2>1
    <3>2. QED
      BY <2>1, <3>1 DEF SourceTypes, TopicInv
  <2>2. CASE i \notin 1..Len(topic[p])
    <3> DEFINE j == i - Len(topic[p])
    <3>1. p = PartitionOf[k] /\ j \in 1..Len(s) /\ i = Len(topic[p]) + j
      BY <1>1, <2>0, <2>2
    <3>2. topic'[p][i] = s[j]
      BY <1>1, <3>1
    <3>3. QED
      BY <3>1, <3>2
  <2>3. QED
    BY <2>1, <2>2
<1>3. WalNumbered'
  BY DEF SourceTypes, WalNumbered, WellFormed
<1>4. QED
  BY <1>1, <1>2, <1>3

(* What the three writes of the workload have in common.                     *)
LEMMA WorkloadWrites ==
    ASSUME SourceTypes, NEW k \in Keys, InsertRow(k) \/ UpdateRow(k) \/ DeleteRow(k)
    PROVE  \E op \in Ops, version \in Nat \cup {NULL} :
              /\ Write(k, op, version)
              /\ (version = NULL) <=> (op = OP_DELETE)
              /\ WriteFits(k, op)
              /\ version # NULL => version = Len(wal) + 1
<1>0. Len(wal) + 1 \in Nat /\ Len(wal) + 1 # NULL
  BY TopicAssumption DEF SourceTypes, CaptureTypeOK
<1>1. CASE InsertRow(k)
  <2>1. OP_CREATE \in Ops /\ OP_CREATE # OP_DELETE
    BY DEF Ops, OP_CREATE, OP_DELETE
  <2>2. QED
    BY <1>0, <1>1, <2>1 DEF InsertRow, WriteFits, OP_CREATE, OP_UPDATE, OP_READ
<1>2. CASE UpdateRow(k)
  <2>1. OP_UPDATE \in Ops /\ OP_UPDATE # OP_DELETE
    BY DEF Ops, OP_UPDATE, OP_DELETE
  <2>2. QED
    BY <1>0, <1>2, <2>1 DEF UpdateRow, WriteFits, OP_CREATE, OP_UPDATE, OP_READ
<1>3. CASE DeleteRow(k)
  <2>1. OP_DELETE \in Ops
    BY DEF Ops
  <2>2. QED
    BY <1>3, <2>1 DEF DeleteRow, WriteFits, OP_CREATE, OP_DELETE, OP_READ
<1>4. QED
  BY <1>1, <1>2, <1>3

(* The records Capture produces for the next change of the WAL.              *)
LEMMA CaptureProduces ==
    ASSUME SourceTypes, Capture
    PROVE  LET e == wal[pos + 1]
               k == EventKey(e)
           IN  /\ pos + 1 \in 1..Len(wal)
               /\ e \in Envelope
               /\ k \in Keys
               /\ \E s \in Seq(Record) :
                     /\ Produce(k, s)
                     /\ Len(s) >= 1
                     /\ s[1] = [key |-> k, value |-> e]
                     /\ \A i \in 1..Len(s) :
                           s[i].key = k /\ (s[i].value # NULL => i = 1 /\ s[i].value = e)
<1> DEFINE e == wal[pos + 1]
           k == EventKey(e)
           c == [key |-> k, value |-> e]
           t == [key |-> k, value |-> NULL]
           s == IF e.op = OP_DELETE THEN <<c>> \o <<t>> ELSE <<c>>
<1>1. pos + 1 \in 1..Len(wal)
  BY DEF Capture, SourceTypes, CaptureTypeOK
<1>2. e \in Envelope
  BY <1>1 DEF SourceTypes, CaptureTypeOK
<1>3. WellFormed(e)
  BY <1>1 DEF SourceTypes, WalNumbered
<1>4. k \in Keys
  BY <1>2, <1>3, EventKeyType
<1>5. Produce(k, s)
  BY DEF Capture
<1>6. c \in Record /\ t \in Record
  BY <1>2, <1>4 DEF Record
<1> HIDE DEF e, k
<1>7. s \in Seq(Record)
  BY <1>6
<1>8. /\ Len(s) >= 1
      /\ s[1] = c
      /\ \A i \in 1..Len(s) : (s[i] = c /\ i = 1) \/ s[i] = t
  BY <1>6
<1>9. \A i \in 1..Len(s) : s[i].key = k /\ (s[i].value # NULL => i = 1 /\ s[i].value = e)
  BY <1>8
<1> HIDE DEF s
<1>10. QED
  BY <1>1, <1>2, <1>4, <1>5, <1>7, <1>8, <1>9 DEF e, k

(* Every step of the workload and of the connector keeps the types.          *)
LEMMA SourceTypesStep ==
    ASSUME SourceTypes, CaptureNext
    PROVE  SourceTypes'
<1>1. CASE Workload
  <2>1. PICK k \in Keys : InsertRow(k) \/ UpdateRow(k) \/ DeleteRow(k)
    BY <1>1 DEF Workload
  <2>2. PICK op \in Ops, version \in Nat \cup {NULL} :
           /\ Write(k, op, version)
           /\ (version = NULL) <=> (op = OP_DELETE)
           /\ WriteFits(k, op)
    BY <2>1, WorkloadWrites
  <2>3. QED
    BY <2>2, WriteType
<1>2. CASE \E k \in Keys : SnapshotRow(k)
  <2>1. PICK k \in Keys : SnapshotRow(k)
    BY <1>2
  <2> DEFINE r == [key |-> k, value |-> SnapshotEvent(k)]
             s == <<r>>
  <2>2. r \in Record
    BY SnapshotEventType DEF Record
  <2>3. s \in Seq(Record) /\ Len(s) = 1 /\ s[1] = r
    BY <2>2
  <2>4. Produce(k, s) /\ UNCHANGED <<rows, wal, pos, flushed, rewinds>> /\ snapTodo' = snapTodo \ {k}
    BY <2>1 DEF SnapshotRow
  <2> HIDE DEF s
  <2>5. TopicTypeOK' /\ TopicInv' /\ WalNumbered'
    BY <2>3, <2>4, ProduceType
  <2>6. CaptureTypeOK'
    BY <2>4 DEF SourceTypes, CaptureTypeOK
  <2>7. QED
    BY <2>5, <2>6 DEF SourceTypes
<1>3. CASE Capture
  <2> DEFINE e == wal[pos + 1]
             k == EventKey(e)
  <2>1. /\ pos + 1 \in 1..Len(wal)
        /\ k \in Keys
        /\ \E s \in Seq(Record) :
              /\ Produce(k, s)
              /\ \A i \in 1..Len(s) : s[i].key = k /\ (s[i].value # NULL => s[i].value = e)
    BY <1>3, CaptureProduces
  <2>2. UNCHANGED <<rows, wal, snapTodo, flushed, rewinds>> /\ pos' = pos + 1
    BY <1>3 DEF Capture
  <2>3. TopicTypeOK' /\ TopicInv' /\ WalNumbered'
    BY <2>1, <2>2, ProduceType
  <2>4. CaptureTypeOK'
    BY <2>1, <2>2 DEF SourceTypes, CaptureTypeOK
  <2>5. QED
    BY <2>3, <2>4 DEF SourceTypes
<1>4. CASE FlushOffsets \/ ConnectorRestart
  <2>1. UNCHANGED <<topicVars, rows, wal, snapTodo>> /\ CaptureTypeOK'
    BY <1>4 DEF FlushOffsets, ConnectorRestart, SourceTypes, CaptureTypeOK
  <2>2. TopicTypeOK' /\ TopicInv'
    BY <2>1 DEF SourceTypes, TopicTypeOK, TopicInv, SnapshotEvent, EventKey, topicVars
  <2>3. WalNumbered'
    BY <2>1 DEF SourceTypes, WalNumbered, WellFormed
  <2>4. QED
    BY <2>1, <2>2, <2>3 DEF SourceTypes
<1>5. QED
  BY <1>1, <1>2, <1>3, <1>4 DEF CaptureNext

(* The source part of the types, when only the start of the log may move.    *)
LEMMA SourceTypesFrame ==
    ASSUME SourceTypes, TopicTypeOK', topic' = topic, UNCHANGED captureVars
    PROVE  SourceTypes'
BY DEF SourceTypes, CaptureTypeOK, TopicInv, WalNumbered, WellFormed,
       SnapshotEvent, EventKey, captureVars

-----------------------------------------------------------------------------
(* To a consumer that reads by offset, the source only adds records.         *)
TopicGrows ==
    /\ logStart' = logStart
    /\ \A p \in Partitions :
          /\ Len(topic'[p]) \in Nat
          /\ Len(topic'[p]) >= Len(topic[p])
          /\ \A i \in 1..Len(topic[p]) : topic'[p][i] = topic[p][i]

(* Whatever the workload and the connector do, no record is changed.         *)
LEMMA SourceGrows ==
    ASSUME SourceTypes, CaptureNext
    PROVE  TopicGrows
<1>1. ASSUME NEW k \in Keys, NEW s \in Seq(Record), Produce(k, s)
      PROVE  TopicGrows
  <2>1. /\ \A p \in Partitions :
              Len(topic'[p]) = IF p = PartitionOf[k] THEN Len(topic[p]) + Len(s)
                               ELSE Len(topic[p])
        /\ \A p \in Partitions : \A i \in 1..Len(topic[p]) : topic'[p][i] = topic[p][i]
    BY <1>1, ProduceExtends DEF SourceTypes
  <2>2. Len(s) \in Nat /\ \A p \in Partitions : Len(topic[p]) \in Nat
    BY DEF SourceTypes, TopicTypeOK
  <2>3. logStart' = logStart
    BY <1>1 DEF Produce
  <2>4. QED
    BY <2>1, <2>2, <2>3 DEF TopicGrows
<1>2. CASE UNCHANGED topicVars
  BY <1>2 DEF topicVars, TopicGrows, SourceTypes, TopicTypeOK
<1>3. CASE Workload \/ FlushOffsets \/ ConnectorRestart
  BY <1>2, <1>3 DEF Workload, InsertRow, UpdateRow, DeleteRow, Write, FlushOffsets, ConnectorRestart
<1>4. CASE \E k \in Keys : SnapshotRow(k)
  <2>1. PICK k \in Keys : SnapshotRow(k)
    BY <1>4
  <2> DEFINE r == [key |-> k, value |-> SnapshotEvent(k)]
  <2>2. r \in Record
    BY SnapshotEventType DEF Record
  <2>3. <<r>> \in Seq(Record)
    BY <2>2
  <2>4. QED
    BY <1>1, <2>1, <2>3 DEF SnapshotRow
<1>5. CASE Capture
  BY <1>1, <1>5, CaptureProduces
<1>6. QED
  BY <1>3, <1>4, <1>5 DEF CaptureNext

-----------------------------------------------------------------------------
(* How the events of the topic change when records are appended.             *)
NextSlot(k) == Len(topic[PartitionOf[k]]) + 1

Appends(k, v) ==
    /\ logStart' = logStart
    /\ \A p \in Partitions : Len(topic'[p]) \in Nat /\ Len(topic'[p]) >= Len(topic[p])
    /\ \A j \in Keys : \A i : IsEvent(j, i)' <=> IsEvent(j, i) \/ (j = k /\ i = NextSlot(k))
    /\ \A j \in Keys : \A i : IsEvent(j, i) => Event(j, i)' = Event(j, i)
    /\ \A i : i = NextSlot(k) => Event(k, i)' = v

(* An event is a slot of its partition, so IsLast and IsNewest range over    *)
(* all the events of the key.                                                *)
LEMMA LastAndNewest ==
    ASSUME NEW k, NEW i
    PROVE  /\ IsLast(k, i) <=> IsEvent(k, i) /\ \A j : IsEvent(k, j) => j <= i
           /\ IsNewest(k, i) <=> \A j : IsEvent(k, j) => Event(k, j).lsn <= Event(k, i).lsn
           /\ IsLast(k, i)' <=> IsEvent(k, i)' /\ \A j : IsEvent(k, j)' => j <= i
           /\ IsNewest(k, i)' <=> \A j : IsEvent(k, j)' => Event(k, j)'.lsn <= Event(k, i)'.lsn
<1>1. \A j : (IsEvent(k, j) => j \in Slots(k)) /\ (IsEvent(k, j)' => j \in Slots(k)')
  BY DEF IsEvent
<1>2. QED
  BY <1>1 DEF IsLast, IsNewest

(* Producing one change, with or without its tombstone, appends one event.   *)
LEMMA ProduceAppends ==
    ASSUME SourceTypes, NEW k \in Keys, NEW s \in Seq(Record), Produce(k, s),
           Len(s) >= 1, s[1].value # NULL,
           \A i \in 1..Len(s) : s[i].key = k /\ (s[i].value # NULL => i = 1)
    PROVE  Appends(k, s[1].value)
<1> DEFINE q == PartitionOf[k]
<1>0. q \in Partitions /\ logStart' = logStart
  BY TopicAssumption DEF Produce
<1>1. /\ \A p \in Partitions :
            Len(topic'[p]) = IF p = q THEN Len(topic[p]) + Len(s) ELSE Len(topic[p])
      /\ \A p \in Partitions : \A i \in 1..Len(topic[p]) : topic'[p][i] = topic[p][i]
      /\ \A i \in 1..Len(s) : topic'[q][Len(topic[q]) + i] = s[i]
  BY ProduceExtends DEF SourceTypes
<1>2. \A p \in Partitions : Len(topic[p]) \in Nat
  BY DEF SourceTypes, TopicTypeOK
<1>3. Len(s) \in Nat
  OBVIOUS
<1>4. \A p \in Partitions : Len(topic'[p]) \in Nat /\ Len(topic'[p]) >= Len(topic[p])
  BY <1>1, <1>2, <1>3
<1>5. \A j \in Keys : \A i : IsEvent(j, i) => IsEvent(j, i)' /\ Event(j, i)' = Event(j, i)
  <2> SUFFICES ASSUME NEW j \in Keys, NEW i, IsEvent(j, i)
               PROVE  IsEvent(j, i)' /\ Event(j, i)' = Event(j, i)
    OBVIOUS
  <2>1. PartitionOf[j] \in Partitions /\ i \in 1..Len(topic[PartitionOf[j]])
    BY TopicAssumption DEF IsEvent, Slots
  <2>2. topic'[PartitionOf[j]][i] = topic[PartitionOf[j]][i]
    BY <1>1, <2>1
  <2>3. i \in 1..Len(topic'[PartitionOf[j]])
    BY <1>2, <1>4, <2>1
  <2>4. QED
    BY <2>2, <2>3 DEF IsEvent, Event, Slots
<1>6. \A i : i = NextSlot(k) => IsEvent(k, i)' /\ Event(k, i)' = s[1].value
  <2> SUFFICES ASSUME NEW i, i = NextSlot(k)
               PROVE  IsEvent(k, i)' /\ Event(k, i)' = s[1].value
    OBVIOUS
  <2>1. topic'[q][i] = s[1] /\ s[1].key = k
    <3>1. 1 \in 1..Len(s)
      BY <1>3
    <3>2. topic'[q][Len(topic[q]) + 1] = s[1]
      BY <1>1, <3>1
    <3>3. QED
      BY <3>1, <3>2 DEF NextSlot
  <2>2. i \in 1..Len(topic'[q])
    BY <1>0, <1>1, <1>2, <1>3 DEF NextSlot
  <2>3. QED
    BY <2>1, <2>2 DEF IsEvent, Event, Slots
<1>7. \A j \in Keys : \A i : IsEvent(j, i)' => IsEvent(j, i) \/ (j = k /\ i = NextSlot(k))
  <2> SUFFICES ASSUME NEW j \in Keys, NEW i, IsEvent(j, i)', ~IsEvent(j, i)
               PROVE  j = k /\ i = NextSlot(k)
    OBVIOUS
  <2> DEFINE p == PartitionOf[j]
  <2>1. p \in Partitions /\ i \in 1..Len(topic'[p]) /\ topic'[p][i].key = j /\ topic'[p][i].value # NULL
    BY TopicAssumption DEF IsEvent, Slots, Event
  <2>2. i \notin 1..Len(topic[p])
    <3> SUFFICES ASSUME i \in 1..Len(topic[p])
                 PROVE  FALSE
      OBVIOUS
    <3>1. topic'[p][i] = topic[p][i]
      BY <1>1, <2>1
    <3>2. QED
      BY <2>1, <3>1 DEF IsEvent, Slots, Event
  <2>3. p = q /\ i - Len(topic[p]) \in 1..Len(s)
    BY <1>1, <1>2, <1>3, <2>1, <2>2
  <2>4. topic'[p][i] = s[i - Len(topic[p])]
    <3> DEFINE m == i - Len(topic[q])
    <3>1. m \in 1..Len(s) /\ i = Len(topic[q]) + m
      BY <1>0, <1>2, <2>1, <2>3
    <3>2. topic'[q][Len(topic[q]) + m] = s[m]
      BY <1>1, <3>1
    <3>3. QED
      BY <2>3, <3>1, <3>2
  <2>5. i - Len(topic[p]) = 1 /\ j = k
    BY <2>1, <2>3, <2>4
  <2>6. QED
    BY <1>0, <1>2, <2>1, <2>3, <2>5 DEF NextSlot
<1>8. QED
  BY <1>0, <1>4, <1>5, <1>6, <1>7 DEF Appends

(* The appended event becomes the last one of its key; the last events of    *)
(* the other keys stay.                                                      *)
LEMMA AppendsLast ==
    ASSUME SourceTypes, NEW k \in Keys, NEW v, Appends(k, v)
    PROVE  /\ \A i : i = NextSlot(k) => IsLast(k, i)' /\ Event(k, i)' = v
           /\ \A j \in Keys \ {k} : \A i : IsLast(j, i) => IsLast(j, i)' /\ Event(j, i)' = Event(j, i)
           /\ \A j \in Keys \ {k} : \A i : IsEvent(j, i)' => IsEvent(j, i)
<1>1. \A i : IsEvent(k, i) => i <= NextSlot(k)
  <2>1. Len(topic[PartitionOf[k]]) \in Nat
    BY TopicAssumption DEF SourceTypes, TopicTypeOK
  <2>2. QED
    BY <2>1 DEF IsEvent, Slots, NextSlot
<1>2. NextSlot(k) <= NextSlot(k)
  BY TopicAssumption DEF SourceTypes, TopicTypeOK, NextSlot
<1>3. \A i : i = NextSlot(k) => IsLast(k, i)' /\ Event(k, i)' = v
  BY <1>1, <1>2, LastAndNewest DEF Appends
<1>4. \A j \in Keys \ {k} : \A i : IsEvent(j, i)' <=> IsEvent(j, i)
  BY DEF Appends
<1>5. \A j \in Keys \ {k} : \A i : IsLast(j, i) => IsLast(j, i)' /\ Event(j, i)' = Event(j, i)
  BY <1>4, LastAndNewest DEF Appends
<1>6. QED
  BY <1>3, <1>4, <1>5

(* What a snapshot read appends.                                             *)
LEMMA SnapshotAppends ==
    ASSUME SourceTypes, NEW k \in Keys, SnapshotRow(k)
    PROVE  Appends(k, SnapshotEvent(k))
<1> DEFINE r == [key |-> k, value |-> SnapshotEvent(k)]
           s == <<r>>
<1>1. r \in Record /\ r.value # NULL
  BY SnapshotEventType, TopicAssumption DEF Record
<1>2. s \in Seq(Record) /\ Len(s) = 1 /\ s[1] = r
  BY <1>1
<1>3. Produce(k, s)
  BY DEF SnapshotRow
<1> HIDE DEF s
<1>4. Appends(k, s[1].value)
  BY <1>1, <1>2, <1>3, ProduceAppends
<1>5. QED
  BY <1>2, <1>4

(* What the connector appends for the next change of the WAL.                *)
LEMMA CaptureAppends ==
    ASSUME SourceTypes, Capture
    PROVE  /\ pos + 1 \in 1..Len(wal)
           /\ EventKey(wal[pos + 1]) \in Keys
           /\ Appends(EventKey(wal[pos + 1]), wal[pos + 1])
<1> DEFINE e == wal[pos + 1]
           k == EventKey(e)
<1>1. pos + 1 \in 1..Len(wal) /\ k \in Keys /\ e # NULL
  BY CaptureProduces, TopicAssumption
<1>2. PICK s \in Seq(Record) :
         /\ Produce(k, s)
         /\ Len(s) >= 1
         /\ s[1] = [key |-> k, value |-> e]
         /\ \A i \in 1..Len(s) :
               s[i].key = k /\ (s[i].value # NULL => i = 1 /\ s[i].value = e)
  BY CaptureProduces
<1> HIDE DEF e, k
<1>3. s[1].value = e
  BY <1>2
<1>4. Appends(k, s[1].value)
  BY <1>1, <1>2, <1>3, ProduceAppends
<1>5. QED
  BY <1>1, <1>3, <1>4 DEF e, k

(* To a consumer, a step of the source is no step, or one more event.        *)
LEMMA SourceAppends ==
    ASSUME SourceTypes, CaptureNext
    PROVE  UNCHANGED topicVars \/ \E k \in Keys : \E v : Appends(k, v)
<1>1. CASE Workload \/ FlushOffsets \/ ConnectorRestart
  BY <1>1 DEF Workload, InsertRow, UpdateRow, DeleteRow, Write, FlushOffsets, ConnectorRestart
<1>2. CASE \E k \in Keys : SnapshotRow(k)
  BY <1>2, SnapshotAppends
<1>3. CASE Capture
  BY <1>3, CaptureAppends
<1>4. QED
  BY <1>1, <1>2, <1>3 DEF CaptureNext

-----------------------------------------------------------------------------
(* What the table, the connector and the topic have to do with each other.   *)
SourceInv == TableInv /\ SnapshotFirst /\ PassedAndLast /\ UnwrittenRows

(* A write changes its own row and puts its change behind all the others.    *)
LEMMA WriteInv ==
    ASSUME SourceTypes, SourceInv, NEW k \in Keys, NEW op \in Ops,
           NEW version \in Nat \cup {NULL}, Write(k, op, version),
           (version = NULL) <=> (op = OP_DELETE), WriteFits(k, op)
    PROVE  SourceInv'
<1>1. /\ Len(wal') = Len(wal) + 1
      /\ \A n \in 1..Len(wal) : wal'[n] = wal[n]
      /\ EventKey(wal'[Len(wal) + 1]) = k
      /\ VersionAfter(wal'[Len(wal) + 1]) = version
  BY WriteType
<1>2. /\ rows' = [rows EXCEPT ![k] = version]
      /\ topic' = topic /\ snapTodo' = snapTodo /\ pos' = pos
  BY DEF Write, topicVars
<1>3. rows \in [Keys -> Nat \cup {NULL}] /\ Len(wal) \in Nat /\ pos \in 0..Len(wal)
  BY DEF SourceTypes, CaptureTypeOK
<1>4. TableInv'
  <2> SUFFICES ASSUME NEW j \in Keys, NEW n \in 1..Len(wal'),
                      EventKey(wal'[n]) = j,
                      \A m \in 1..Len(wal') : EventKey(wal'[m]) = j => m <= n
               PROVE  rows'[j] = VersionAfter(wal'[n])
    BY DEF TableInv, EventKey, VersionAfter
  <2>1. CASE n = Len(wal) + 1
    BY <1>1, <1>2, <1>3, <2>1
  <2>2. CASE n \in 1..Len(wal)
    <3>1. j # k
      BY <1>1, <1>3, <2>2
    <3>2. EventKey(wal[n]) = j /\ \A m \in 1..Len(wal) : EventKey(wal[m]) = j => m <= n
      BY <1>1, <1>3, <2>2
    <3>3. rows[j] = VersionAfter(wal[n])
      BY <2>2, <3>2 DEF SourceInv, TableInv
    <3>4. QED
      BY <1>1, <1>2, <1>3, <2>2, <3>1, <3>3
  <2>3. QED
    BY <1>1, <1>3, <2>1, <2>2
<1>5. \A j, i : (IsLast(j, i)' <=> IsLast(j, i)) /\ (IsEvent(j, i)' <=> IsEvent(j, i))
                /\ Event(j, i)' = Event(j, i) /\ Slots(j)' = Slots(j)
  BY <1>2 DEF IsLast, IsEvent, Event, Slots
<1>6. SnapshotFirst'
  BY <1>2 DEF SourceInv, SnapshotFirst
<1>7. PassedAndLast'
  <2> SUFFICES ASSUME NEW j \in Keys, NEW n \in 1..pos, EventKey(wal'[n]) = j
               PROVE  \E i \in Slots(j)' : IsLast(j, i)' /\ Event(j, i)'.lsn >= n
    BY <1>2 DEF PassedAndLast, EventKey
  <2>1. EventKey(wal[n]) = j
    BY <1>1, <1>3
  <2>2. QED
    BY <1>5, <2>1 DEF SourceInv, PassedAndLast
<1>8. UnwrittenRows'
  <2> SUFFICES ASSUME NEW j \in Keys, \A n \in 1..Len(wal') : EventKey(wal'[n]) # j
               PROVE  (IF rows[j] = NULL
                       THEN j \notin snapTodo /\ \A i \in Slots(j) : ~IsEvent(j, i)
                       ELSE rows[j] = 0 /\ (j \in snapTodo \/ \E i \in Slots(j) : IsLast(j, i)))'
    BY DEF UnwrittenRows, EventKey
  <2>1. j # k /\ \A n \in 1..Len(wal) : EventKey(wal[n]) # j
    BY <1>1, <1>3
  <2>2. rows'[j] = rows[j]
    BY <1>2, <1>3, <2>1
  <2>3. QED
    BY <1>2, <1>5, <2>1, <2>2 DEF SourceInv, UnwrittenRows
<1>9. QED
  BY <1>4, <1>6, <1>7, <1>8 DEF SourceInv

(* A snapshot read, or the next change, becomes the last event of its key.   *)
LEMMA SnapshotInv ==
    ASSUME SourceTypes, SourceInv, NEW k \in Keys, SnapshotRow(k)
    PROVE  SourceInv'
<1>1. /\ UNCHANGED <<rows, wal, pos>> /\ snapTodo' = snapTodo \ {k} /\ k \in snapTodo
  BY DEF SnapshotRow
<1>2. \A i : i = NextSlot(k) => IsLast(k, i)'
  BY SnapshotAppends, AppendsLast
<1>3. \A j \in Keys \ {k} : \A i : IsLast(j, i) => IsLast(j, i)'
  BY SnapshotAppends, AppendsLast
<1>4. \A j \in Keys \ {k} : \A i : IsEvent(j, i)' => IsEvent(j, i)
  BY SnapshotAppends, AppendsLast
<1>5. TableInv'
  BY <1>1 DEF SourceInv, TableInv, EventKey, VersionAfter
<1>6. SnapshotFirst' /\ pos = 0
  BY <1>1 DEF SourceInv, SnapshotFirst
<1>7. PassedAndLast'
  BY <1>1, <1>6 DEF PassedAndLast
<1>8. UnwrittenRows'
  <2> SUFFICES ASSUME NEW j \in Keys, \A n \in 1..Len(wal) : EventKey(wal[n]) # j
               PROVE  (IF rows[j] = NULL
                       THEN j \notin snapTodo /\ \A i \in Slots(j) : ~IsEvent(j, i)
                       ELSE rows[j] = 0 /\ (j \in snapTodo \/ \E i \in Slots(j) : IsLast(j, i)))'
    BY <1>1 DEF UnwrittenRows, EventKey
  <2>0. \A i : (IsEvent(j, i) => i \in Slots(j)) /\ (IsLast(j, i)' => i \in Slots(j)')
    BY DEF IsLast, IsEvent
  <2>1. CASE j = k
    <3>1. rows[k] = 0 /\ rows[k] # NULL
      BY <1>1, <2>1, TopicAssumption DEF SourceInv, UnwrittenRows
    <3>2. \E i : IsLast(k, i)'
      BY <1>2
    <3>3. QED
      BY <1>1, <2>0, <2>1, <3>1, <3>2
  <2>2. CASE j # k
    <3>1. CASE rows[j] = NULL
      BY <1>1, <1>4, <2>0, <2>2, <3>1 DEF SourceInv, UnwrittenRows
    <3>2. CASE rows[j] # NULL
      BY <1>1, <1>3, <2>0, <2>2, <3>2 DEF SourceInv, UnwrittenRows
    <3>3. QED
      BY <3>1, <3>2
  <2>3. QED
    BY <2>1, <2>2
<1>9. QED
  BY <1>5, <1>6, <1>7, <1>8 DEF SourceInv

(* So does the next change of the WAL, which is newer than what precedes it. *)
LEMMA CaptureStepInv ==
    ASSUME SourceTypes, SourceInv, Capture
    PROVE  SourceInv'
<1>0. PICK e, k : e = wal[pos + 1] /\ k = EventKey(wal[pos + 1])
  OBVIOUS
<1>1. UNCHANGED <<rows, wal, snapTodo>> /\ pos' = pos + 1 /\ snapTodo = {}
  BY DEF Capture
<1>2. pos + 1 \in 1..Len(wal) /\ k \in Keys /\ Appends(k, e)
  BY <1>0, CaptureAppends
<1>3. e.lsn = pos + 1 /\ pos \in Nat
  BY <1>0, <1>2 DEF SourceTypes, WalNumbered, CaptureTypeOK
<1>4. \A i : i = NextSlot(k) => IsLast(k, i)' /\ Event(k, i)' = e
  BY <1>2, AppendsLast
<1>5. \A j \in Keys \ {k} : \A i : IsLast(j, i) => IsLast(j, i)' /\ Event(j, i)' = Event(j, i)
  BY <1>2, AppendsLast
<1>6. \A j \in Keys \ {k} : \A i : IsEvent(j, i)' => IsEvent(j, i)
  BY <1>2, AppendsLast
<1>7. TableInv'
  BY <1>1 DEF SourceInv, TableInv, EventKey, VersionAfter
<1>8. SnapshotFirst'
  BY <1>1 DEF SnapshotFirst
<1>9. PassedAndLast'
  <2> SUFFICES ASSUME NEW j \in Keys, NEW n \in 1..pos + 1, EventKey(wal[n]) = j
               PROVE  \E i \in Slots(j)' : IsLast(j, i)' /\ Event(j, i)'.lsn >= n
    BY <1>1 DEF PassedAndLast, EventKey
  <2>0. \A i : IsLast(j, i)' => i \in Slots(j)'
    BY DEF IsLast, IsEvent
  <2>1. CASE j = k
    <3>1. PICK i : i = NextSlot(k)
      OBVIOUS
    <3>2. IsLast(j, i)' /\ Event(j, i)' = e
      BY <1>4, <2>1, <3>1
    <3>3. QED
      BY <1>3, <2>0, <3>2
  <2>2. CASE j # k
    <3>1. n \in 1..pos
      BY <1>0, <1>3, <2>2
    <3>2. PICK i \in Slots(j) : IsLast(j, i) /\ Event(j, i).lsn >= n
      BY <3>1 DEF SourceInv, PassedAndLast
    <3>3. QED
      BY <1>5, <2>0, <2>2, <3>2
  <2>3. QED
    BY <2>1, <2>2
<1>10. UnwrittenRows'
  <2> SUFFICES ASSUME NEW j \in Keys, \A n \in 1..Len(wal) : EventKey(wal[n]) # j
               PROVE  (IF rows[j] = NULL
                       THEN j \notin snapTodo /\ \A i \in Slots(j) : ~IsEvent(j, i)
                       ELSE rows[j] = 0 /\ (j \in snapTodo \/ \E i \in Slots(j) : IsLast(j, i)))'
    BY <1>1 DEF UnwrittenRows, EventKey
  <2>0. \A i : (IsEvent(j, i) => i \in Slots(j)) /\ (IsLast(j, i)' => i \in Slots(j)')
    BY DEF IsLast, IsEvent
  <2>1. j # k
    BY <1>0, <1>2
  <2>2. CASE rows[j] = NULL
    BY <1>1, <1>6, <2>0, <2>1, <2>2 DEF SourceInv, UnwrittenRows
  <2>3. CASE rows[j] # NULL
    BY <1>1, <1>5, <2>0, <2>1, <2>3 DEF SourceInv, UnwrittenRows
  <2>4. QED
    BY <2>2, <2>3
<1>11. QED
  BY <1>7, <1>8, <1>9, <1>10 DEF SourceInv

(* Every step of the workload and of the connector keeps the source side.    *)
LEMMA SourceInvStep ==
    ASSUME SourceTypes, SourceInv, CaptureNext
    PROVE  SourceInv'
<1>1. CASE Workload
  <2>1. PICK k \in Keys : InsertRow(k) \/ UpdateRow(k) \/ DeleteRow(k)
    BY <1>1 DEF Workload
  <2>2. PICK op \in Ops, version \in Nat \cup {NULL} :
           /\ Write(k, op, version)
           /\ (version = NULL) <=> (op = OP_DELETE)
           /\ WriteFits(k, op)
    BY <2>1, WorkloadWrites
  <2>3. QED
    BY <2>2, WriteInv
<1>2. CASE \E k \in Keys : SnapshotRow(k)
  BY <1>2, SnapshotInv
<1>3. CASE Capture
  BY <1>3, CaptureStepInv
<1>4. CASE FlushOffsets \/ ConnectorRestart
  <2>1. /\ UNCHANGED <<topicVars, rows, wal, snapTodo>>
        /\ pos' \in Nat /\ pos' <= pos /\ (pos = 0 => pos' = 0)
    BY <1>4 DEF FlushOffsets, ConnectorRestart, SourceTypes, CaptureTypeOK
  <2>2. TableInv' /\ SnapshotFirst'
    BY <2>1 DEF SourceInv, TableInv, SnapshotFirst, EventKey, VersionAfter
  <2>3. UnwrittenRows'
    BY <2>1 DEF SourceInv, UnwrittenRows, EventKey, topicVars, Slots, IsLast, IsEvent, Event
  <2>4. PassedAndLast'
    <3> SUFFICES ASSUME NEW j \in Keys, NEW n \in 1..pos', EventKey(wal[n]) = j
                 PROVE  (\E i \in Slots(j) : IsLast(j, i) /\ Event(j, i).lsn >= n)'
      BY <2>1 DEF PassedAndLast, EventKey
    <3>1. n \in 1..pos
      BY <2>1 DEF SourceTypes, CaptureTypeOK
    <3>2. \E i \in Slots(j) : IsLast(j, i) /\ Event(j, i).lsn >= n
      BY <3>1 DEF SourceInv, PassedAndLast
    <3>3. QED
      BY <2>1, <3>2 DEF topicVars, Slots, IsLast, IsEvent, Event
  <2>5. QED
    BY <2>2, <2>3, <2>4 DEF SourceInv
<1>5. QED
  BY <1>1, <1>2, <1>3, <1>4 DEF CaptureNext

(* A step that does not touch the source side's variables keeps it.          *)
LEMMA SourceInvFrame ==
    ASSUME SourceInv, topic' = topic, UNCHANGED captureVars
    PROVE  SourceInv'
BY DEF SourceInv, TableInv, SnapshotFirst, PassedAndLast, UnwrittenRows, EventKey,
       VersionAfter, IsLast, IsEvent, Event, Slots, captureVars

(* Before the connector starts, the WAL and the topic are empty.             *)
LEMMA InitSource ==
    ASSUME TopicInit, CaptureInit
    PROVE  /\ SourceTypes
           /\ SourceInv
           /\ \A p \in Partitions : Len(topic[p]) = 0 /\ logStart[p] = 0
<1>1. TopicTypeOK /\ TopicInv /\ \A p \in Partitions : Len(topic[p]) = 0 /\ logStart[p] = 0
  BY DEF TopicInit, TopicTypeOK, TopicInv, Offsets
<1>2. CaptureTypeOK /\ WalNumbered
  BY DEF CaptureInit, CaptureTypeOK, WalNumbered
<1>3. /\ rows \in [Keys -> {0, NULL}]
      /\ wal = <<>> /\ Len(wal) = 0
      /\ snapTodo = {k \in Keys : rows[k] # NULL}
      /\ pos = 0
  BY DEF CaptureInit
<1>4. \A k \in Keys : Slots(k) = {}
  BY TopicAssumption DEF TopicInit, Slots
<1>5. TableInv /\ SnapshotFirst /\ PassedAndLast
  BY <1>3 DEF TableInv, SnapshotFirst, PassedAndLast
<1>6. UnwrittenRows
  BY <1>3, <1>4 DEF UnwrittenRows
<1>7. QED
  BY <1>1, <1>2, <1>5, <1>6 DEF SourceTypes, SourceInv

(* Once everything is emitted, a key with a change in the WAL has its newest *)
(* change as the last event of its partition, and the row it left.           *)
LEMMA LastIsNewest ==
    ASSUME SourceTypes, SourceInv, CaptureDone, NEW k \in Keys, NEW m \in 1..Len(wal), EventKey(wal[m]) = k
    PROVE  \E i \in Slots(k) : /\ IsLast(k, i)
                               /\ IsNewest(k, i)
                               /\ rows[k] = VersionAfter(Event(k, i))
<1>0. pos = Len(wal) /\ Len(wal) \in Nat
  BY DEF CaptureDone, SourceTypes, CaptureTypeOK
<1>1. PICK i \in Slots(k) : IsLast(k, i) /\ Event(k, i).lsn >= m
  BY <1>0 DEF SourceInv, PassedAndLast
<1>2. IsEvent(k, i) /\ \A j : IsEvent(k, j) => j <= i
  BY <1>1, LastAndNewest
<1>3. \A j : IsEvent(k, j) =>
         \/ Event(k, j).lsn = 0
         \/ \E n \in 1..Len(wal) : /\ Event(k, j) = wal[n]
                                   /\ EventKey(wal[n]) = k
                                   /\ wal[n].lsn = n
  <2> SUFFICES ASSUME NEW j, IsEvent(k, j)
               PROVE  \/ Event(k, j).lsn = 0
                      \/ \E n \in 1..Len(wal) : /\ Event(k, j) = wal[n]
                                                /\ EventKey(wal[n]) = k
                                                /\ wal[n].lsn = n
    OBVIOUS
  <2>1. /\ PartitionOf[k] \in Partitions /\ j \in 1..Len(topic[PartitionOf[k]])
        /\ topic[PartitionOf[k]][j].key = k
        /\ topic[PartitionOf[k]][j].value = Event(k, j)
        /\ topic[PartitionOf[k]][j].value # NULL
    BY TopicAssumption DEF IsEvent, Slots, Event
  <2>2. \/ Event(k, j) = SnapshotEvent(k)
        \/ \E n \in 1..Len(wal) : Event(k, j) = wal[n] /\ EventKey(wal[n]) = k
    BY <2>1 DEF SourceTypes, TopicInv
  <2>3. SnapshotEvent(k).lsn = 0
    BY DEF SnapshotEvent
  <2>4. QED
    BY <2>2, <2>3 DEF SourceTypes, WalNumbered
<1>4. PICK n \in 1..Len(wal) : Event(k, i) = wal[n] /\ EventKey(wal[n]) = k /\ wal[n].lsn = n
  BY <1>0, <1>1, <1>2, <1>3
<1>5. \A l \in 1..Len(wal) : EventKey(wal[l]) = k => l <= n
  <2> SUFFICES ASSUME NEW l \in 1..Len(wal), EventKey(wal[l]) = k
               PROVE  l <= n
    OBVIOUS
  <2>1. PICK j \in Slots(k) : IsLast(k, j) /\ Event(k, j).lsn >= l
    BY <1>0 DEF SourceInv, PassedAndLast
  <2>2. IsEvent(k, j) /\ i <= j /\ j <= i
    BY <1>2, <2>1, LastAndNewest
  <2>3. i \in Nat /\ j \in Nat
    BY TopicAssumption DEF Slots, SourceTypes, TopicTypeOK
  <2>4. i = j
    BY <2>2, <2>3
  <2>5. QED
    BY <1>4, <2>1, <2>4
<1>6. rows[k] = VersionAfter(wal[n])
  BY <1>4, <1>5 DEF SourceInv, TableInv
<1>7. IsNewest(k, i)
  <2> SUFFICES ASSUME NEW j, IsEvent(k, j)
               PROVE  Event(k, j).lsn <= Event(k, i).lsn
    BY LastAndNewest
  <2>1. QED
    BY <1>0, <1>3, <1>4, <1>5
<1>8. QED
  BY <1>1, <1>4, <1>6, <1>7

(* Once everything is emitted, a key without a row has no events at all, or  *)
(* its last event is its newest, and the row is what that event left.        *)
LEMMA EmittedRows ==
    ASSUME SourceTypes, SourceInv, CaptureDone, NEW k \in Keys
    PROVE  \/ rows[k] = NULL /\ \A i \in Slots(k) : ~IsEvent(k, i)
           \/ \E i \in Slots(k) : /\ IsLast(k, i)
                                  /\ IsNewest(k, i)
                                  /\ rows[k] = VersionAfter(Event(k, i))
<1>1. CASE \E m \in 1..Len(wal) : EventKey(wal[m]) = k
  BY <1>1, LastIsNewest
<1>2. CASE \A m \in 1..Len(wal) : EventKey(wal[m]) # k
  <2>1. CASE rows[k] = NULL
    BY <1>2, <2>1 DEF SourceInv, UnwrittenRows
  <2>2. CASE rows[k] # NULL
    <3>1. PICK i \in Slots(k) : IsLast(k, i)
      BY <1>2, <2>2 DEF SourceInv, UnwrittenRows, CaptureDone
    <3>2. rows[k] = 0
      BY <1>2, <2>2 DEF SourceInv, UnwrittenRows
    <3>3. \A j : IsEvent(k, j) => Event(k, j) = SnapshotEvent(k)
      <4> SUFFICES ASSUME NEW j, IsEvent(k, j)
                   PROVE  Event(k, j) = SnapshotEvent(k)
        OBVIOUS
      <4>1. /\ PartitionOf[k] \in Partitions /\ j \in 1..Len(topic[PartitionOf[k]])
            /\ topic[PartitionOf[k]][j].key = k
            /\ topic[PartitionOf[k]][j].value = Event(k, j)
            /\ topic[PartitionOf[k]][j].value # NULL
        BY TopicAssumption DEF IsEvent, Slots, Event
      <4>2. QED
        BY <1>2, <4>1 DEF SourceTypes, TopicInv
    <3>4. IsEvent(k, i) /\ Event(k, i) = SnapshotEvent(k)
      BY <3>1, <3>3, LastAndNewest
    <3>5. IsNewest(k, i)
      <4>1. SnapshotEvent(k).lsn <= SnapshotEvent(k).lsn
        BY DEF SnapshotEvent
      <4>2. QED
        BY <3>3, <3>4, <4>1, LastAndNewest
    <3>6. VersionAfter(SnapshotEvent(k)) = 0
      BY SnapshotEventType DEF SnapshotEvent, VersionAfter, WellFormed, OP_READ, OP_DELETE
    <3>7. QED
      BY <3>1, <3>2, <3>4, <3>5, <3>6
  <2>3. QED
    BY <2>1, <2>2
<1>3. QED
  BY <1>1, <1>2

-----------------------------------------------------------------------------
(* The engine and its checkpoint.                                            *)
EngineStep == Start \/ PlanBatch \/ CommitBatch \/ Fail \/ ResetCheckpoint

(* A planned batch ends between what is committed and what there is.         *)
LEMMA PlanEnds ==
    ASSUME TopicTypeOK, EngineTypeOK, PlanBatch
    PROVE  /\ offsets' \in Offsets
           /\ \A p \in Partitions : commits[p] <= offsets'[p] /\ offsets'[p] <= Len(topic[p])
<1>1. PICK end \in BatchEnds : offsets' = end
  BY DEF PlanBatch
<1>2. /\ DOMAIN end = Partitions
      /\ end = [p \in Partitions |-> end[p]]
      /\ \A p \in Partitions : end[p] \in commits[p]..Len(topic[p])
  BY DEF BatchEnds
<1>3. \A p \in Partitions : commits[p] \in Nat /\ Len(topic[p]) \in Nat
  BY DEF EngineTypeOK, Offsets, TopicTypeOK
<1>4. \A p \in Partitions : /\ end[p] \in Nat
                            /\ commits[p] <= end[p] /\ end[p] <= Len(topic[p])
  BY <1>2, <1>3
<1>5. QED
  BY <1>1, <1>2, <1>4 DEF Offsets

(* The engine's own steps keep its types and read the topic only.            *)
LEMMA EngineTypesStep ==
    ASSUME TopicTypeOK, EngineTypeOK, EngineStep
    PROVE  EngineTypeOK' /\ UNCHANGED topicVars
<1>1. CASE Start
  BY <1>1 DEF Start, EngineTypeOK, Phases
<1>2. CASE PlanBatch
  BY <1>2, PlanEnds DEF PlanBatch, EngineTypeOK, Phases
<1>3. CASE CommitBatch
  BY <1>3 DEF CommitBatch, EngineTypeOK, Phases
<1>4. CASE Fail
  BY <1>4 DEF Fail, EngineTypeOK, Phases
<1>5. CASE ResetCheckpoint
  BY <1>5 DEF ResetCheckpoint, EngineTypeOK, ZeroOffsets, Offsets
<1>6. QED
  BY <1>1, <1>2, <1>3, <1>4, <1>5 DEF EngineStep

(* Planning extends no more than to the records there are, a commit only     *)
(* records what is written, and a reset forgets it.                          *)
LEMMA EngineRange ==
    ASSUME TopicTypeOK, EngineTypeOK, CheckpointInv, EngineStep
    PROVE  /\ CheckpointInv'
           /\ \A p \in Partitions : Done'[p] \in Nat /\ (Done'[p] <= Done[p] \/ Done'[p] = 0)
<1>0. /\ topic' = topic /\ logStart' = logStart
      /\ \A p \in Partitions : /\ commits[p] \in Nat /\ offsets[p] \in Nat
                               /\ commits[p] <= offsets[p]
                               /\ offsets[p] <= Len(topic[p])
                               /\ logStart[p] <= Len(topic[p])
                               /\ Len(topic[p]) \in Nat
  BY EngineTypesStep DEF topicVars, EngineTypeOK, Offsets, TopicTypeOK, CheckpointInv
<1>1. CASE Start \/ Fail
  <2>1. UNCHANGED <<offsets, commits>> /\ phase' # "written"
    BY <1>1 DEF Start, Fail
  <2>2. QED
    BY <1>0, <2>1 DEF CheckpointInv, Done
<1>2. CASE PlanBatch
  <2>1. \A p \in Partitions : /\ offsets'[p] \in Nat
                              /\ commits[p] <= offsets'[p] /\ offsets'[p] <= Len(topic[p])
    BY <1>2, PlanEnds DEF Offsets
  <2>2. phase' = "planned" /\ phase = "idle" /\ commits' = commits
    BY <1>2 DEF PlanBatch
  <2>3. QED
    BY <1>0, <2>1, <2>2 DEF CheckpointInv, Done
<1>3. CASE CommitBatch
  <2>1. phase = "written" /\ phase' = "idle" /\ commits' = offsets /\ offsets' = offsets
    BY <1>3 DEF CommitBatch
  <2>2. QED
    BY <1>0, <2>1 DEF CheckpointInv, Done
<1>4. CASE ResetCheckpoint
  <2>1. phase' # "written" /\ commits' = ZeroOffsets /\ offsets' = ZeroOffsets
    BY <1>4 DEF ResetCheckpoint
  <2>2. QED
    BY <1>0, <2>1 DEF CheckpointInv, Done, ZeroOffsets
<1>5. QED
  BY <1>1, <1>2, <1>3, <1>4 DEF EngineStep

-----------------------------------------------------------------------------
(* The dataframes, row by row.                                               *)
RowOf(k, i) == Flatten(Decode(PartitionOf[k], i))

(* Flattening an event of a key gives a row of that key, with the event's    *)
(* operation, LSN and clock, and the version of its after image.             *)
LEMMA RowOfEvent ==
    ASSUME SourceTypes, NEW k \in Keys, NEW i, IsEvent(k, i)
    PROVE  LET f == RowOf(k, i)
               e == Event(k, i)
           IN  /\ e \in Envelope
               /\ WellFormed(e)
               /\ f.pk = k
               /\ f.op = e.op /\ f.op \in Ops /\ f.op # NULL
               /\ f.source_lsn = e.lsn /\ f.source_lsn \in Nat /\ f.source_lsn # NULL
               /\ f.source_ts_ms = e.ts_ms /\ f.source_ts_ms \in Int
               /\ f.version \in Nat
               /\ f.op # OP_DELETE => f.version = e.after.version
<1> DEFINE p == PartitionOf[k]
           e == Event(k, i)
           d == Decode(p, i)
           f == RowOf(k, i)
<1>1. p \in Partitions /\ i \in 1..Len(topic[p]) /\ topic[p][i].key = k
  BY TopicAssumption DEF IsEvent, Slots
<1>2. e = topic[p][i].value /\ e # NULL
  BY DEF IsEvent, Event
<1>3. e \in Envelope /\ WellFormed(e) /\ EventKey(e) = k
  BY <1>1, <1>2, RecordWellFormed
<1>4. /\ d.before = e.before /\ d.after = e.after /\ d.op = e.op
      /\ d.lsn = e.lsn /\ d.ts_ms = e.ts_ms
  BY <1>2 DEF Decode
<1>5. f.op = e.op /\ f.source_lsn = e.lsn /\ f.source_ts_ms = e.ts_ms
  BY <1>4 DEF RowOf, Flatten
<1>6. e.op \in Ops /\ e.lsn \in Nat /\ e.ts_ms \in Int
  BY <1>3 DEF Envelope
<1>7. e.op # NULL /\ e.lsn # NULL
  BY <1>6, TopicAssumption
<1>8. e.after \in Image \cup {NULL} /\ e.before \in Image \cup {NULL}
  BY <1>3 DEF Envelope
<1>9. f.pk = k /\ f.version \in Nat /\ (f.op # OP_DELETE => f.version = e.after.version)
  <2> DEFINE image == IF e.after # NULL THEN e.after ELSE e.before
  <2>1. image \in Image /\ image.pk = k
    BY <1>3, <1>8 DEF WellFormed, EventKey, OP_DELETE, OP_CREATE, OP_READ
  <2>2. image # NULL
    BY <2>1, TopicAssumption
  <2>3. f.pk = image.pk /\ f.version = image.version
    BY <1>4, <2>2 DEF RowOf, Flatten
  <2>4. f.op # OP_DELETE => image = e.after
    BY <1>3, <1>5 DEF WellFormed
  <2>5. image.version \in Nat
    BY <2>1 DEF Image
  <2>6. QED
    BY <2>1, <2>3, <2>4, <2>5
<1>10. QED
  BY <1>3, <1>5, <1>6, <1>7, <1>9

(* A flattened record is a tombstone's row of NULLs, or comes from an event  *)
(* of the key it names.                                                      *)
LEMMA FlatRow ==
    ASSUME SourceTypes, NEW p \in Partitions, NEW i \in 1..Len(topic[p]),
           NEW f, f = Flatten(Decode(p, i))
    PROVE  \/ f.pk = NULL /\ f.op = NULL
           \/ /\ f.pk \in Keys /\ f.pk # NULL /\ PartitionOf[f.pk] = p
              /\ i \in Slots(f.pk) /\ IsEvent(f.pk, i) /\ f = RowOf(f.pk, i)
<1>1. CASE topic[p][i].value = NULL
  BY <1>1 DEF Flatten, Decode
<1>2. CASE topic[p][i].value # NULL
  <2> DEFINE k == topic[p][i].key
  <2>1. k \in Keys /\ k # NULL
    BY <1>2, RecordWellFormed, TopicAssumption
  <2>2. PartitionOf[k] = p
    BY DEF SourceTypes, TopicInv
  <2>3. IsEvent(k, i) /\ i \in Slots(k)
    BY <1>2, <2>2 DEF IsEvent, Event, Slots
  <2>4. f = RowOf(k, i)
    BY <2>2 DEF RowOf
  <2>5. f.pk = k
    BY <2>1, <2>3, <2>4, RowOfEvent
  <2>6. QED
    BY <2>1, <2>2, <2>3, <2>4, <2>5
<1>3. QED
  BY <1>1, <1>2

-----------------------------------------------------------------------------
(* The merge, on any tables.                                                 *)
UniqueKey(table) == \A t, u \in table : t.pk = u.pk => t = u

(* deduplicate leaves one row of each key, none of them invented.            *)
LEMMA WinnersUnique ==
    ASSUME NEW flat, NEW winners \in Deduplications(flat)
    PROVE  /\ winners \subseteq flat
           /\ UniqueKey(winners)
           /\ \A f \in flat : \E w \in winners : w.pk = f.pk /\ RanksFirst(w, f)
BY DEF Deduplications, UniqueKey

(* What a merge leaves in the target: old rows that no delete and no update  *)
(* touched, and rows of the source that were updates or inserts.             *)
LEMMA MergeRows ==
    ASSUME NEW target, NEW source, NEW now, NEW r \in Merge(target, source, now)
    PROVE  \/ /\ r \in target
              /\ r \notin DeletedBy(target, source) \cup UpdatedBy(target, source)
           \/ \E s \in Updates(target, source) \cup Inserts(target, source) :
                 r = Persisted(s, now) /\ r.pk = s.pk
BY DEF Merge, Persisted

(* MERGE keeps the primary key unique when the source has one row per key.   *)
LEMMA MergeKeepsKey ==
    ASSUME NEW target, NEW source, NEW now,
           \A t \in target : t.pk # NULL,
           UniqueKey(target), UniqueKey(source)
    PROVE  UniqueKey(Merge(target, source, now))
<1> SUFFICES ASSUME NEW r \in Merge(target, source, now),
                    NEW q \in Merge(target, source, now),
                    r.pk = q.pk
             PROVE  r = q
  BY DEF UniqueKey
<1> DEFINE Touched == DeletedBy(target, source) \cup UpdatedBy(target, source)
           New == Updates(target, source) \cup Inserts(target, source)
<1>1. New \subseteq source
  BY DEF Updates, Inserts
<1>2. \A t \in target \ Touched, s \in New : t.pk # s.pk
  <2> SUFFICES ASSUME NEW t \in target \ Touched, NEW s \in New, t.pk = s.pk
               PROVE  FALSE
    OBVIOUS
  <2>1. Matches(t, s)
    BY DEF Matches
  <2>2. CASE s \in Updates(target, source)
    <3>1. PICK u \in target : Matches(u, s) /\ ~IsDelete(s) /\ LsnAllows(u, s)
      BY <2>2 DEF Updates
    <3>2. u = t
      BY <3>1 DEF Matches, UniqueKey
    <3>3. t \in UpdatedBy(target, source)
      BY <1>1, <3>1, <3>2 DEF UpdatedBy
    <3>4. QED
      BY <3>3
  <2>3. CASE s \in Inserts(target, source)
    BY <2>1, <2>3 DEF Inserts
  <2>4. QED
    BY <2>2, <2>3
<1>3. \/ r \in target \ Touched
      \/ \E s \in New : r = Persisted(s, now) /\ r.pk = s.pk
  BY MergeRows
<1>4. \/ q \in target \ Touched
      \/ \E s \in New : q = Persisted(s, now) /\ q.pk = s.pk
  BY MergeRows
<1> HIDE DEF Touched, New
<1>5. QED
  BY <1>1, <1>2, <1>3, <1>4 DEF UniqueKey
=============================================================================
