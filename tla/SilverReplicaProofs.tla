-------------------------- MODULE SilverReplicaProofs --------------------------
(* What Silver shows between the moments at which it has caught up: a batch  *)
(* that is merged again changes only its stamps, an old change never wins,   *)
(* and the job implements the exactly-once replica.  The last two rest on a  *)
(* connector that delivers every change once and a checkpoint that is kept,  *)
(* for they are false otherwise.                                             *)
EXTENDS SilverConvergenceProofs, WellFoundedInduction

-----------------------------------------------------------------------------
(* Silver is as a merge of w has left it: merging w again changes no row     *)
(* except for the stamp.                                                     *)
SameRow(t, w) ==
    /\ t.version = w.version
    /\ t.source_lsn = w.source_lsn
    /\ t.source_ts_ms = w.source_ts_ms

Absorbed(table, w) ==
    IF IsDelete(w) THEN \A t \in table : t.pk # w.pk
    ELSE /\ \E t \in table : t.pk = w.pk
         /\ \A t \in table : t.pk = w.pk => ~LsnAllows(t, w) \/ SameRow(t, w)

AbsorbedBatch == \A winners \in Deduplications(FlatBatch) : \A w \in winners :
                    w.pk # NULL => Absorbed(silver, w)

(* In the first life of the checkpoint, what was merged is what it says is   *)
(* committed or planned, and in the latter case the planned batch is         *)
(* absorbed already.                                                         *)
AppliedInv ==
    /\ applied = commits \/ applied = offsets
    /\ phase = "idle" => applied = commits
    /\ phase = "written" => applied = offsets

ReplayInv == resets = 0 => AppliedInv /\ (applied = offsets => AbsorbedBatch)

-----------------------------------------------------------------------------
(* What a connector that never goes back adds: the events of a key are in    *)
(* the order of their LSNs, and a tombstone directly follows its delete.     *)
OrderInv ==
    /\ \A k \in snapTodo : \A i \in Slots(k) : ~IsEvent(k, i)
    /\ \A k \in Keys : \A i \in Slots(k) : IsEvent(k, i) => Event(k, i).lsn <= pos
    /\ \A k \in Keys : \A i, j \in Slots(k) :
          IsEvent(k, i) /\ IsEvent(k, j) /\ i < j => Event(k, i).lsn < Event(k, j).lsn

TombstoneInv ==
    \A p \in Partitions : \A i \in 1..Len(topic[p]) :
        topic[p][i].value = NULL =>
            /\ i > 1
            /\ topic[p][i - 1].key = topic[p][i].key
            /\ topic[p][i - 1].value # NULL
            /\ topic[p][i - 1].value.op = OP_DELETE

(* The last event of k among the first n records of its partition.           *)
LastUpTo(n, k, i) ==
    /\ IsEvent(k, i)
    /\ i <= n
    /\ \A j \in Slots(k) : IsEvent(k, j) /\ j <= n => j <= i

(* Silver shows of every key its last event among those merged, and no rows  *)
(* without one.                                                              *)
PrefixInv ==
    /\ \A k \in Keys : \A i \in Slots(k) :
          LastUpTo(applied[PartitionOf[k]], k, i) => Shows(k, Event(k, i))
    /\ \A t \in silver : \E i \in Slots(t.pk) :
          /\ IsEvent(t.pk, i)
          /\ i <= applied[PartitionOf[t.pk]]
          /\ t.source_lsn <= Event(t.pk, i).lsn

ExpiryInv == \A p \in Partitions : logStart[p] <= commits[p]

ReplicaInv == resets = 0 /\ OrderInv /\ TombstoneInv /\ ExpiryInv /\ PrefixInv

-----------------------------------------------------------------------------
(* The merge, once more.  After a merge of winners of distinct keys, every   *)
(* one of them with a key is absorbed.                                       *)
LEMMA MergeAbsorbs ==
    ASSUME NEW target, NEW source, NEW now, UniqueKey(source),
           NEW w \in source, w.pk # NULL, w.op # NULL
    PROVE  Absorbed(Merge(target, source, now), w)
<1> DEFINE written == Updates(target, source) \cup Inserts(target, source)
           result == Merge(target, source, now)
<1>1. \A s \in source : s.pk = w.pk => s = w
  BY DEF UniqueKey
<1>2. \A s \in written : s \in source
  BY DEF Updates, Inserts
<1>3. \A t \in result :
         \/ t \in target /\ t \notin DeletedBy(target, source) /\ t \notin UpdatedBy(target, source)
         \/ \E s \in written : t = Persisted(s, now) /\ t.pk = s.pk
  BY MergeRows
<1>4. CASE IsDelete(w)
  <2>1. w \notin written
    BY <1>4 DEF Updates, Inserts, IsDelete, IsNotDelete
  <2> SUFFICES ASSUME NEW t \in result, t.pk = w.pk PROVE FALSE
    BY <1>4 DEF Absorbed
  <2>2. t \in target /\ t \notin DeletedBy(target, source)
    BY <1>1, <1>2, <1>3, <2>1
  <2>3. Matches(t, w)
    BY DEF Matches
  <2>4. QED
    BY <1>4, <2>2, <2>3 DEF DeletedBy
<1>5. CASE ~IsDelete(w)
  <2>1. \A t \in target : t.pk = w.pk => Matches(t, w)
    BY DEF Matches
  <2>2. \A t \in target : \A s \in source : Matches(t, s) /\ t.pk = w.pk => s = w
    BY <1>1 DEF Matches
  <2>3. Persisted(w, now).pk = w.pk /\ SameRow(Persisted(w, now), w)
    BY DEF Persisted, SameRow
  <2>4. w \in written => Persisted(w, now) \in result
    BY DEF Merge
  <2>5. \E t \in result : t.pk = w.pk
    <3>1. CASE w \in written
      BY <2>3, <2>4, <3>1
    <3>2. CASE w \notin written
      <4>1. PICK t \in target : Matches(t, w)
        BY <1>5, <3>2 DEF Inserts, IsNotDelete, IsDelete
      <4>2. t.pk = w.pk
        BY <4>1 DEF Matches
      <4>3. ~LsnAllows(t, w)
        BY <1>5, <3>2, <4>1 DEF Updates
      <4>4. t \notin DeletedBy(target, source) /\ t \notin UpdatedBy(target, source)
        BY <1>5, <2>2, <4>2, <4>3 DEF DeletedBy, UpdatedBy
      <4>5. t \in result
        BY <4>4 DEF Merge
      <4>6. QED
        BY <4>2, <4>5
    <3>3. QED
      BY <3>1, <3>2
  <2>6. ASSUME NEW t \in result, t.pk = w.pk, LsnAllows(t, w)
        PROVE  SameRow(t, w)
    <3>1. CASE t \in target /\ t \notin UpdatedBy(target, source)
      BY <1>5, <2>1, <2>6, <3>1 DEF UpdatedBy
    <3>2. CASE \E s \in written : t = Persisted(s, now) /\ t.pk = s.pk
      <4>1. t = Persisted(w, now)
        BY <1>1, <1>2, <2>6, <3>2
      <4>2. QED
        BY <2>3, <4>1
    <3>3. QED
      BY <1>3, <3>1, <3>2
  <2>7. QED
    BY <1>5, <2>5, <2>6 DEF Absorbed
<1>6. QED
  BY <1>4, <1>5

(* Merging what is absorbed changes no row except for the stamp.             *)
LEMMA AbsorbedMergeIsIdempotent ==
    ASSUME NEW target, NEW source, NEW now,
           \A w \in source : w.pk # NULL => Absorbed(target, w),
           \A w \in source : w.pk = NULL => w.op = NULL
    PROVE  Contents(Merge(target, source, now)) = Contents(target)
<1> DEFINE Row(t) == [pk |-> t.pk, version |-> t.version, source_lsn |-> t.source_lsn,
                      source_ts_ms |-> t.source_ts_ms]
           result == Merge(target, source, now)
<1>1. \A table : Contents(table) = {Row(t) : t \in table}
  BY DEF Contents
<1>2. \A s : Row(Persisted(s, now)) = Row(s)
  BY DEF Persisted
<1>3. ASSUME NEW t \in target, NEW s \in source, Matches(t, s)
      PROVE  /\ ~IsDelete(s)
             /\ LsnAllows(t, s) => Row(s) = Row(t)
  <2>1. s.pk # NULL /\ t.pk = s.pk /\ Absorbed(target, s)
    BY <1>3 DEF Matches
  <2>2. QED
    BY <2>1 DEF Absorbed, SameRow
<1>4. ASSUME NEW r \in result
      PROVE  \E t \in target : Row(t) = Row(r)
  <2>1. CASE r \in target
    BY <2>1
  <2>2. CASE \E s \in Updates(target, source) : r = Persisted(s, now)
    <3>1. PICK s \in Updates(target, source) : r = Persisted(s, now)
      BY <2>2
    <3>2. PICK t \in target : Matches(t, s) /\ LsnAllows(t, s) /\ s \in source
      BY <3>1 DEF Updates
    <3>3. QED
      BY <1>2, <1>3, <3>1, <3>2
  <2>3. CASE \E s \in Inserts(target, source) : r = Persisted(s, now)
    <3>1. PICK s \in source : IsNotDelete(s) /\ ~\E t \in target : Matches(t, s)
      BY <2>3 DEF Inserts
    <3>2. s.pk # NULL /\ ~IsDelete(s)
      BY <3>1 DEF IsNotDelete, IsDelete
    <3>3. PICK t \in target : t.pk = s.pk
      BY <3>2 DEF Absorbed
    <3>4. Matches(t, s)
      BY <3>2, <3>3 DEF Matches
    <3>5. QED
      BY <3>1, <3>4
  <2>4. QED
    BY <2>1, <2>2, <2>3, MergeRows
<1>5. ASSUME NEW t \in target
      PROVE  \E r \in result : Row(r) = Row(t)
  <2>1. CASE t \in UpdatedBy(target, source)
    <3>1. PICK s \in source : Matches(t, s) /\ ~IsDelete(s) /\ LsnAllows(t, s)
      BY <2>1 DEF UpdatedBy
    <3>2. Persisted(s, now) \in result
      BY <3>1 DEF Merge, Updates
    <3>3. QED
      BY <1>2, <1>3, <3>1, <3>2
  <2>2. CASE t \notin UpdatedBy(target, source)
    <3>1. t \notin DeletedBy(target, source)
      BY <1>3 DEF DeletedBy
    <3>2. t \in result
      BY <2>2, <3>1 DEF Merge
    <3>3. QED
      BY <3>2
  <2>3. QED
    BY <2>1, <2>2
<1> HIDE DEF Row, result
<1>6. {Row(r) : r \in result} = {Row(t) : t \in target}
  BY <1>4, <1>5
<1>7. QED
  BY <1>1, <1>6 DEF result

(* Every way to break the ties of a batch keeps the same row of a key: rows  *)
(* that tie are copies of one event.                                         *)
LEMMA SameWinners ==
    ASSUME TypeInv, NEW first \in Deduplications(FlatBatch),
           NEW again \in Deduplications(FlatBatch),
           NEW w \in first, w.pk # NULL
    PROVE  w \in again /\ w.op # NULL
<1>1. w \in FlatBatch /\ again \subseteq FlatBatch
  BY WinnersUnique
<1>2. PICK v \in again : v.pk = w.pk /\ RanksFirst(v, w)
  BY <1>1, WinnersUnique
<1>3. RanksFirst(w, v)
  BY <1>1, <1>2 DEF Deduplications
<1>4. PICK k \in Keys : k = w.pk
  BY <1>1, FlatBatchRows DEF TypeInv
<1>5. PICK i \in Slots(k) : IsEvent(k, i) /\ w = RowOf(k, i)
  BY <1>1, <1>4, FlatBatchRows DEF TypeInv
<1>6. PICK j \in Slots(k) : IsEvent(k, j) /\ v = RowOf(k, j)
  BY <1>1, <1>2, <1>4, FlatBatchRows DEF TypeInv
<1>7. /\ w.source_lsn = Event(k, i).lsn /\ w.source_lsn \in Nat /\ w.source_lsn # NULL
      /\ v.source_lsn = Event(k, j).lsn /\ v.source_lsn \in Nat /\ v.source_lsn # NULL
      /\ w.op # NULL
  BY <1>5, <1>6, RowOfEvent DEF TypeInv
<1>8. w.source_lsn = v.source_lsn
  BY <1>2, <1>3, <1>7 DEF RanksFirst, Before
<1>9. Event(k, i) = Event(k, j)
  BY <1>5, <1>6, <1>7, <1>8, SameLsnSameEvent DEF TypeInv
<1>10. RowOf(k, i) = RowOf(k, j)
  BY <1>9 DEF RowOf, Flatten, Decode, Event
<1>11. QED
  BY <1>2, <1>5, <1>6, <1>7, <1>10

(* Rows without a key carry no operation: they are the tombstones'.          *)
LEMMA KeylessRows ==
    ASSUME TypeInv, NEW winners \in Deduplications(FlatBatch), NEW w \in winners, w.pk = NULL
    PROVE  w.op = NULL
BY WinnersUnique, FlatBatchRows, TopicAssumption DEF TypeInv

(* Whatever batch the job merges, it has absorbed it then.                   *)
LEMMA BatchAbsorbed ==
    ASSUME TypeInv, NEW winners \in Deduplications(FlatBatch), NEW now,
           NEW again \in Deduplications(FlatBatch), NEW w \in again, w.pk # NULL
    PROVE  Absorbed(Merge(silver, winners, now), w)
<1>1. w \in winners /\ w.op # NULL
  BY SameWinners
<1>2. QED
  BY <1>1, MergeAbsorbs, WinnersUnique

-----------------------------------------------------------------------------
(* The planned batch stays what it was while the topic grows at its end and  *)
(* retention removes only what is committed.                                 *)
LEMMA BatchKept ==
    ASSUME TypeInv, CheckpointInv, UNCHANGED <<commits, offsets>>,
           \A p \in Partitions : /\ Len(topic'[p]) \in Nat
                                 /\ Len(topic'[p]) >= Len(topic[p])
                                 /\ \A i \in 1..Len(topic[p]) : topic'[p][i] = topic[p][i],
           \A p \in Partitions : \/ logStart'[p] = logStart[p]
                                 \/ /\ logStart'[p] \in Nat /\ logStart'[p] <= commits[p]
                                    /\ logStart[p] <= commits[p]
    PROVE  FlatBatch' = FlatBatch
<1> DEFINE In(p, o) == o \in 1..Len(topic[p]) /\ o > commits[p] /\ o > logStart[p] /\ o <= offsets[p]
<1>1. \A d : d \in Batch <=> \E p \in Partitions : \E o \in Nat : In(p, o) /\ d = Decode(p, o)
  BY DEF Batch, Poll, TypeInv, SourceTypes, TopicTypeOK
<1>2. \A d : d \in Batch' <=> \E p \in Partitions : \E o \in Nat : In(p, o)' /\ d = Decode(p, o)'
  BY DEF Batch, Poll
<1>3. ASSUME NEW p \in Partitions, NEW o \in Nat
      PROVE  /\ In(p, o)' <=> In(p, o)
             /\ In(p, o) => Decode(p, o)' = Decode(p, o)
  <2>1. /\ offsets[p] <= Len(topic[p]) /\ offsets[p] \in Nat /\ commits[p] \in Nat
        /\ logStart[p] \in Nat /\ Len(topic[p]) \in Nat
    BY DEF CheckpointInv, TypeInv, EngineTypeOK, Offsets, SourceTypes, TopicTypeOK
  <2>2. In(p, o)' <=> In(p, o)
    BY <2>1
  <2>3. In(p, o) => topic'[p][o] = topic[p][o]
    OBVIOUS
  <2>4. QED
    BY <2>2, <2>3 DEF Decode
<1> HIDE DEF In
<1>4. Batch' = Batch
  <2>1. \A d : d \in Batch' <=> d \in Batch
    BY <1>1, <1>2, <1>3
  <2>2. QED
    BY <2>1
<1>5. QED
  BY <1>4 DEF FlatBatch, Flatten

(* Nothing is planned beyond what is committed: the batch is empty.          *)
LEMMA BatchEmpty ==
    ASSUME commits' = offsets, offsets' = offsets, offsets \in Offsets
    PROVE  FlatBatch' = {}
<1>1. \A p \in Partitions : \A o \in Nat : ~(o > offsets[p] /\ o <= offsets[p])
  BY DEF Offsets
<1>2. \A p \in Partitions : \A o \in 1..Len(topic'[p]) : ~(o > offsets[p] /\ o <= offsets[p])
  BY <1>1 DEF Offsets
<1>3. Batch' = {}
  BY <1>2 DEF Batch, Poll
<1>4. QED
  BY <1>3 DEF FlatBatch

LEMMA EmptyIsAbsorbed ==
    ASSUME FlatBatch' = {}
    PROVE  AbsorbedBatch'
BY WinnersUnique DEF AbsorbedBatch, Deduplications

(* Steps that leave the job's place and the planned batch alone.             *)
LEMMA ReplayKept ==
    ASSUME ReplayInv, UNCHANGED <<resets, applied, commits, offsets, silver>>,
           FlatBatch' = FlatBatch,
           phase' = "idle" => phase = "idle" \/ commits = offsets,
           phase' = "written" => phase = "written"
    PROVE  ReplayInv'
<1>1. AbsorbedBatch => AbsorbedBatch'
  BY DEF AbsorbedBatch, Absorbed, Deduplications, SameRow, LsnAllows, IsDelete, RanksFirst, Before
<1>2. QED
  BY <1>1 DEF ReplayInv, AppliedInv

(* After a merge, what was merged is what was planned.                       *)
LEMMA AppliedIsPlanned ==
    ASSUME TypeInv, CheckpointInv, AppliedInv, MergeBatch
    PROVE  applied' = offsets
<1>1. applied' = [p \in Partitions |-> IF offsets[p] > applied[p] THEN offsets[p] ELSE applied[p]]
  BY DEF MergeBatch
<1>2. \A p \in Partitions : /\ commits[p] <= offsets[p] /\ commits[p] \in Nat /\ offsets[p] \in Nat
                            /\ applied[p] = commits[p] \/ applied[p] = offsets[p]
  BY DEF CheckpointInv, TypeInv, EngineTypeOK, Offsets, AppliedInv
<1>3. \A p \in Partitions : applied'[p] = offsets[p]
  BY <1>1, <1>2
<1>4. offsets = [p \in Partitions |-> offsets[p]] /\ applied' = [p \in Partitions |-> applied'[p]]
  BY <1>1 DEF TypeInv, EngineTypeOK, Offsets
<1>5. QED
  BY <1>3, <1>4

(* The step that merges the batch for the first time or again.               *)
LEMMA ReplayMerged ==
    ASSUME TypeInv, CheckpointInv, ReplayInv, MergeBatch
    PROVE  ReplayInv'
<1>1. /\ phase' = "written"
      /\ UNCHANGED <<topic, logStart, offsets, commits, resets>>
  BY DEF MergeBatch, topicVars
<1>2. SUFFICES ASSUME resets = 0
               PROVE  AppliedInv' /\ AbsorbedBatch'
  BY <1>1 DEF ReplayInv
<1>3. applied' = offsets
  BY <1>2, AppliedIsPlanned DEF ReplayInv
<1>4. AppliedInv'
  BY <1>1, <1>3 DEF AppliedInv
<1>5. PICK winners \in Deduplications(FlatBatch) : silver' = Merge(silver, winners, Now)
  BY DEF MergeBatch
<1>6. FlatBatch' = FlatBatch
  BY <1>1 DEF FlatBatch, Batch, Poll, Flatten, Decode
<1>7. \A again \in Deduplications(FlatBatch) : \A w \in again :
         w.pk # NULL => Absorbed(silver', w)
  BY <1>5, BatchAbsorbed
<1>8. AbsorbedBatch'
  <2>1. Deduplications(FlatBatch)' = Deduplications(FlatBatch)
    BY <1>6 DEF Deduplications, RanksFirst, Before
  <2>2. \A w : Absorbed(silver, w)' <=> Absorbed(silver', w)
    BY DEF Absorbed, SameRow, LsnAllows, IsDelete
  <2>3. QED
    BY <1>7, <2>1, <2>2 DEF AbsorbedBatch
<1>9. QED
  BY <1>4, <1>8

LEMMA ReplayEngine ==
    ASSUME TypeInv, CheckpointInv, ReplayInv, EngineStep, UNCHANGED <<silver, applied>>
    PROVE  ReplayInv'
<1>1. UNCHANGED topicVars /\ offsets \in Offsets /\ commits \in Offsets /\ resets \in Nat
  BY EngineTypesStep DEF TypeInv, SourceTypes, EngineTypeOK
<1>2. UNCHANGED <<commits, offsets>> => FlatBatch' = FlatBatch
  BY <1>1 DEF topicVars, FlatBatch, Batch, Poll, Flatten, Decode
<1>3. CASE Start \/ Fail
  BY <1>2, <1>3, ReplayKept DEF Start, Fail
<1>4. CASE PlanBatch
  <2>1. phase = "idle" /\ phase' = "planned" /\ UNCHANGED <<commits, resets>> /\ offsets' # commits
    BY <1>4 DEF PlanBatch, BatchEnds
  <2>2. QED
    BY <2>1 DEF ReplayInv, AppliedInv
<1>5. CASE CommitBatch
  <2>1. /\ phase = "written" /\ phase' = "idle"
        /\ commits' = offsets /\ UNCHANGED <<offsets, resets>>
    BY <1>5 DEF CommitBatch
  <2>2. AbsorbedBatch'
    BY <1>1, <2>1, BatchEmpty, EmptyIsAbsorbed
  <2>3. QED
    BY <2>1, <2>2 DEF ReplayInv, AppliedInv
<1>6. CASE ResetCheckpoint
  <2>1. resets' # 0
    BY <1>1, <1>6 DEF ResetCheckpoint
  <2>2. QED
    BY <2>1 DEF ReplayInv
<1>7. QED
  BY <1>3, <1>4, <1>5, <1>6 DEF EngineStep

LEMMA ReplayStep ==
    ASSUME RetentionCoversLag, ConvInv, ReplayInv, [Next]_vars
    PROVE  ReplayInv'
<1>0. TypeInv /\ CheckpointInv /\ SourceTypes
  BY DEF ConvInv, JobInv, TypeInv
<1>1. CASE Source
  <2>1. TopicGrows /\ UNCHANGED <<engineVars, silverVars>>
    BY <1>0, <1>1, SourceGrows DEF Source
  <2>2. UNCHANGED <<phase, commits, offsets, resets, applied, silver>>
    BY <2>1 DEF engineVars, silverVars
  <2>3. FlatBatch' = FlatBatch
    BY <1>0, <2>1, <2>2, BatchKept DEF TopicGrows
  <2>4. QED
    BY <2>2, <2>3, ReplayKept
<1>2. CASE MergeBatch
  BY <1>0, <1>2, ReplayMerged
<1>3. CASE EnsureTable
  <2>1. /\ UNCHANGED <<topic, logStart, commits, offsets, resets, applied, silver>>
        /\ phase' = "ensured"
    BY <1>3 DEF EnsureTable, topicVars
  <2>2. FlatBatch' = FlatBatch
    BY <2>1 DEF FlatBatch, Batch, Poll, Flatten, Decode
  <2>3. QED
    BY <2>1, <2>2, ReplayKept
<1>4. CASE Engine
  BY <1>0, <1>4, ReplayEngine DEF Engine, EngineStep, silverVars
<1>5. CASE Retention
  <2>1. PICK p \in Partitions :
           /\ logStart[p] < commits[p]
           /\ logStart' = [logStart EXCEPT ![p] = @ + 1]
           /\ topic' = topic
    BY <1>5 DEF Retention, ExpireRecord
  <2>2. UNCHANGED <<phase, commits, offsets, resets, applied, silver>>
    BY <1>5 DEF Retention, engineVars, silverVars
  <2>3. \A q \in Partitions : /\ Len(topic[q]) \in Nat
                              /\ commits[q] \in Nat /\ logStart[q] \in Nat
    BY <1>0 DEF TypeInv, EngineTypeOK, Offsets, SourceTypes, TopicTypeOK
  <2>4. \A q \in Partitions : \/ logStart'[q] = logStart[q]
                              \/ /\ logStart'[q] \in Nat /\ logStart'[q] <= commits[q]
                                 /\ logStart[q] <= commits[q]
    BY <1>0, <2>1, <2>3 DEF SourceTypes, TopicTypeOK, Offsets
  <2>5. FlatBatch' = FlatBatch
    BY <1>0, <2>1, <2>2, <2>3, <2>4, BatchKept
  <2>6. QED
    BY <2>2, <2>5, ReplayKept
<1>6. CASE UNCHANGED vars
  <2>1. UNCHANGED <<topic, logStart, phase, commits, offsets, resets, applied, silver>>
    BY <1>6 DEF vars, topicVars, engineVars, silverVars
  <2>2. FlatBatch' = FlatBatch
    BY <2>1 DEF FlatBatch, Batch, Poll, Flatten, Decode
  <2>3. QED
    BY <2>1, <2>2, ReplayKept
<1>7. QED
  BY <1>1, <1>2, <1>3, <1>4, <1>5, <1>6 DEF Next, Job, JobNext

(* HOW_IT_WORKS.md, Problem 4, as far as it is true: in a life of the        *)
(* checkpoint, a batch that was merged and not committed is merged again     *)
(* after the failure and changes no column but the stamp of the merge; for   *)
(* any connector restarts, failures, batch size, clock and ties.             *)
THEOREM ReplayIsInvisible ==
    ASSUME RetentionCoversLag
    PROVE  Spec => ReplayChangesOnlyStamps
<1> DEFINE OnlyStamps ==
               (resets = 0 /\ phase = "ensured" /\ phase' = "written"
                    /\ \A p \in Partitions : offsets[p] <= applied[p])
                  => Contents(silver') = Contents(silver)
<1>1. Init => ConvInv
  BY InitConvInv
<1>2. ConvInv /\ [Next]_vars => ConvInv'
  BY ConvInvStep
<1>3. Init => ReplayInv
  <2> SUFFICES ASSUME Init PROVE ReplayInv
    OBVIOUS
  <2>1. applied = commits /\ commits = offsets /\ phase = "down" /\ offsets \in Offsets
    BY DEF Init, EngineInit, SilverInit, ZeroOffsets, Offsets
  <2>2. \A p \in Partitions : \A o \in 1..Len(topic[p]) : ~(o > offsets[p] /\ o <= offsets[p])
    BY <2>1 DEF Offsets
  <2>3. FlatBatch = {}
    BY <2>1, <2>2 DEF FlatBatch, Batch, Poll
  <2>4. AbsorbedBatch
    BY <2>3 DEF AbsorbedBatch, Deduplications
  <2>5. QED
    BY <2>1, <2>4 DEF ReplayInv, AppliedInv
<1>4. ConvInv /\ ReplayInv /\ [Next]_vars => ReplayInv'
  BY ReplayStep
<1>5. ConvInv /\ ReplayInv /\ [Next]_vars => OnlyStamps
  <2> SUFFICES ASSUME ConvInv, ReplayInv, [Next]_vars,
                      resets = 0, phase = "ensured", phase' = "written",
                      \A p \in Partitions : offsets[p] <= applied[p]
               PROVE  Contents(silver') = Contents(silver)
    OBVIOUS
  <2>1. MergeBatch
    BY DEF Next, Source, Job, JobNext, Engine, Start, PlanBatch, CommitBatch, Fail, ResetCheckpoint,
           EnsureTable, Retention, engineVars, vars
  <2>2. applied = offsets
    <3>1. CASE applied = commits
      <4>1. \A p \in Partitions : offsets[p] = applied[p]
        BY <3>1 DEF ConvInv, JobInv, CheckpointInv, TypeInv, EngineTypeOK, Offsets
      <4>2. offsets \in Offsets /\ applied \in Offsets
        BY DEF ConvInv, TypeInv, EngineTypeOK, SilverTypeOK
      <4>3. QED
        BY <4>1, <4>2 DEF Offsets
    <3>2. QED
      BY <3>1 DEF ReplayInv, AppliedInv
  <2>3. PICK winners \in Deduplications(FlatBatch) : silver' = Merge(silver, winners, Now)
    BY <2>1 DEF MergeBatch
  <2>4. \A w \in winners : w.pk # NULL => Absorbed(silver, w)
    BY <2>2 DEF ReplayInv, AbsorbedBatch
  <2>5. \A w \in winners : w.pk = NULL => w.op = NULL
    BY KeylessRows DEF ConvInv
  <2>6. QED
    BY <2>3, <2>4, <2>5, AbsorbedMergeIsIdempotent
<1>6. ConvInv /\ ReplayInv /\ [Next]_vars => [OnlyStamps]_vars
  BY <1>5
<1>7. QED
  BY <1>1, <1>2, <1>3, <1>4, <1>6, PTL DEF Spec, ReplayChangesOnlyStamps

-----------------------------------------------------------------------------
(* The order of the topic.  A new event of a key that is newer than all its  *)
(* others keeps the order.                                                   *)
LEMMA OrderAppends ==
    ASSUME SourceTypes, OrderInv, NEW k \in Keys, NEW v, Appends(k, v),
           v.lsn \in Nat, v.lsn <= pos', pos <= pos', pos' \in Nat,
           snapTodo' \subseteq snapTodo \ {k},
           \A i : IsEvent(k, i) => Event(k, i).lsn < v.lsn
    PROVE  OrderInv'
<1>1. \A j \in Keys : \A i : IsEvent(j, i)' <=> IsEvent(j, i) \/ (j = k /\ i = NextSlot(k))
  BY DEF Appends
<1>2. \A j \in Keys : \A i : IsEvent(j, i) => Event(j, i)' = Event(j, i)
  BY DEF Appends
<1>3. \A i : i = NextSlot(k) => Event(k, i)' = v
  BY DEF Appends
<1>4. \A j \in Keys : \A i : IsEvent(j, i) => Event(j, i).lsn \in Nat /\ i \in Slots(j)
  BY RowOfEvent DEF IsEvent
<1>5. \A i : IsEvent(k, i) => i < NextSlot(k)
  <2>1. Len(topic[PartitionOf[k]]) \in Nat
    BY TopicAssumption DEF SourceTypes, TopicTypeOK
  <2>2. QED
    BY <2>1 DEF IsEvent, Slots, NextSlot
<1>6. pos \in Nat /\ snapTodo \subseteq Keys
  BY DEF SourceTypes, CaptureTypeOK
<1>7. \A j \in snapTodo' : \A i \in Slots(j)' : ~IsEvent(j, i)'
  <2> SUFFICES ASSUME NEW j \in snapTodo', NEW i, IsEvent(j, i)'
               PROVE  FALSE
    OBVIOUS
  <2>1. j \in snapTodo /\ j # k /\ j \in Keys
    BY <1>6
  <2>2. IsEvent(j, i)
    BY <1>1, <2>1
  <2>3. QED
    BY <1>4, <2>1, <2>2 DEF OrderInv
<1>8. ASSUME NEW j \in Keys, NEW i, IsEvent(j, i)'
      PROVE  Event(j, i)'.lsn <= pos'
  <2>1. CASE IsEvent(j, i)
    <3>1. Event(j, i).lsn <= pos /\ Event(j, i).lsn \in Nat
      BY <1>4, <2>1 DEF OrderInv
    <3>2. QED
      BY <1>2, <1>6, <2>1, <3>1
  <2>2. CASE j = k /\ i = NextSlot(k)
    BY <1>3, <2>2
  <2>3. QED
    BY <1>1, <1>8, <2>1, <2>2
<1>9. ASSUME NEW j \in Keys, NEW a, NEW b, IsEvent(j, a)', IsEvent(j, b)', a < b
      PROVE  Event(j, a)'.lsn < Event(j, b)'.lsn
  <2>1. CASE IsEvent(j, a) /\ IsEvent(j, b)
    BY <1>2, <1>4, <1>9, <2>1 DEF OrderInv
  <2>2. CASE IsEvent(j, a) /\ j = k /\ b = NextSlot(k)
    BY <1>2, <1>3, <2>2
  <2>3. CASE j = k /\ a = NextSlot(k)
    <3>1. NextSlot(k) \in Nat
      BY TopicAssumption DEF SourceTypes, TopicTypeOK, NextSlot
    <3>2. b = NextSlot(k) \/ b < NextSlot(k)
      BY <1>1, <1>5, <1>9, <2>3
    <3>3. b \in Nat
      <4>1. CASE b = NextSlot(k)
        BY <3>1, <4>1
      <4>2. CASE IsEvent(k, b)
        BY <1>4, <4>2, TopicAssumption DEF Slots, SourceTypes, TopicTypeOK
      <4>3. QED
        BY <1>1, <1>9, <2>3, <4>1, <4>2
    <3>4. QED
      BY <1>9, <2>3, <3>1, <3>2, <3>3
  <2>4. QED
    BY <1>1, <1>9, <2>1, <2>2, <2>3
<1>10. QED
  BY <1>7, <1>8, <1>9 DEF OrderInv

(* The workload and the storing of source offsets touch neither the topic    *)
(* nor the connector's place.                                                *)
LEMMA OrderStep ==
    ASSUME MaxRewinds = 0, SourceTypes, SnapshotFirst, OrderInv, CaptureNext
    PROVE  OrderInv'
<1>0. /\ pos \in Nat /\ rewinds \in Nat /\ Len(wal) \in Nat /\ WalNumbered
      /\ snapTodo \subseteq Keys
  BY DEF SourceTypes, CaptureTypeOK
<1>1. CASE UNCHANGED <<topic, snapTodo, pos>>
  BY <1>1 DEF OrderInv, Slots, IsEvent, Event
<1>2. ASSUME NEW k \in Keys, SnapshotRow(k)
      PROVE  OrderInv'
  <2>1. /\ Appends(k, SnapshotEvent(k))
        /\ k \in snapTodo /\ snapTodo' = snapTodo \ {k} /\ pos' = pos
    BY <1>2, SnapshotAppends DEF SnapshotRow
  <2>2. SnapshotEvent(k).lsn = 0
    BY DEF SnapshotEvent
  <2>3. \A i : ~IsEvent(k, i)
    BY <2>1 DEF OrderInv, IsEvent
  <2>4. QED
    BY <1>0, <2>1, <2>2, <2>3, OrderAppends
<1>3. CASE Capture
  <2> DEFINE e == wal[pos + 1]
             k == EventKey(wal[pos + 1])
  <2>1. pos + 1 \in 1..Len(wal) /\ k \in Keys /\ Appends(k, e)
    BY <1>3, CaptureAppends
  <2>2. snapTodo = {} /\ snapTodo' = snapTodo /\ pos' = pos + 1
    BY <1>3 DEF Capture
  <2>3. e.lsn = pos + 1
    BY <1>0, <2>1 DEF WalNumbered
  <2>4. \A i : IsEvent(k, i) => Event(k, i).lsn < e.lsn
    <3> SUFFICES ASSUME NEW i, IsEvent(k, i) PROVE Event(k, i).lsn < e.lsn
      OBVIOUS
    <3>1. Event(k, i).lsn \in Nat
      BY <2>1, RowOfEvent
    <3>2. Event(k, i).lsn <= pos
      BY <2>1 DEF OrderInv, IsEvent
    <3>3. QED
      BY <1>0, <2>3, <3>1, <3>2
  <2> HIDE DEF e, k
  <2>5. QED
    BY <1>0, <2>1, <2>2, <2>3, <2>4, OrderAppends
<1>4. CASE Workload \/ FlushOffsets
  BY <1>1, <1>4 DEF Workload, InsertRow, UpdateRow, DeleteRow, Write, FlushOffsets, topicVars
<1>5. ~ConnectorRestart
  BY <1>0 DEF ConnectorRestart
<1>6. QED
  BY <1>2, <1>3, <1>4, <1>5 DEF CaptureNext

LEMMA TombstoneAppends ==
    ASSUME TopicTypeOK, TombstoneInv, NEW k \in Keys, NEW s \in Seq(Record), Produce(k, s),
           \A i \in 1..Len(s) : s[i].value = NULL =>
              /\ i > 1
              /\ s[i - 1].key = s[i].key
              /\ s[i - 1].value # NULL
              /\ s[i - 1].value.op = OP_DELETE
    PROVE  TombstoneInv'
<1> DEFINE Follows(p, i) ==
              topic[p][i].value = NULL =>
                 /\ i > 1
                 /\ topic[p][i - 1].key = topic[p][i].key
                 /\ topic[p][i - 1].value # NULL
                 /\ topic[p][i - 1].value.op = OP_DELETE
<1>1. /\ \A p \in Partitions :
            Len(topic'[p]) = IF p = PartitionOf[k] THEN Len(topic[p]) + Len(s) ELSE Len(topic[p])
      /\ \A p \in Partitions : \A i \in 1..Len(topic[p]) : topic'[p][i] = topic[p][i]
      /\ \A i \in 1..Len(s) : topic'[PartitionOf[k]][Len(topic[PartitionOf[k]]) + i] = s[i]
  BY ProduceExtends
<1>2. SUFFICES ASSUME NEW p \in Partitions, NEW i \in 1..Len(topic'[p]), topic'[p][i].value = NULL
               PROVE  /\ i > 1
                      /\ topic'[p][i - 1].key = topic'[p][i].key
                      /\ topic'[p][i - 1].value # NULL
                      /\ topic'[p][i - 1].value.op = OP_DELETE
  BY DEF TombstoneInv
<1>3. Len(topic[p]) \in Nat /\ Len(s) \in Nat
  BY DEF TopicTypeOK
<1>4. CASE i <= Len(topic[p])
  <2>1. i \in 1..Len(topic[p]) /\ topic'[p][i] = topic[p][i]
    BY <1>1, <1>3, <1>4
  <2>2. /\ i > 1
        /\ topic[p][i - 1].key = topic[p][i].key
        /\ topic[p][i - 1].value # NULL
        /\ topic[p][i - 1].value.op = OP_DELETE
    BY <1>2, <2>1 DEF TombstoneInv
  <2>3. i - 1 \in 1..Len(topic[p])
    BY <1>3, <2>1, <2>2
  <2>4. QED
    BY <1>1, <2>1, <2>2, <2>3
<1>5. CASE i > Len(topic[p])
  <2>1. p = PartitionOf[k] /\ i \in Int /\ i - Len(topic[p]) \in 1..Len(s)
    BY <1>1, <1>3, <1>5
  <2>2. PICK n \in 1..Len(s) : n = i - Len(topic[p])
    BY <2>1
  <2>3. i = Len(topic[p]) + n /\ topic'[p][i] = s[n]
    <3>1. i = Len(topic[p]) + n
      BY <1>3, <2>1, <2>2
    <3>2. topic'[p][Len(topic[p]) + n] = s[n]
      BY <1>1, <2>1
    <3>3. QED
      BY <3>1, <3>2
  <2>4. n > 1 /\ s[n - 1].key = s[n].key /\ s[n - 1].value # NULL /\ s[n - 1].value.op = OP_DELETE
    BY <1>2, <2>3
  <2>5. n - 1 \in 1..Len(s) /\ i - 1 = Len(topic[p]) + (n - 1)
    BY <1>3, <2>3, <2>4
  <2>6. topic'[p][i - 1] = s[n - 1]
    BY <1>1, <2>1, <2>5
  <2>7. QED
    BY <1>3, <2>3, <2>4, <2>6
<1>6. QED
  BY <1>3, <1>4, <1>5

(* tombstones.on.delete: the tombstone directly follows its delete.          *)
LEMMA TombstoneStep ==
    ASSUME SourceTypes, TombstoneInv, CaptureNext
    PROVE  TombstoneInv'
<1>0. TopicTypeOK
  BY DEF SourceTypes
<1>1. CASE UNCHANGED topicVars
  BY <1>1 DEF topicVars, TombstoneInv
<1>2. ASSUME NEW k \in Keys, SnapshotRow(k)
      PROVE  TombstoneInv'
  <2> DEFINE s == <<[key |-> k, value |-> SnapshotEvent(k)]>>
  <2>1. SnapshotEvent(k) \in Envelope /\ SnapshotEvent(k) # NULL
    BY SnapshotEventType, TopicAssumption
  <2>2. s \in Seq(Record) /\ Len(s) = 1 /\ s[1].value # NULL
    BY <2>1 DEF Record
  <2>3. Produce(k, s)
    BY <1>2 DEF SnapshotRow
  <2> HIDE DEF s
  <2>4. QED
    BY <1>0, <2>2, <2>3, TombstoneAppends
<1>3. CASE Capture
  <2> DEFINE e == wal[pos + 1]
             k == EventKey(e)
             c == [key |-> k, value |-> e]
             t == [key |-> k, value |-> NULL]
             s == IF e.op = OP_DELETE THEN <<c>> \o <<t>> ELSE <<c>>
  <2>1. e \in Envelope /\ k \in Keys
    BY <1>3, CaptureProduces
  <2>2. e # NULL
    BY <2>1, TopicAssumption
  <2>3. Produce(k, s)
    BY <1>3 DEF Capture
  <2>4. c \in Record /\ t \in Record
    BY <2>1 DEF Record
  <2> HIDE DEF e, k
  <2>5. s \in Seq(Record)
    BY <2>4
  <2>6. s[1] = c /\ \A i \in 1..Len(s) : i = 1 \/ (i = 2 /\ s[i] = t /\ e.op = OP_DELETE)
    BY <2>4
  <2> HIDE DEF s
  <2>7. \A i \in 1..Len(s) : s[i].value = NULL =>
            /\ i > 1
            /\ s[i - 1].key = s[i].key
            /\ s[i - 1].value # NULL
            /\ s[i - 1].value.op = OP_DELETE
    <3> SUFFICES ASSUME NEW i \in 1..Len(s), s[i].value = NULL
                 PROVE  /\ i > 1
                        /\ s[i - 1].key = s[i].key
                        /\ s[i - 1].value # NULL
                        /\ s[i - 1].value.op = OP_DELETE
      OBVIOUS
    <3>1. i # 1
      BY <2>2, <2>6
    <3>2. i = 2 /\ s[i] = t /\ s[i - 1] = c /\ e.op = OP_DELETE
      BY <2>6, <3>1
    <3>3. QED
      BY <2>2, <3>2
  <2>8. QED
    BY <1>0, <2>1, <2>3, <2>5, <2>7, TombstoneAppends
<1>4. CASE Workload \/ FlushOffsets \/ ConnectorRestart
  BY <1>1, <1>4 DEF Workload, InsertRow, UpdateRow, DeleteRow, Write, FlushOffsets, ConnectorRestart
<1>5. QED
  BY <1>2, <1>3, <1>4 DEF CaptureNext

-----------------------------------------------------------------------------
(* The merged prefix.  The checkpoint and what was merged are within the     *)
(* topic.                                                                    *)
LEMMA PrefixRange ==
    ASSUME TypeInv, CheckpointInv, AppliedInv, NEW k \in Keys
    PROVE  LET p == PartitionOf[k]
           IN  /\ p \in Partitions /\ Len(topic[p]) \in Nat
               /\ commits[p] \in Nat /\ offsets[p] \in Nat /\ applied[p] \in Nat
               /\ logStart[p] \in Nat
               /\ commits[p] <= applied[p] /\ applied[p] <= offsets[p]
               /\ offsets[p] <= Len(topic[p])
<1> DEFINE p == PartitionOf[k]
<1>1. p \in Partitions
  BY TopicAssumption
<1>2. /\ Len(topic[p]) \in Nat /\ logStart[p] \in Nat
      /\ commits[p] \in Nat /\ offsets[p] \in Nat /\ applied[p] \in Nat
  BY <1>1 DEF TypeInv, EngineTypeOK, SilverTypeOK, Offsets, SourceTypes, TopicTypeOK
<1>3. commits[p] <= offsets[p] /\ offsets[p] <= Len(topic[p])
  BY <1>1 DEF CheckpointInv
<1>4. applied[p] = commits[p] \/ applied[p] = offsets[p]
  BY DEF AppliedInv
<1>5. QED
  BY <1>1, <1>2, <1>3, <1>4

(* New events are beyond the merged prefix.                                  *)
LEMMA PrefixAppends ==
    ASSUME TypeInv, CheckpointInv, AppliedInv, PrefixInv,
           NEW k \in Keys, NEW v, Appends(k, v), UNCHANGED <<silver, applied>>
    PROVE  PrefixInv'
<1>1. \A j \in Keys : \A i : IsEvent(j, i)' <=> IsEvent(j, i) \/ (j = k /\ i = NextSlot(k))
  BY DEF Appends
<1>2. \A j \in Keys : \A i : IsEvent(j, i) => Event(j, i)' = Event(j, i)
  BY DEF Appends
<1>3. applied[PartitionOf[k]] < NextSlot(k) /\ NextSlot(k) \in Nat
  BY PrefixRange DEF NextSlot
<1>4. ASSUME NEW j \in Keys, NEW i \in Slots(j)', LastUpTo(applied[PartitionOf[j]], j, i)'
      PROVE  Shows(j, Event(j, i))'
  <2>1. /\ IsEvent(j, i)' /\ i <= applied[PartitionOf[j]]
        /\ \A m : IsEvent(j, m)' /\ m <= applied[PartitionOf[j]] => m <= i
    BY <1>4 DEF LastUpTo, IsEvent
  <2>2. IsEvent(j, i)
    <3>1. ~(j = k /\ i = NextSlot(k))
      BY <1>3, <2>1, PrefixRange
    <3>2. QED
      BY <1>1, <2>1, <3>1
  <2>3. LastUpTo(applied[PartitionOf[j]], j, i)
    BY <1>1, <2>1, <2>2 DEF LastUpTo
  <2>4. Shows(j, Event(j, i))
    BY <2>2, <2>3 DEF PrefixInv, IsEvent
  <2>5. Event(j, i)' = Event(j, i)
    BY <1>2, <2>2
  <2>6. QED
    BY <2>4, <2>5 DEF Shows
<1>5. ASSUME NEW t \in silver
      PROVE  \E i \in Slots(t.pk)' : /\ IsEvent(t.pk, i)'
                                     /\ i <= applied[PartitionOf[t.pk]]
                                     /\ t.source_lsn <= Event(t.pk, i)'.lsn
  <2>1. PICK j \in Keys : j = t.pk
    BY DEF TypeInv, SilverTypeOK, SilverRow
  <2>2. PICK i \in Slots(j) : /\ IsEvent(j, i)
                              /\ i <= applied[PartitionOf[j]]
                              /\ t.source_lsn <= Event(j, i).lsn
    BY <2>1 DEF PrefixInv
  <2>3. IsEvent(j, i)' /\ Event(j, i)' = Event(j, i)
    BY <1>1, <1>2, <2>2
  <2>4. i \in Slots(j)'
    BY <2>3 DEF IsEvent
  <2>5. QED
    BY <2>1, <2>2, <2>3, <2>4
<1>6. QED
  BY <1>4, <1>5 DEF PrefixInv

LEMMA PrefixKept ==
    ASSUME PrefixInv, UNCHANGED <<topic, silver, applied>>
    PROVE  PrefixInv'
BY DEF PrefixInv, LastUpTo, Shows, IsEvent, Event, Slots

(* Up to any point, the last event of a key is its newest.                   *)
LEMMA LastIsNewestUpTo ==
    ASSUME SourceTypes, OrderInv, NEW k \in Keys, NEW n, NEW i, LastUpTo(n, k, i),
           NEW j, IsEvent(k, j), j <= n
    PROVE  j <= i /\ Event(k, j).lsn <= Event(k, i).lsn
<1>1. /\ IsEvent(k, i) /\ i \in Slots(k) /\ j \in Slots(k) /\ j <= i
  BY DEF LastUpTo, IsEvent
<1>2. i \in Int /\ j \in Int
  BY <1>1 DEF Slots
<1>3. Event(k, j).lsn \in Nat /\ Event(k, i).lsn \in Nat
  BY <1>1, RowOfEvent
<1>4. j < i => Event(k, j).lsn < Event(k, i).lsn
  BY <1>1 DEF OrderInv
<1>5. QED
  BY <1>1, <1>2, <1>3, <1>4

(* A merge takes Silver from one prefix to the next, or leaves it at the one *)
(* it has.                                                                   *)
LEMMA PrefixMerges ==
    ASSUME ConvInv, AppliedInv, OrderInv, ExpiryInv, PrefixInv, MergeBatch
    PROVE  PrefixInv'
<1>0. TypeInv /\ SourceTypes /\ EngineTypeOK /\ CheckpointInv
  BY DEF ConvInv, JobInv, TypeInv
<1>1. applied' = offsets
  BY <1>0, AppliedIsPlanned
<1>2. UNCHANGED <<topic, logStart, offsets, commits>>
  BY DEF MergeBatch, topicVars
<1>3. PICK winners \in Deduplications(FlatBatch) : silver' = Merge(silver, winners, Now)
  BY DEF MergeBatch
<1>4. ASSUME NEW k \in Keys, NEW i \in Slots(k), LastUpTo(offsets[PartitionOf[k]], k, i)
      PROVE  Shows(k, Event(k, i))'
  <2> DEFINE p == PartitionOf[k]
  <2>1. /\ p \in Partitions
        /\ commits[p] \in Nat /\ offsets[p] \in Nat /\ applied[p] \in Nat /\ logStart[p] \in Nat
        /\ commits[p] <= applied[p] /\ applied[p] <= offsets[p]
        /\ logStart[p] <= commits[p]
    BY <1>0, PrefixRange DEF ExpiryInv
  <2>2. IsEvent(k, i) /\ i <= offsets[p] /\ i \in Int
    BY <1>4 DEF LastUpTo, Slots
  <2>3. \A j : IsEvent(k, j) => j \in Int
    BY DEF IsEvent, Slots
  <2>4. ASSUME NEW t \in silver, t.pk = k
        PROVE  t.source_lsn <= Event(k, i).lsn
    <3>1. PICK m \in Slots(k) : /\ IsEvent(k, m) /\ m <= applied[p]
                                /\ t.source_lsn <= Event(k, m).lsn
      BY <2>4 DEF PrefixInv
    <3>2. m <= offsets[p]
      BY <2>1, <2>3, <3>1
    <3>3. Event(k, m).lsn <= Event(k, i).lsn
      BY <1>0, <1>4, <3>1, <3>2, LastIsNewestUpTo
    <3>4. t.source_lsn \in Nat /\ Event(k, m).lsn \in Nat /\ Event(k, i).lsn \in Nat
      BY <1>0, <2>2, <3>1, RowOfEvent DEF TypeInv, SilverTypeOK, SilverRow
    <3>5. QED
      BY <3>1, <3>3, <3>4
  <2>5. ASSUME NEW j, IsEvent(k, j), InBatch(k, j)
        PROVE  InBatch(k, i) /\ Event(k, j).lsn <= Event(k, i).lsn
    <3>1. j > commits[p] /\ j > logStart[p] /\ j <= offsets[p] /\ j \in Int
      BY <2>3, <2>5 DEF InBatch
    <3>2. j <= i /\ Event(k, j).lsn <= Event(k, i).lsn
      BY <1>0, <1>4, <2>5, <3>1, LastIsNewestUpTo
    <3>3. QED
      BY <2>1, <2>2, <3>1, <3>2 DEF InBatch
  <2>6. CASE ~InBatch(k, i)
    <3>1. i <= applied[p]
      BY <2>1, <2>2, <2>6 DEF InBatch
    <3>2. \A j \in Slots(k) : IsEvent(k, j) /\ j <= applied[p] => j <= i
      BY <1>4, <2>1, <2>3 DEF LastUpTo
    <3>3. LastUpTo(applied[p], k, i)
      BY <2>2, <3>1, <3>2 DEF LastUpTo
    <3>4. Shows(k, Event(k, i))
      BY <3>3 DEF PrefixInv
    <3>5. QED
      BY <1>0, <1>2, <1>3, <2>2, <2>4, <2>5, <3>4, BatchShows DEF Shows, Event
  <2>7. CASE InBatch(k, i)
    BY <1>0, <1>2, <1>3, <2>2, <2>4, <2>5, <2>7, BatchShows DEF Shows, Event
  <2>8. QED
    BY <2>6, <2>7
<1>5. ASSUME NEW t \in silver'
      PROVE  \E i \in Slots(t.pk) : /\ IsEvent(t.pk, i)
                                    /\ i <= offsets[PartitionOf[t.pk]]
                                    /\ t.source_lsn <= Event(t.pk, i).lsn
  <2>1. CASE t \in silver
    <3>1. PICK k \in Keys : k = t.pk
      BY <1>0, <2>1 DEF TypeInv, SilverTypeOK, SilverRow
    <3>2. PICK i \in Slots(k) : /\ IsEvent(k, i)
                                /\ i <= applied[PartitionOf[k]]
                                /\ t.source_lsn <= Event(k, i).lsn
      BY <2>1, <3>1 DEF PrefixInv
    <3>3. i \in Int
      BY DEF Slots
    <3>4. i <= offsets[PartitionOf[k]]
      BY <1>0, <3>2, <3>3, PrefixRange
    <3>5. QED
      BY <3>1, <3>2, <3>4
  <2>2. CASE \E s \in Updates(silver, winners) \cup Inserts(silver, winners) :
                t = Persisted(s, Now)
    <3>1. PICK s \in Updates(silver, winners) \cup Inserts(silver, winners) :
             t = Persisted(s, Now)
      BY <2>2
    <3>2. s \in FlatBatch
      BY WinnersUnique DEF Updates, Inserts
    <3>3. s.pk # NULL \/ s.op # NULL
      BY DEF Updates, Inserts, Matches, IsNotDelete
    <3>4. PICK k \in Keys : k = s.pk
      BY <1>0, <3>2, <3>3, FlatBatchRows
    <3>5. PICK i \in Slots(k) : IsEvent(k, i) /\ InBatch(k, i) /\ s = RowOf(k, i)
      BY <1>0, <3>2, <3>3, <3>4, FlatBatchRows
    <3>6. s.source_lsn = Event(k, i).lsn /\ s.source_lsn \in Nat
      BY <1>0, <3>5, RowOfEvent
    <3>7. t.pk = k /\ t.source_lsn = s.source_lsn
      BY <3>1, <3>4 DEF Persisted
    <3>8. QED
      BY <3>5, <3>6, <3>7 DEF InBatch
  <2>3. QED
    BY <1>3, <2>1, <2>2, MergeRows
<1>6. \A k, i : /\ Slots(k)' = Slots(k) /\ Event(k, i)' = Event(k, i)
                /\ IsEvent(k, i)' <=> IsEvent(k, i)
  BY <1>2 DEF Slots, IsEvent, Event
<1>7. \A k \in Keys : \A i \in Slots(k) :
         LastUpTo(applied[PartitionOf[k]], k, i)' => Shows(k, Event(k, i))'
  BY <1>1, <1>4, <1>6 DEF LastUpTo
<1>8. QED
  BY <1>1, <1>5, <1>6, <1>7 DEF PrefixInv

LEMMA ReplicaStep ==
    ASSUME MaxRewinds = 0, MaxResets = 0, RetentionCoversLag,
           ConvInv, ReplayInv, ReplicaInv, [Next]_vars
    PROVE  ReplicaInv'
<1>0. /\ TypeInv /\ SourceTypes /\ CheckpointInv /\ AppliedInv /\ SnapshotFirst
      /\ resets = 0 /\ OrderInv /\ TombstoneInv /\ ExpiryInv /\ PrefixInv
  BY DEF ConvInv, JobInv, TypeInv, SourceInv, ReplicaInv, ReplayInv
<1>1. UNCHANGED <<topic, snapTodo, pos>> => OrderInv' /\ TombstoneInv'
  BY <1>0 DEF OrderInv, TombstoneInv, Slots, IsEvent, Event
<1>2. CASE Source
  <2>1. UNCHANGED <<logStart, commits, resets, silver, applied>> /\ CaptureNext
    BY <1>0, <1>2, SourceGrows DEF Source, engineVars, silverVars, TopicGrows
  <2>2. OrderInv' /\ TombstoneInv'
    BY <1>0, <2>1, OrderStep, TombstoneStep
  <2>3. ExpiryInv'
    BY <1>0, <2>1 DEF ExpiryInv
  <2>4. PrefixInv'
    <3>1. CASE UNCHANGED topicVars
      BY <1>0, <2>1, <3>1, PrefixKept DEF topicVars
    <3>2. CASE \E k \in Keys : \E v : Appends(k, v)
      <4>1. PICK k \in Keys : \E v : Appends(k, v)
        BY <3>2
      <4>2. PICK v : Appends(k, v)
        BY <4>1
      <4>3. QED
        BY <1>0, <2>1, <4>2, PrefixAppends
    <3>3. QED
      BY <1>0, <2>1, <3>1, <3>2, SourceAppends
  <2>5. QED
    BY <1>0, <2>1, <2>2, <2>3, <2>4 DEF ReplicaInv
<1>3. CASE MergeBatch /\ UNCHANGED captureVars
  <2>1. UNCHANGED <<topic, snapTodo, pos, logStart, commits, resets>>
    BY <1>3 DEF MergeBatch, captureVars, topicVars
  <2>2. PrefixInv'
    BY <1>0, <1>3, PrefixMerges
  <2>3. QED
    BY <1>0, <1>1, <2>1, <2>2 DEF ReplicaInv, ExpiryInv
<1>4. CASE (Engine \/ EnsureTable) /\ UNCHANGED captureVars
  <2>1. UNCHANGED <<topic, logStart, snapTodo, pos, silver, applied>>
    BY <1>4 DEF Engine, Start, PlanBatch, CommitBatch, Fail, ResetCheckpoint, EnsureTable,
                captureVars, silverVars, topicVars
  <2>2. \A p \in Partitions : /\ commits[p] \in Nat /\ offsets[p] \in Nat /\ logStart[p] \in Nat
                              /\ commits[p] <= offsets[p]
    BY <1>0 DEF CheckpointInv, TypeInv, EngineTypeOK, Offsets, TopicTypeOK, SourceTypes
  <2>3. ~ResetCheckpoint
    BY <1>0 DEF ResetCheckpoint
  <2>4. resets' = 0 /\ (commits' = commits \/ commits' = offsets)
    BY <1>0, <1>4, <2>3 DEF Engine, Start, PlanBatch, CommitBatch, Fail, EnsureTable
  <2>5. ExpiryInv'
    <3> SUFFICES ASSUME NEW p \in Partitions PROVE logStart[p] <= commits'[p]
      BY <2>1 DEF ExpiryInv
    <3>1. logStart[p] <= commits[p]
      BY <1>0 DEF ExpiryInv
    <3>2. QED
      BY <2>2, <2>4, <3>1
  <2>6. QED
    BY <1>0, <1>1, <2>1, <2>4, <2>5, PrefixKept DEF ReplicaInv
<1>5. CASE Retention
  <2>1. PICK p \in Partitions :
           /\ logStart[p] < commits[p]
           /\ logStart' = [logStart EXCEPT ![p] = @ + 1]
           /\ topic' = topic
    BY <1>5 DEF Retention, ExpireRecord
  <2>2. UNCHANGED <<snapTodo, pos, commits, resets, silver, applied>>
    BY <1>5 DEF Retention, captureVars, engineVars, silverVars
  <2>3. ExpiryInv'
    <3> SUFFICES ASSUME NEW q \in Partitions PROVE logStart'[q] <= commits[q]
      BY <2>2 DEF ExpiryInv
    <3>1. logStart'[q] = IF q = p THEN logStart[p] + 1 ELSE logStart[q]
      BY <1>0, <2>1 DEF SourceTypes, TopicTypeOK, Offsets
    <3>2. /\ logStart[q] <= commits[q] /\ logStart[q] \in Nat /\ commits[q] \in Nat
      BY <1>0 DEF ExpiryInv, TypeInv, EngineTypeOK, Offsets, SourceTypes, TopicTypeOK
    <3>3. QED
      BY <2>1, <3>1, <3>2
  <2>4. QED
    BY <1>0, <1>1, <2>1, <2>2, <2>3, PrefixKept DEF ReplicaInv
<1>6. CASE UNCHANGED vars
  <2>1. UNCHANGED <<topic, logStart, snapTodo, pos, commits, resets, silver, applied>>
    BY <1>6 DEF vars, topicVars, captureVars, engineVars, silverVars
  <2>2. QED
    BY <1>0, <1>1, <2>1, PrefixKept DEF ReplicaInv, ExpiryInv
<1>7. QED
  BY <1>2, <1>3, <1>4, <1>5, <1>6 DEF Next, Job, JobNext

LEMMA InitReplica ==
    ASSUME Init
    PROVE  ReplayInv /\ ReplicaInv
<1>1. \A p \in Partitions : Len(topic[p]) = 0 /\ logStart[p] = 0
  BY InitSource DEF Init
<1>2. applied = commits /\ commits = offsets /\ phase = "down" /\ resets = 0 /\ silver = {}
      /\ \A p \in Partitions : commits[p] = 0
  BY DEF Init, EngineInit, SilverInit, ZeroOffsets
<1>3. \A k \in Keys : \A i : i \notin Slots(k)
  BY <1>1, TopicAssumption DEF Slots
<1>4. AbsorbedBatch
  <2>1. FlatBatch = {}
    BY <1>1 DEF FlatBatch, Batch, Poll
  <2>2. QED
    BY <2>1 DEF AbsorbedBatch, Deduplications
<1>5. ReplayInv
  BY <1>2, <1>4 DEF ReplayInv, AppliedInv
<1>6. OrderInv
  BY <1>3 DEF OrderInv, Init, CaptureInit
<1>7. TombstoneInv /\ ExpiryInv
  BY <1>1, <1>2 DEF TombstoneInv, ExpiryInv
<1>8. PrefixInv
  BY <1>2, <1>3 DEF PrefixInv
<1>9. QED
  BY <1>2, <1>5, <1>6, <1>7, <1>8 DEF ReplicaInv

-----------------------------------------------------------------------------
(* What the merged prefix makes the view.                                    *)
LEMMA NoEventNoRow ==
    ASSUME PrefixInv, NEW k \in Keys,
           \A i : ~(IsEvent(k, i) /\ i <= applied[PartitionOf[k]])
    PROVE  SilverView[k] = NULL
<1>1. \A t \in silver : t.pk # k
  BY DEF PrefixInv
<1>2. QED
  BY <1>1 DEF SilverView, ViewOf

LEMMA LastEventIsShown ==
    ASSUME ConvInv, PrefixInv, NEW k \in Keys, NEW i, LastUpTo(applied[PartitionOf[k]], k, i)
    PROVE  SilverView[k] = VersionAfter(Event(k, i))
<1>1. IsEvent(k, i) /\ i \in Slots(k)
  BY DEF LastUpTo, IsEvent
<1>2. Shows(k, Event(k, i))
  BY <1>1 DEF PrefixInv
<1>3. QED
  BY <1>1, <1>2, ShownInView

(* A non-empty set of numbers up to n has a largest one.                     *)
LEMMA Largest ==
    ASSUME NEW n \in Nat, NEW S \in SUBSET (0..n), S # {}
    PROVE  \E m \in S : \A i \in S : i <= m
<1> DEFINE R == {ss \in Nat \X Nat : ss[1] < ss[2]}
           T == {n - i : i \in S}
<1>1. T \subseteq Nat
  <2>1. \A i \in S : n - i \in Nat
    OBVIOUS
  <2>2. QED
    BY <2>1
<1>2. T # {}
  OBVIOUS
<1>3. IsWellFoundedOn(R, Nat)
  BY NatLessThanWellFounded DEF OpToRel
<1>4. PICK x \in T : \A y \in T : ~(<<y, x>> \in R)
  <2> HIDE DEF T, R
  <2>1. QED
    BY <1>1, <1>2, <1>3, WFMin
<1>5. \A y \in T : ~(y < x)
  <2> HIDE DEF T
  <2>1. QED
    BY <1>1, <1>4
<1>6. PICK m \in S : x = n - m
  OBVIOUS
<1>7. ASSUME NEW i \in S
      PROVE  i <= m
  <2>1. ~(n - i < n - m)
    BY <1>5, <1>6
  <2>2. i \in Int /\ m \in Int
    OBVIOUS
  <2>3. QED
    BY <2>1, <2>2
<1>8. QED
  BY <1>7

(* If a key has an event in the merged prefix, it has a last one there.      *)
LEMMA LastExists ==
    ASSUME ConvInv, AppliedInv, NEW k \in Keys,
           NEW i, IsEvent(k, i), i <= applied[PartitionOf[k]]
    PROVE  \E m : LastUpTo(applied[PartitionOf[k]], k, m)
<1> DEFINE n == applied[PartitionOf[k]]
           E == {j \in 0..n : IsEvent(k, j)}
<1>1. n \in Nat
  BY PrefixRange DEF ConvInv, JobInv
<1>2. \A j : IsEvent(k, j) => j \in Nat
  BY TopicAssumption DEF IsEvent, Slots, ConvInv, TypeInv, SourceTypes, TopicTypeOK
<1>3. \A j : IsEvent(k, j) /\ j <= n => j \in E
  BY <1>1, <1>2
<1>4. PICK m \in E : \A j \in E : j <= m
  <2>1. E \in SUBSET (0..n) /\ E # {}
    BY <1>3
  <2> HIDE DEF E
  <2>2. QED
    BY <1>1, <2>1, Largest
<1>5. LastUpTo(n, k, m)
  BY <1>1, <1>3, <1>4 DEF LastUpTo
<1>6. QED
  BY <1>5

(* Truth is decided by source order: Silver shows the newest change of a key *)
(* among those merged.                                                       *)
LEMMA NewestIsShown ==
    ASSUME ConvInv, AppliedInv, ReplicaInv
    PROVE  OldChangeNeverWins
<1>0. SourceTypes /\ OrderInv /\ PrefixInv
  BY DEF ConvInv, TypeInv, ReplicaInv
<1> SUFFICES ASSUME NEW k \in Keys
             PROVE  IF EventsUpTo(applied, k) = {}
                    THEN SilverView[k] = NULL
                    ELSE \E e \in EventsUpTo(applied, k) :
                            /\ \A f \in EventsUpTo(applied, k) : f.lsn <= e.lsn
                            /\ SilverView[k] = VersionAfter(e)
  BY DEF OldChangeNeverWins
<1> DEFINE n == applied[PartitionOf[k]]
<1>1. n \in Nat /\ n <= Len(topic[PartitionOf[k]]) /\ Len(topic[PartitionOf[k]]) \in Nat
  BY PrefixRange DEF ConvInv, JobInv
<1>2. \A i : IsEvent(k, i) /\ i <= n <=>
             /\ i \in 1..n
             /\ topic[PartitionOf[k]][i].key = k
             /\ topic[PartitionOf[k]][i].value # NULL
  BY <1>1 DEF IsEvent, Slots, Event
<1>3. \A e : e \in EventsUpTo(applied, k) <=> \E i : IsEvent(k, i) /\ i <= n /\ e = Event(k, i)
  BY <1>2 DEF EventsUpTo, Event
<1>4. CASE EventsUpTo(applied, k) = {}
  <2>1. \A i : ~(IsEvent(k, i) /\ i <= n)
    BY <1>3, <1>4
  <2>2. QED
    BY <1>0, <1>4, <2>1, NoEventNoRow
<1>5. CASE EventsUpTo(applied, k) # {}
  <2>1. PICK i : IsEvent(k, i) /\ i <= n
    BY <1>3, <1>5
  <2>2. PICK m : LastUpTo(n, k, m)
    BY <2>1, LastExists
  <2>3. Event(k, m) \in EventsUpTo(applied, k)
    BY <1>3, <2>2 DEF LastUpTo
  <2>4. \A f \in EventsUpTo(applied, k) : f.lsn <= Event(k, m).lsn
    BY <1>0, <1>3, <2>2, LastIsNewestUpTo
  <2>5. SilverView[k] = VersionAfter(Event(k, m))
    BY <1>0, <2>2, LastEventIsShown
  <2>6. QED
    BY <1>5, <2>3, <2>4, <2>5
<1>6. QED
  BY <1>4, <1>5

(* HOW_IT_WORKS.md, Problem 2, for any keys, partitions, clock, batches and  *)
(* driver failures, as long as the connector delivers nothing twice and the  *)
(* checkpoint is kept: at every moment Silver shows of every key the newest  *)
(* of the changes that were merged.                                          *)
THEOREM SourceOrderDecides ==
    ASSUME MaxRewinds = 0, MaxResets = 0, RetentionCoversLag
    PROVE  Spec => []OldChangeNeverWins
<1>1. Init => ConvInv /\ ReplayInv /\ ReplicaInv
  BY InitConvInv, InitReplica
<1>2. ConvInv /\ ReplayInv /\ ReplicaInv /\ [Next]_vars => (ConvInv /\ ReplayInv /\ ReplicaInv)'
  BY ConvInvStep, ReplayStep, ReplicaStep
<1>3. ConvInv /\ ReplayInv /\ ReplicaInv => OldChangeNeverWins
  BY NewestIsShown DEF ReplayInv, ReplicaInv
<1>4. QED
  BY <1>1, <1>2, <1>3, PTL DEF Spec

-----------------------------------------------------------------------------
(* The log of the replica is the topic, its records reduced to what they     *)
(* make of their key.                                                        *)
ReplicaLog == [p \in Partitions |-> [i \in DOMAIN topic[p] |-> LogEntry(topic[p][i])]]

\* The value of a key in a prefix of a log.
ValueIn(log, n, k) ==
    LET p == PartitionOf[k]
        changes == {i \in 1..n[p] : log[p][i].key = k}
    IN  IF changes = {} THEN NULL
        ELSE log[p][CHOOSE i \in changes : \A j \in changes : j <= i].value

ReplicaView == [k \in Keys |-> Replica!ValueAt(applied, k)]

ShowsReplica == SilverView = ReplicaView

LEMMA LogType ==
    ASSUME TopicTypeOK, NEW p \in Partitions
    PROVE  /\ Len(ReplicaLog[p]) = Len(topic[p]) /\ Len(topic[p]) \in Nat
           /\ DOMAIN ReplicaLog[p] = 1..Len(topic[p])
           /\ \A i \in 1..Len(topic[p]) : /\ ReplicaLog[p][i] = LogEntry(topic[p][i])
                                          /\ ReplicaLog[p][i].key = topic[p][i].key
           /\ ReplicaLog[p] = [i \in 1..Len(topic[p]) |-> LogEntry(topic[p][i])]
<1>1. DOMAIN topic[p] = 1..Len(topic[p]) /\ Len(topic[p]) \in Nat
  BY DEF TopicTypeOK
<1>2. ReplicaLog[p] = [i \in 1..Len(topic[p]) |-> LogEntry(topic[p][i])]
  BY <1>1 DEF ReplicaLog
<1>3. Len(ReplicaLog[p]) = Len(topic[p])
  BY <1>1, <1>2
<1>4. \A i \in 1..Len(topic[p]) : /\ ReplicaLog[p][i] = LogEntry(topic[p][i])
                                  /\ ReplicaLog[p][i].key = topic[p][i].key
  BY <1>2 DEF LogEntry
<1>5. QED
  BY <1>1, <1>2, <1>3, <1>4

(* The value of the last record of a key in a prefix, when there is one.     *)
LEMMA ValueOfLast ==
    ASSUME TopicTypeOK, NEW k \in Keys, applied[PartitionOf[k]] \in Nat,
           applied[PartitionOf[k]] <= Len(topic[PartitionOf[k]])
    PROVE  LET p == PartitionOf[k]
               n == applied[p]
           IN  \/ /\ \A i \in 1..n : topic[p][i].key # k
                  /\ Replica!ValueAt(applied, k) = NULL
               \/ \E m \in 1..n :
                     /\ topic[p][m].key = k
                     /\ \A i \in 1..n : topic[p][i].key = k => i <= m
                     /\ Replica!ValueAt(applied, k) = LogEntry(topic[p][m]).value
<1> DEFINE p == PartitionOf[k]
           n == applied[p]
           C == {i \in 1..n : ReplicaLog[p][i].key = k}
<1>1. p \in Partitions /\ n \in Nat /\ n <= Len(topic[p]) /\ Len(topic[p]) \in Nat
  BY TopicAssumption, LogType
<1>2. Replica!ValueAt(applied, k) =
         IF C = {} THEN NULL
         ELSE ReplicaLog[p][CHOOSE i \in C : \A j \in C : j <= i].value
  BY DEF Replica!ValueAt, ReplicaLog
<1>3. \A i \in 1..n : /\ ReplicaLog[p][i] = LogEntry(topic[p][i])
                      /\ i \in C <=> topic[p][i].key = k
  <2> SUFFICES ASSUME NEW i \in 1..n
               PROVE  /\ ReplicaLog[p][i] = LogEntry(topic[p][i])
                      /\ i \in C <=> topic[p][i].key = k
    OBVIOUS
  <2>1. i \in 1..Len(topic[p])
    BY <1>1
  <2>2. ReplicaLog[p][i] = LogEntry(topic[p][i]) /\ ReplicaLog[p][i].key = topic[p][i].key
    BY <1>1, <2>1, LogType
  <2>3. QED
    BY <2>2
<1>4. C \in SUBSET (0..n) /\ C \subseteq 1..n
  BY <1>1
<1> HIDE DEF C
<1>5. CASE C = {}
  BY <1>2, <1>3, <1>5
<1>6. CASE C # {}
  <2>1. PICK m \in C : \A j \in C : j <= m
    BY <1>1, <1>4, <1>6, Largest
  <2>2. \A i \in C : (\A j \in C : j <= i) => i = m
    BY <1>4, <2>1
  <2>3. (CHOOSE i \in C : \A j \in C : j <= i) = m
    BY <2>1, <2>2
  <2>4. Replica!ValueAt(applied, k) = LogEntry(topic[p][m]).value
    BY <1>2, <1>3, <1>4, <1>6, <2>3
  <2>5. m \in 1..n /\ topic[p][m].key = k /\ \A i \in 1..n : topic[p][i].key = k => i <= m
    BY <1>3, <1>4, <2>1
  <2>6. QED
    BY <2>4, <2>5
<1>7. QED
  BY <1>5, <1>6

(* Silver is the replica: it shows what the merged prefix describes, the     *)
(* tombstones in it included.                                                *)
LEMMA ViewIsReplica ==
    ASSUME ConvInv, AppliedInv, ReplicaInv
    PROVE  ShowsReplica
<1>0. SourceTypes /\ TopicTypeOK /\ OrderInv /\ PrefixInv /\ TombstoneInv
  BY DEF ConvInv, TypeInv, SourceTypes, ReplicaInv
<1>1. ASSUME NEW k \in Keys
      PROVE  SilverView[k] = Replica!ValueAt(applied, k)
  <2> DEFINE p == PartitionOf[k]
             n == applied[p]
  <2>1. p \in Partitions /\ n \in Nat /\ n <= Len(topic[p]) /\ Len(topic[p]) \in Nat
    BY PrefixRange DEF ConvInv, JobInv
  <2>2. \A i : IsEvent(k, i) /\ i <= n <=> i \in 1..n /\ topic[p][i].key = k /\ topic[p][i].value # NULL
    BY <2>1 DEF IsEvent, Slots, Event
  <2>3. CASE /\ \A i \in 1..n : topic[p][i].key # k
             /\ Replica!ValueAt(applied, k) = NULL
    BY <1>0, <2>2, <2>3, NoEventNoRow
  <2>4. ASSUME NEW m \in 1..n,
               topic[p][m].key = k,
               \A i \in 1..n : topic[p][i].key = k => i <= m,
               Replica!ValueAt(applied, k) = LogEntry(topic[p][m]).value
        PROVE  SilverView[k] = Replica!ValueAt(applied, k)
    <3>1. CASE topic[p][m].value # NULL
      <4>1. IsEvent(k, m) /\ m <= n
        BY <2>2, <2>4, <3>1
      <4>2. LastUpTo(n, k, m)
        BY <2>2, <2>4, <4>1 DEF LastUpTo
      <4>3. SilverView[k] = VersionAfter(topic[p][m].value)
        BY <1>0, <4>2, LastEventIsShown DEF Event
      <4>4. QED
        BY <2>4, <3>1, <4>3 DEF LogEntry
    <3>2. CASE topic[p][m].value = NULL
      <4>1. m \in 1..Len(topic[p]) /\ m \in Int
        BY <2>1
      <4>2. /\ m > 1 /\ topic[p][m - 1].key = k
            /\ topic[p][m - 1].value # NULL /\ topic[p][m - 1].value.op = OP_DELETE
        BY <1>0, <2>1, <2>4, <3>2, <4>1 DEF TombstoneInv
      <4>3. m - 1 \in 1..n
        BY <2>1, <4>1, <4>2
      <4>4. IsEvent(k, m - 1) /\ m - 1 <= n
        BY <2>2, <4>2, <4>3
      <4>5. \A j \in Slots(k) : IsEvent(k, j) /\ j <= n => j <= m - 1
        <5> SUFFICES ASSUME NEW j, IsEvent(k, j), j <= n PROVE j <= m - 1
          OBVIOUS
        <5>1. j \in 1..n /\ j <= m /\ j # m
          BY <2>2, <2>4, <3>2
        <5>2. QED
          BY <2>1, <4>1, <5>1
      <4>6. LastUpTo(n, k, m - 1)
        BY <4>4, <4>5 DEF LastUpTo
      <4>7. SilverView[k] = VersionAfter(Event(k, m - 1))
        BY <1>0, <4>6, LastEventIsShown
      <4>8. VersionAfter(Event(k, m - 1)) = NULL
        BY <1>0, <4>2, <4>4, RowOfEvent DEF Event, WellFormed, VersionAfter
      <4>9. QED
        BY <2>4, <3>2, <4>7, <4>8 DEF LogEntry
    <3>3. QED
      BY <3>1, <3>2
  <2>5. QED
    BY <1>0, <2>1, <2>3, <2>4, ValueOfLast
<1>2. SilverView = [k \in Keys |-> SilverView[k]]
  BY DEF SilverView, ViewOf
<1>3. QED
  BY <1>1, <1>2 DEF ShowsReplica, ReplicaView

(* The source and the connector append to one partition or leave the topic.  *)
LEMMA SourceProduces ==
    ASSUME SourceTypes, CaptureNext
    PROVE  \/ topic' = topic
           \/ \E k \in Keys : \E s \in Seq(Record) : Produce(k, s) /\ Len(s) >= 1
<1>1. ASSUME NEW k \in Keys, SnapshotRow(k)
      PROVE  \E s \in Seq(Record) : Produce(k, s) /\ Len(s) >= 1
  <2> DEFINE r == [key |-> k, value |-> SnapshotEvent(k)]
             new == <<r>>
  <2>1. r \in Record
    BY SnapshotEventType DEF Record
  <2>2. Produce(k, new)
    BY <1>1 DEF SnapshotRow
  <2> HIDE DEF r
  <2>3. new \in Seq(Record) /\ Len(new) = 1
    BY <2>1
  <2> HIDE DEF new
  <2>4. QED
    BY <2>2, <2>3
<1>2. Capture => \E k \in Keys : \E s \in Seq(Record) : Produce(k, s) /\ Len(s) >= 1
  BY CaptureProduces
<1>3. Workload \/ FlushOffsets \/ ConnectorRestart => topic' = topic
  BY DEF Workload, InsertRow, UpdateRow, DeleteRow, Write, FlushOffsets, ConnectorRestart, topicVars
<1>4. QED
  BY <1>1, <1>2, <1>3 DEF CaptureNext

(* An append of the producer is a growth of the replica's log.               *)
LEMMA ProduceGrows ==
    ASSUME TopicTypeOK, NEW k \in Keys, NEW s \in Seq(Record), Produce(k, s), Len(s) >= 1,
           UNCHANGED <<silver, applied>>
    PROVE  Replica!Grow
<1> DEFINE p == PartitionOf[k]
           old == ReplicaLog
           new == ReplicaLog'
<1>1. p \in Partitions /\ Len(s) \in Nat /\ TopicTypeOK'
  BY TopicAssumption, ProduceExtends
<1>2. /\ Len(topic'[p]) = Len(topic[p]) + Len(s)
      /\ \A i \in 1..Len(topic[p]) : topic'[p][i] = topic[p][i]
      /\ \A q \in Partitions \ {p} : topic'[q] = topic[q]
  <2>1. \A q \in Partitions \ {p} : topic'[q] = topic[q]
    BY <1>1 DEF Produce, TopicTypeOK
  <2>2. QED
    BY <1>1, <2>1, ProduceExtends
<1>3. /\ Len(old[p]) = Len(topic[p]) /\ Len(topic[p]) \in Nat
      /\ old[p] = [i \in 1..Len(topic[p]) |-> LogEntry(topic[p][i])]
  BY <1>1, LogType
<1>4. /\ DOMAIN topic'[p] = 1..Len(topic'[p])
      /\ new[p] = [i \in DOMAIN topic'[p] |-> LogEntry(topic'[p][i])]
  <2>1. DOMAIN topic'[p] = 1..Len(topic'[p])
    BY <1>1 DEF TopicTypeOK
  <2>2. new = [q \in Partitions |-> [i \in DOMAIN topic'[q] |-> LogEntry(topic'[q][i])]]
    BY DEF ReplicaLog, LogEntry, VersionAfter
  <2> HIDE DEF p
  <2>3. QED
    BY <1>1, <2>1, <2>2
<1>5. Len(new[p]) = Len(topic[p]) + Len(s)
  BY <1>1, <1>2, <1>3, <1>4
<1>6. \A i \in 1..Len(topic[p]) : new[p][i] = old[p][i]
  BY <1>1, <1>2, <1>3, <1>4
<1>7. SubSeq(new[p], 1, Len(old[p])) = old[p]
  <2>1. SubSeq(new[p], 1, Len(old[p])) = [i \in 1..Len(topic[p]) |-> new[p][i]]
    BY <1>1, <1>2, <1>3, <1>4, <1>5
  <2>2. QED
    BY <1>3, <1>6, <2>1
<1>8. \A q \in Partitions \ {p} : new[q] = old[q]
  BY <1>2 DEF ReplicaLog, LogEntry, VersionAfter
<1>9. new = [old EXCEPT ![p] = new[p]]
  <2>1. DOMAIN new = Partitions /\ DOMAIN old = Partitions
    BY DEF ReplicaLog
  <2>2. new = [q \in Partitions |-> new[q]] /\ old = [q \in Partitions |-> old[q]]
    BY DEF ReplicaLog
  <2> HIDE DEF new, old
  <2>3. QED
    BY <1>8, <2>1, <2>2
<1>10. SilverView' = SilverView
  BY DEF SilverView, ViewOf
<1>11. Len(new[p]) > Len(old[p])
  BY <1>1, <1>3, <1>5
<1>12. QED
  BY <1>1, <1>7, <1>9, <1>10, <1>11 DEF Replica!Grow, ReplicaLog

(* A merge applies the records of its batch, or repeats what was applied.    *)
LEMMA MergeApplies ==
    ASSUME TypeInv, CheckpointInv, AppliedInv, ShowsReplica, ShowsReplica', MergeBatch
    PROVE  [Replica!Next]_Replica!vars
<1>1. topic' = topic /\ applied' = offsets
  BY AppliedIsPlanned DEF MergeBatch, topicVars
<1>2. \A p \in Partitions : /\ applied[p] \in Nat /\ offsets[p] \in Nat /\ Len(topic[p]) \in Nat
                            /\ applied[p] <= offsets[p] /\ offsets[p] <= Len(topic[p])
  <2> SUFFICES ASSUME NEW p \in Partitions
               PROVE  /\ applied[p] \in Nat /\ offsets[p] \in Nat /\ Len(topic[p]) \in Nat
                      /\ applied[p] <= offsets[p] /\ offsets[p] <= Len(topic[p])
    OBVIOUS
  <2>1. /\ applied[p] \in Nat /\ offsets[p] \in Nat /\ commits[p] \in Nat /\ Len(topic[p]) \in Nat
    BY DEF TypeInv, EngineTypeOK, SilverTypeOK, Offsets, SourceTypes, TopicTypeOK
  <2>2. commits[p] <= offsets[p] /\ offsets[p] <= Len(topic[p])
    BY DEF CheckpointInv
  <2>3. applied[p] = commits[p] \/ applied[p] = offsets[p]
    BY DEF AppliedInv
  <2>4. QED
    BY <2>1, <2>2, <2>3
<1>3. ReplicaLog' = ReplicaLog
  BY <1>1 DEF ReplicaLog, LogEntry, VersionAfter
<1>4. SilverView' = [k \in Keys |-> Replica!ValueAt(applied', k)]
  <2>1. \A k \in Keys : Replica!ValueAt(applied', k) = ValueIn(ReplicaLog, applied', k)
    BY DEF Replica!ValueAt, ValueIn, ReplicaLog
  <2>2. \A k \in Keys : Replica!ValueAt(applied, k)' = ValueIn(ReplicaLog', applied', k)
    BY DEF Replica!ValueAt, ValueIn, ReplicaLog, LogEntry, VersionAfter
  <2>3. SilverView' = [k \in Keys |-> Replica!ValueAt(applied, k)']
    BY DEF ShowsReplica, ReplicaView
  <2>4. QED
    BY <1>3, <2>1, <2>2, <2>3
<1>5. CASE applied' = applied
  <2>1. SilverView' = SilverView
    BY <1>4, <1>5 DEF ShowsReplica, ReplicaView
  <2>2. QED
    BY <1>3, <1>5, <2>1 DEF Replica!vars, ReplicaLog
<1>6. CASE applied' # applied
  <2>1. \A p \in Partitions : applied'[p] \in applied[p]..Len(ReplicaLog[p])
    <3>1. \A p \in Partitions : Len(ReplicaLog[p]) = Len(topic[p])
      BY LogType DEF TypeInv, SourceTypes
    <3>2. QED
      BY <1>1, <1>2, <3>1
  <2>2. Replica!Apply
    BY <1>3, <1>4, <1>6, <2>1 DEF Replica!Apply, ReplicaLog
  <2>3. QED
    BY <2>2 DEF Replica!Next
<1>7. QED
  BY <1>5, <1>6

LEMMA ReplicaStutters ==
    ASSUME UNCHANGED <<topic, silver, applied>>
    PROVE  [Replica!Next]_Replica!vars
<1>1. SilverView' = SilverView
  BY DEF SilverView, ViewOf
<1>2. ReplicaLog' = ReplicaLog
  BY DEF ReplicaLog, LogEntry, VersionAfter
<1>3. QED
  BY <1>1, <1>2 DEF Replica!vars, ReplicaLog

LEMMA InitIsReplica ==
    ASSUME Init
    PROVE  Replica!Init
<1>1. /\ topic = [p \in Partitions |-> <<>>]
      /\ applied = [p \in Partitions |-> 0]
      /\ silver = {}
  BY DEF Init, TopicInit, SilverInit, ZeroOffsets
<1>2. SilverView = [k \in Keys |-> NULL]
  BY <1>1 DEF SilverView, ViewOf
<1>3. \A p \in Partitions : ReplicaLog[p] = << >>
  BY <1>1 DEF ReplicaLog
<1>4. ReplicaLog = [p \in Partitions |-> << >>]
  BY <1>3 DEF ReplicaLog
<1>5. QED
  BY <1>1, <1>2, <1>4 DEF Replica!Init, ReplicaLog

(* The Silver job implements the exactly-once replica, for any keys,         *)
(* partitions, batches, clock, failures of the driver and expiring records,  *)
(* as long as the connector delivers nothing twice and the checkpoint is     *)
(* kept: what it shows is always the state that a prefix of the topic        *)
(* describes, and a driver that fails and merges a batch again is never      *)
(* seen to go back or to apply anything twice.                               *)
THEOREM ImplementsReplica ==
    ASSUME MaxRewinds = 0, MaxResets = 0, RetentionCoversLag
    PROVE  Spec => ImplementsExactlyOnce
<1>1. Init => ConvInv /\ ReplayInv /\ ReplicaInv
  BY InitConvInv, InitReplica
<1>2. ConvInv /\ ReplayInv /\ ReplicaInv /\ [Next]_vars => (ConvInv /\ ReplayInv /\ ReplicaInv)'
  BY ConvInvStep, ReplayStep, ReplicaStep
<1>3. ConvInv /\ ReplayInv /\ ReplicaInv => ShowsReplica
  BY ViewIsReplica DEF ReplayInv, ReplicaInv
<1>4. Init => Replica!Init
  BY InitIsReplica
<1>5. /\ ConvInv /\ ReplayInv /\ ReplicaInv /\ ShowsReplica /\ ShowsReplica'
      /\ [Next]_vars
      => [Replica!Next]_Replica!vars
  <2> SUFFICES ASSUME ConvInv, ReplayInv, ReplicaInv, ShowsReplica, ShowsReplica', [Next]_vars
               PROVE  [Replica!Next]_Replica!vars
    OBVIOUS
  <2>1. /\ TypeInv /\ SourceTypes /\ TopicTypeOK /\ CheckpointInv /\ AppliedInv
    BY DEF ConvInv, JobInv, TypeInv, SourceTypes, ReplayInv, ReplicaInv
  <2>2. CASE Source
    <3>1. CaptureNext /\ UNCHANGED <<silver, applied>>
      BY <2>2 DEF Source, silverVars
    <3>2. CASE topic' = topic
      BY <3>1, <3>2, ReplicaStutters
    <3>3. CASE \E k \in Keys : \E s \in Seq(Record) : Produce(k, s) /\ Len(s) >= 1
      BY <2>1, <3>1, <3>3, ProduceGrows DEF Replica!Next
    <3>4. QED
      BY <2>1, <3>1, <3>2, <3>3, SourceProduces
  <2>3. CASE MergeBatch
    BY <2>1, <2>3, MergeApplies
  <2>4. CASE Engine \/ EnsureTable \/ Retention \/ UNCHANGED vars
    <3>1. UNCHANGED <<topic, silver, applied>>
      BY <2>4 DEF Engine, Start, PlanBatch, CommitBatch, Fail, ResetCheckpoint, EnsureTable,
                  Retention, ExpireRecord, silverVars, topicVars, vars
    <3>2. QED
      BY <3>1, ReplicaStutters
  <2>5. QED
    BY <2>2, <2>3, <2>4 DEF Next, Job, JobNext
<1>6. QED
  BY <1>1, <1>2, <1>3, <1>4, <1>5, PTL DEF Spec, ImplementsExactlyOnce, Replica!Spec
=============================================================================
