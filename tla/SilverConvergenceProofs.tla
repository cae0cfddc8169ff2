----------------------- MODULE SilverConvergenceProofs -----------------------
(* The theorem that Silver mirrors the source whenever it has caught up, and *)
(* the inductive invariant it rests on: ConvergenceInv, whose source side is *)
(* kept by the workload and the connector and whose job side is kept by the  *)
(* engine, the MERGE and a retention that waits for the job.                 *)
EXTENDS SilverPipelineProofs

-----------------------------------------------------------------------------
(* The job's side of the convergence invariant.                              *)
RowsHaveEvents ==
    \A t \in silver : \E i \in Slots(t.pk) :
        IsEvent(t.pk, i) /\ t.source_lsn <= Event(t.pk, i).lsn

MergedIsShown ==
    \A k \in Keys : \A i \in Slots(k) :
        /\ IsLast(k, i)
        /\ IsNewest(k, i)
        /\ i <= Done[PartitionOf[k]] \/ i <= logStart[PartitionOf[k]]
        => Shows(k, Event(k, i))

JobInv == CheckpointInv /\ OneRowPerKey /\ RowsHaveEvents /\ MergedIsShown

(* The named parts are the conjuncts of SilverInv.                           *)
LEMMA SilverInvParts == SilverInv <=> OneRowPerKey /\ RowsHaveEvents /\ MergedIsShown
BY DEF SilverInv, RowsHaveEvents, MergedIsShown

(* A new event does not disturb the job's side: it is beyond everything that *)
(* was planned, and it is the last event of its key.                         *)
LEMMA AppendJobInv ==
    ASSUME TypeInv, JobInv, NEW k \in Keys, NEW v, Appends(k, v),
           UNCHANGED <<engineVars, silverVars>>
    PROVE  JobInv'
<1>0. /\ UNCHANGED <<phase, offsets, commits, silver, logStart>>
      /\ \A p \in Partitions : Len(topic[p]) \in Nat
      /\ \A p \in Partitions : offsets[p] \in Nat /\ commits[p] \in Nat /\ logStart[p] \in Nat
  BY DEF engineVars, silverVars, Appends, TypeInv, SourceTypes, TopicTypeOK, EngineTypeOK, Offsets
<1>1. CheckpointInv'
  <2>1. \A p \in Partitions : Len(topic'[p]) \in Nat /\ Len(topic'[p]) >= Len(topic[p])
    BY DEF Appends
  <2>2. QED
    BY <1>0, <2>1 DEF JobInv, CheckpointInv
<1>2. OneRowPerKey'
  BY <1>0 DEF JobInv, OneRowPerKey
<1>3. RowsHaveEvents'
  <2> SUFFICES ASSUME NEW t \in silver
               PROVE  \E i \in Slots(t.pk)' : IsEvent(t.pk, i)' /\ t.source_lsn <= Event(t.pk, i)'.lsn
    BY <1>0 DEF RowsHaveEvents
  <2>1. PICK j \in Keys : j = t.pk
    BY DEF TypeInv, SilverTypeOK, SilverRow
  <2>2. PICK i \in Slots(j) : IsEvent(j, i) /\ t.source_lsn <= Event(j, i).lsn
    BY <2>1 DEF JobInv, RowsHaveEvents
  <2>3. IsEvent(j, i)' /\ Event(j, i)' = Event(j, i)
    BY <2>1, <2>2 DEF Appends
  <2>4. i \in Slots(j)'
    BY <2>3 DEF IsEvent
  <2>5. QED
    BY <2>1, <2>2, <2>3, <2>4
<1>4. MergedIsShown'
  <2> SUFFICES ASSUME NEW j \in Keys, NEW i \in Slots(j)',
                      IsLast(j, i)', IsNewest(j, i)',
                      \/ i <= Done'[PartitionOf[j]]
                      \/ i <= logStart'[PartitionOf[j]]
               PROVE  Shows(j, Event(j, i))'
    BY DEF MergedIsShown
  <2> DEFINE p == PartitionOf[j]
  <2>1. p \in Partitions /\ Done' = Done
    BY <1>0, TopicAssumption DEF Done
  <2>2. Done[p] <= Len(topic[p]) /\ logStart[p] <= Len(topic[p]) /\ Done[p] \in Nat
    BY <1>0, <2>1 DEF Done, JobInv, CheckpointInv
  <2>3. i \in Nat /\ i <= Len(topic[p])
    BY <1>0, <2>1, <2>2 DEF Slots
  <2>4. i # NextSlot(j)
    BY <1>0, <2>1, <2>3 DEF NextSlot
  <2>5. IsEvent(j, i)
    BY <2>4, LastAndNewest DEF Appends
  <2>6. \A m : IsEvent(j, m) => IsEvent(j, m)' /\ Event(j, m)' = Event(j, m)
    BY DEF Appends
  <2>7. IsLast(j, i) /\ IsNewest(j, i)
    BY <2>5, <2>6, LastAndNewest
  <2>8. Shows(j, Event(j, i))
    BY <1>0, <2>1, <2>5, <2>7 DEF JobInv, MergedIsShown, IsEvent
  <2>9. Event(j, i)' = Event(j, i)
    BY <2>5, <2>6
  <2>10. QED
    BY <1>0, <2>8, <2>9 DEF Shows
<1>5. QED
  BY <1>1, <1>2, <1>3, <1>4 DEF JobInv

(* Steps of the job that touch neither the topic nor the rows of Silver, and *)
(* after which no more counts as merged than before.                         *)
LEMMA FrameJobInv ==
    ASSUME TypeInv, JobInv, topic' = topic, logStart' = logStart, silver' = silver,
           CheckpointInv',
           \A p \in Partitions : Done'[p] \in Nat /\ (Done'[p] <= Done[p] \/ Done'[p] = 0)
    PROVE  JobInv'
<1>1. OneRowPerKey' /\ RowsHaveEvents'
  BY DEF JobInv, OneRowPerKey, RowsHaveEvents, IsEvent, Event, Slots
<1>2. MergedIsShown'
  <2> SUFFICES ASSUME NEW j \in Keys, NEW i \in Slots(j), IsLast(j, i), IsNewest(j, i),
                      \/ i <= Done'[PartitionOf[j]]
                      \/ i <= logStart[PartitionOf[j]]
               PROVE  Shows(j, Event(j, i))
    BY DEF MergedIsShown, IsLast, IsNewest, IsEvent, Event, Slots, Shows
  <2>1. PartitionOf[j] \in Partitions
    BY TopicAssumption
  <2>2. i \in Nat /\ i >= 1
    BY <2>1 DEF Slots, TypeInv, SourceTypes, TopicTypeOK
  <2>3. Done[PartitionOf[j]] \in Nat
    BY <2>1 DEF Done, TypeInv, EngineTypeOK, Offsets
  <2>4. i <= Done[PartitionOf[j]] \/ i <= logStart[PartitionOf[j]]
    BY <2>1, <2>2, <2>3
  <2>5. QED
    BY <2>4 DEF JobInv, MergedIsShown
<1>3. QED
  BY <1>1, <1>2 DEF JobInv

(* The merge of a batch: a key whose newest event of the batch is no older   *)
(* than its row comes to show that event, and a key with nothing in the      *)
(* batch shows what it did.                                                  *)
LEMMA BatchShows ==
    ASSUME TypeInv,
           NEW winners \in Deduplications(FlatBatch),
           silver' = Merge(silver, winners, Now),
           NEW k \in Keys, NEW i \in Slots(k), IsEvent(k, i),
           \A t \in silver : t.pk = k => t.source_lsn <= Event(k, i).lsn,
           \A j : IsEvent(k, j) /\ InBatch(k, j) =>
                     InBatch(k, i) /\ Event(k, j).lsn <= Event(k, i).lsn,
           InBatch(k, i) \/ Shows(k, Event(k, i))
    PROVE  IF Event(k, i).op = OP_DELETE
           THEN \A t \in silver' : t.pk # k
           ELSE \E t \in silver' : t.pk = k /\ t.version = Event(k, i).after.version
<1> DEFINE p == PartitionOf[k]
           e == Event(k, i)
<1>0. /\ p \in Partitions /\ i \in Nat
      /\ offsets[p] \in Nat /\ commits[p] \in Nat /\ logStart[p] \in Nat
      /\ k # NULL
  BY TopicAssumption DEF TypeInv, EngineTypeOK, SourceTypes, TopicTypeOK, Offsets, Slots
<1>1. /\ winners \subseteq FlatBatch
      /\ UniqueKey(winners)
      /\ \A f \in FlatBatch : \E w \in winners : w.pk = f.pk /\ RanksFirst(w, f)
  BY WinnersUnique
<1>2. \A j : IsEvent(k, j) /\ InBatch(k, j) => Event(k, j).lsn <= e.lsn
  OBVIOUS
<1>3. \A w \in winners : w.pk = k =>
         \E j \in Slots(k) : IsEvent(k, j) /\ InBatch(k, j) /\ w = RowOf(k, j)
  BY <1>0, <1>1, FlatBatchRows DEF TypeInv
<1>4. CASE InBatch(k, i)
  <2> DEFINE f == RowOf(k, i)
  <2>1. /\ f.pk = k /\ f.source_lsn = e.lsn /\ f.op = e.op /\ e.lsn \in Nat
        /\ f.op \in Ops /\ e \in Envelope /\ e.lsn # NULL
    BY RowOfEvent DEF TypeInv
  <2>2. f \in FlatBatch
    BY <1>4, EventsInBatch DEF TypeInv
  <2>3. PICK w \in winners : w.pk = k /\ RanksFirst(w, f)
    BY <1>1, <2>1, <2>2
  <2>4. PICK j \in Slots(k) : IsEvent(k, j) /\ InBatch(k, j) /\ w = RowOf(k, j)
    BY <1>3, <2>3
  <2>5. /\ w.op = Event(k, j).op /\ w.source_lsn = Event(k, j).lsn /\ w.source_lsn \in Nat
        /\ w.op # NULL /\ w.source_lsn # NULL /\ WellFormed(Event(k, j))
        /\ w.op # OP_DELETE => w.version = Event(k, j).after.version
    BY <2>4, RowOfEvent DEF TypeInv
  <2>6. w.source_lsn = e.lsn
    <3>1. w.source_lsn <= e.lsn
      BY <1>2, <2>4, <2>5
    <3>2. w.source_lsn >= e.lsn
      BY <2>1, <2>3, <2>5 DEF RanksFirst, Before
    <3>3. QED
      BY <2>1, <2>5, <3>1, <3>2
  <2>7. Event(k, j) = e
    BY <2>4, <2>5, <2>6, SameLsnSameEvent DEF TypeInv
  <2>8. \A t \in silver : t.pk = k => Matches(t, w) /\ LsnAllows(t, w)
    <3> SUFFICES ASSUME NEW t \in silver, t.pk = k
                 PROVE  Matches(t, w) /\ LsnAllows(t, w)
      OBVIOUS
    <3>1. t.source_lsn \in Nat
      BY DEF TypeInv, SilverTypeOK, SilverRow
    <3>2. t.source_lsn <= e.lsn
      OBVIOUS
    <3>3. QED
      BY <1>0, <2>1, <2>3, <2>6, <3>1, <3>2 DEF Matches, LsnAllows
  <2>9. CASE e.op = OP_DELETE
    <3> SUFFICES ASSUME NEW t \in silver', t.pk = k
                 PROVE  FALSE
      BY <2>9
    <3>1. IsDelete(w)
      BY <2>5, <2>7, <2>9 DEF IsDelete
    <3>2. \A s \in winners : s.pk = k => s = w
      BY <1>1, <2>3 DEF UniqueKey
    <3>3. w \notin Updates(silver, winners) \cup Inserts(silver, winners)
      BY <3>1 DEF Updates, Inserts, IsDelete, IsNotDelete
    <3>4. ~\E s \in Updates(silver, winners) \cup Inserts(silver, winners) : t.pk = s.pk
      BY <3>2, <3>3 DEF Updates, Inserts
    <3>5. t \in silver /\ t \notin DeletedBy(silver, winners)
      BY <3>4, MergeRows
    <3>6. QED
      BY <2>3, <2>8, <3>1, <3>5 DEF DeletedBy
  <2>10. CASE e.op # OP_DELETE
    <3>1. ~IsDelete(w) /\ IsNotDelete(w)
      BY <2>5, <2>7, <2>10 DEF IsDelete, IsNotDelete
    <3>2. w \in Updates(silver, winners) \cup Inserts(silver, winners)
      <4>1. CASE \E t \in silver : t.pk = k
        BY <2>3, <2>8, <3>1, <4>1 DEF Updates
      <4>2. CASE ~\E t \in silver : t.pk = k
        BY <2>3, <3>1, <4>2 DEF Inserts, Matches
      <4>3. QED
        BY <4>1, <4>2
    <3>3. Persisted(w, Now) \in silver'
      BY <3>2 DEF Merge
    <3>4. Persisted(w, Now).pk = k /\ Persisted(w, Now).version = e.after.version
      BY <2>3, <2>5, <2>7, <2>10 DEF Persisted
    <3>5. QED
      BY <2>10, <3>3, <3>4
  <2>11. QED
    BY <2>9, <2>10
<1>5. CASE ~InBatch(k, i)
  <2>1. Shows(k, e)
    BY <1>5
  <2>2. \A w \in winners : w.pk # k
    BY <1>3, <1>5
  <2>3. \A t : t.pk = k => (t \in silver' <=> t \in silver)
    <3> SUFFICES ASSUME NEW t, t.pk = k
                 PROVE  t \in silver' <=> t \in silver
      OBVIOUS
    <3>1. t \in silver => t \in silver'
      BY <2>2 DEF Merge, DeletedBy, UpdatedBy, Matches
    <3>2. t \in silver' => t \in silver
      BY <2>2, MergeRows DEF Updates, Inserts
    <3>3. QED
      BY <3>1, <3>2
  <2>4. QED
    BY <2>1, <2>3 DEF Shows
<1>6. QED
  BY <1>4, <1>5

(* After a merge, a key whose last event is also its newest shows it if that *)
(* event was in the batch, or was merged or had expired before.              *)
LEMMA MergeShows ==
    ASSUME TypeInv, JobInv, phase = "ensured",
           NEW winners \in Deduplications(FlatBatch),
           silver' = Merge(silver, winners, Now),
           NEW k \in Keys, NEW i \in Slots(k), IsLast(k, i), IsNewest(k, i),
           \/ i <= offsets[PartitionOf[k]]
           \/ i <= logStart[PartitionOf[k]]
    PROVE  IF Event(k, i).op = OP_DELETE
           THEN \A t \in silver' : t.pk # k
           ELSE \E t \in silver' : t.pk = k /\ t.version = Event(k, i).after.version
<1> DEFINE p == PartitionOf[k]
<1>1. /\ p \in Partitions /\ i \in Nat
      /\ offsets[p] \in Nat /\ commits[p] \in Nat /\ logStart[p] \in Nat
  BY TopicAssumption DEF TypeInv, EngineTypeOK, SourceTypes, TopicTypeOK, Offsets, Slots
<1>2. IsEvent(k, i) /\ \A j : IsEvent(k, j) => j <= i /\ Event(k, j).lsn <= Event(k, i).lsn
  BY LastAndNewest
<1>3. \A t \in silver : t.pk = k => t.source_lsn <= Event(k, i).lsn
  <2> SUFFICES ASSUME NEW t \in silver, t.pk = k
               PROVE  t.source_lsn <= Event(k, i).lsn
    OBVIOUS
  <2>1. t.source_lsn \in Nat
    BY DEF TypeInv, SilverTypeOK, SilverRow
  <2>2. PICK m \in Slots(k) : IsEvent(k, m) /\ t.source_lsn <= Event(k, m).lsn
    BY DEF JobInv, RowsHaveEvents
  <2>3. /\ Event(k, m).lsn <= Event(k, i).lsn
        /\ Event(k, m).lsn \in Nat /\ Event(k, i).lsn \in Nat
    BY <1>2, <2>2, RowOfEvent DEF TypeInv
  <2>4. QED
    BY <2>1, <2>2, <2>3
<1>4. InBatch(k, i) \/ Shows(k, Event(k, i))
  BY <1>1 DEF InBatch, JobInv, MergedIsShown, Done
<1>5. \A j : IsEvent(k, j) /\ InBatch(k, j) => InBatch(k, i)
  <2> SUFFICES ASSUME NEW j, IsEvent(k, j), InBatch(k, j)
               PROVE  InBatch(k, i)
    OBVIOUS
  <2>1. j \in Nat /\ j <= i
    BY <1>2 DEF IsEvent, Slots
  <2>2. i > commits[p] /\ i > logStart[p]
    BY <1>1, <2>1 DEF InBatch
  <2>3. QED
    BY <1>1, <2>2 DEF InBatch
<1>6. QED
  BY <1>2, <1>3, <1>4, <1>5, BatchShows

(* A MERGE keeps the job's side: the rows it writes are rows of events, and  *)
(* everything up to the end of the batch counts as merged after it.          *)
LEMMA MergeJobInv ==
    ASSUME TypeInv, JobInv, MergeBatch
    PROVE  JobInv'
<1>1. PICK winners \in Deduplications(FlatBatch) : silver' = Merge(silver, winners, Now)
  BY DEF MergeBatch
<1>2. /\ phase = "ensured" /\ phase' = "written"
      /\ UNCHANGED <<topic, logStart, offsets, commits>>
  BY DEF MergeBatch, topicVars
<1>3. CheckpointInv'
  BY <1>2 DEF JobInv, CheckpointInv
<1>4. OneRowPerKey'
  <2>1. \A t \in silver : t.pk # NULL
    BY TopicAssumption DEF TypeInv, SilverTypeOK, SilverRow
  <2>2. UniqueKey(silver)
    BY DEF JobInv, OneRowPerKey, UniqueKey
  <2>3. UniqueKey(silver')
    BY <1>1, <2>1, <2>2, WinnersUnique, MergeKeepsKey
  <2>4. QED
    BY <2>3 DEF OneRowPerKey, UniqueKey
<1>5. RowsHaveEvents'
  <2> SUFFICES ASSUME NEW t \in silver'
               PROVE  \E i \in Slots(t.pk) : IsEvent(t.pk, i) /\ t.source_lsn <= Event(t.pk, i).lsn
    BY <1>2 DEF RowsHaveEvents, Slots, IsEvent, Event
  <2>1. CASE t \in silver
    BY <2>1 DEF JobInv, RowsHaveEvents
  <2>2. CASE \E s \in Updates(silver, winners) \cup Inserts(silver, winners) :
                t = Persisted(s, Now)
    <3>1. PICK s \in Updates(silver, winners) \cup Inserts(silver, winners) :
             t = Persisted(s, Now)
      BY <2>2
    <3>2. s \in FlatBatch
      BY WinnersUnique DEF Updates, Inserts
    <3>3. s.pk # NULL \/ s.op # NULL
      BY DEF Updates, Inserts, Matches, IsNotDelete
    <3>4. PICK k \in Keys : k = s.pk
      BY <3>2, <3>3, FlatBatchRows DEF TypeInv
    <3>5. PICK i \in Slots(k) : IsEvent(k, i) /\ s = RowOf(k, i)
      BY <3>2, <3>3, <3>4, FlatBatchRows DEF TypeInv
    <3>6. s.source_lsn = Event(k, i).lsn /\ s.source_lsn \in Nat
      BY <3>5, RowOfEvent DEF TypeInv
    <3>7. t.pk = k /\ t.source_lsn = s.source_lsn
      BY <3>1, <3>4 DEF Persisted
    <3>8. QED
      BY <3>5, <3>6, <3>7
  <2>3. QED
    BY <1>1, <2>1, <2>2, MergeRows
<1>6. MergedIsShown'
  <2>1. \A k, i : /\ Slots(k)' = Slots(k) /\ Event(k, i)' = Event(k, i)
                  /\ IsLast(k, i)' <=> IsLast(k, i)
                  /\ IsNewest(k, i)' <=> IsNewest(k, i)
    BY <1>2 DEF Slots, IsLast, IsNewest, IsEvent, Event
  <2>2. Done' = offsets /\ logStart' = logStart
    BY <1>2 DEF Done
  <2> SUFFICES ASSUME NEW k \in Keys, NEW i \in Slots(k), IsLast(k, i), IsNewest(k, i),
                      \/ i <= offsets[PartitionOf[k]]
                      \/ i <= logStart[PartitionOf[k]]
               PROVE  Shows(k, Event(k, i))'
    BY <2>1, <2>2 DEF MergedIsShown
  <2>3. IF Event(k, i).op = OP_DELETE
        THEN \A t \in silver' : t.pk # k
        ELSE \E t \in silver' : t.pk = k /\ t.version = Event(k, i).after.version
    BY <1>1, <1>2, MergeShows
  <2>4. QED
    BY <2>1, <2>3 DEF Shows
<1>7. QED
  BY <1>3, <1>4, <1>5, <1>6 DEF JobInv

(* The engine's own steps and the creation of the table write no row, and no *)
(* more counts as merged after them than before.                             *)
LEMMA EngineJobInv ==
    ASSUME TypeInv, JobInv, EngineStep \/ EnsureTable, silver' = silver
    PROVE  JobInv'
<1>1. CASE EngineStep
  <2>1. UNCHANGED topicVars
    BY <1>1, EngineTypesStep DEF TypeInv, SourceTypes
  <2>2. /\ CheckpointInv'
        /\ \A p \in Partitions : Done'[p] \in Nat /\ (Done'[p] <= Done[p] \/ Done'[p] = 0)
    BY <1>1, EngineRange DEF TypeInv, SourceTypes, JobInv
  <2>3. QED
    BY <2>1, <2>2, FrameJobInv DEF topicVars
<1>2. CASE EnsureTable
  <2>1. UNCHANGED <<topic, logStart, offsets, commits>> /\ phase = "planned" /\ phase' = "ensured"
    BY <1>2 DEF EnsureTable, topicVars
  <2>2. CheckpointInv' /\ Done' = Done
    BY <2>1 DEF JobInv, CheckpointInv, Done
  <2>3. \A p \in Partitions : Done'[p] \in Nat /\ Done'[p] <= Done[p]
    BY <2>2 DEF Done, TypeInv, EngineTypeOK, Offsets
  <2>4. QED
    BY <2>1, <2>2, <2>3, FrameJobInv
<1>3. QED
  BY <1>1, <1>2

(* Retention that waits for the job removes only what Silver already shows.  *)
LEMMA RetentionJobInv ==
    ASSUME RetentionCoversLag, TypeInv, JobInv, Retention
    PROVE  JobInv'
<1>1. PICK p \in Partitions :
         /\ logStart[p] < commits[p]
         /\ logStart' = [logStart EXCEPT ![p] = @ + 1]
         /\ topic' = topic
  BY DEF Retention, ExpireRecord
<1>2. UNCHANGED <<phase, offsets, commits, silver>>
  BY DEF Retention, engineVars, silverVars
<1>3. \A q \in Partitions : /\ commits[q] \in Nat /\ offsets[q] \in Nat /\ logStart[q] \in Nat
                            /\ commits[q] <= offsets[q]
                            /\ offsets[q] <= Len(topic[q])
                            /\ logStart[q] <= Len(topic[q])
                            /\ Len(topic[q]) \in Nat
  BY DEF TypeInv, EngineTypeOK, Offsets, SourceTypes, TopicTypeOK, JobInv, CheckpointInv
<1>4. \A q \in Partitions : /\ logStart'[q] \in Nat
                            /\ logStart'[q] <= logStart[q] \/ logStart'[q] <= Done[q]
                            /\ logStart'[q] <= Len(topic[q])
                            /\ Done[q] \in Nat
  <2> SUFFICES ASSUME NEW q \in Partitions
               PROVE  /\ logStart'[q] \in Nat
                      /\ logStart'[q] <= logStart[q] \/ logStart'[q] <= Done[q]
                      /\ logStart'[q] <= Len(topic[q])
                      /\ Done[q] \in Nat
    OBVIOUS
  <2>1. logStart'[q] = IF q = p THEN logStart[p] + 1 ELSE logStart[q]
    BY <1>1 DEF TypeInv, SourceTypes, TopicTypeOK, Offsets
  <2>2. commits[q] <= Done[q] /\ Done[q] \in Nat
    BY <1>3 DEF Done
  <2>3. QED
    BY <1>1, <1>3, <2>1, <2>2
<1>5. CheckpointInv'
  BY <1>1, <1>2, <1>3, <1>4 DEF CheckpointInv
<1>6. OneRowPerKey' /\ RowsHaveEvents'
  BY <1>1, <1>2 DEF JobInv, OneRowPerKey, RowsHaveEvents, IsEvent, Event, Slots
<1>7. MergedIsShown'
  <2> SUFFICES ASSUME NEW j \in Keys, NEW i \in Slots(j), IsLast(j, i), IsNewest(j, i),
                      \/ i <= Done[PartitionOf[j]]
                      \/ i <= logStart'[PartitionOf[j]]
               PROVE  Shows(j, Event(j, i))
    BY <1>1, <1>2 DEF MergedIsShown, Done, IsLast, IsNewest, IsEvent, Event, Slots, Shows
  <2>1. PartitionOf[j] \in Partitions
    BY TopicAssumption
  <2>2. i \in Nat
    BY <1>3, <2>1 DEF Slots
  <2>3. i <= Done[PartitionOf[j]] \/ i <= logStart[PartitionOf[j]]
    BY <1>3, <1>4, <2>1, <2>2
  <2>4. QED
    BY <2>3 DEF JobInv, MergedIsShown
<1>8. QED
  BY <1>5, <1>6, <1>7 DEF JobInv

-----------------------------------------------------------------------------
(* The whole invariant.                                                      *)
ConvInv == TypeInv /\ SourceInv /\ JobInv

(* It is the invariant the runs check, with the types.                       *)
LEMMA ConvInvParts == ConvInv <=> TypeOK /\ ConvergenceInv
BY SilverInvParts DEF ConvInv, TypeInv, SourceTypes, SourceInv, JobInv, TypeOK, ConvergenceInv

(* At the start nothing is written, emitted, planned or merged.              *)
LEMMA InitConvInv ==
    ASSUME Init
    PROVE  ConvInv
<1>1. TypeInv
  BY InitTypes
<1>2. SourceInv /\ \A p \in Partitions : Len(topic[p]) = 0 /\ logStart[p] = 0
  BY InitSource DEF Init
<1>3. CheckpointInv
  BY <1>2 DEF Init, EngineInit, ZeroOffsets, CheckpointInv
<1>4. OneRowPerKey /\ RowsHaveEvents
  BY DEF Init, SilverInit, OneRowPerKey, RowsHaveEvents
<1>5. MergedIsShown
  BY <1>2, TopicAssumption DEF MergedIsShown, Slots
<1>6. QED
  BY <1>1, <1>2, <1>3, <1>4, <1>5 DEF ConvInv, JobInv

(* Every step of the system keeps the invariant.                             *)
LEMMA ConvInvStep ==
    ASSUME RetentionCoversLag, ConvInv, [Next]_vars
    PROVE  ConvInv'
<1> USE DEF ConvInv
<1>1. TypeInv'
  BY TypesStep
<1>2. CASE Source
  <2>1. SourceInv'
    BY <1>2, SourceInvStep DEF Source, TypeInv
  <2>2. UNCHANGED <<engineVars, silverVars>>
    BY <1>2 DEF Source
  <2>3. CASE UNCHANGED topicVars
    <3>1. /\ UNCHANGED <<topic, logStart, phase, offsets, commits, silver>>
      BY <2>2, <2>3 DEF topicVars, engineVars, silverVars
    <3>2. CheckpointInv' /\ Done' = Done
      BY <3>1 DEF JobInv, CheckpointInv, Done
    <3>3. \A p \in Partitions : Done'[p] \in Nat /\ Done'[p] <= Done[p]
      BY <3>2 DEF Done, TypeInv, EngineTypeOK, Offsets
    <3>4. QED
      BY <1>1, <2>1, <3>1, <3>2, <3>3, FrameJobInv
  <2>4. CASE \E k \in Keys : \E v : Appends(k, v)
    <3>1. PICK k \in Keys : \E v : Appends(k, v)
      BY <2>4
    <3>2. PICK v : Appends(k, v)
      BY <3>1
    <3>3. QED
      BY <1>1, <2>1, <2>2, <3>2, AppendJobInv
  <2>5. QED
    BY <1>2, <2>3, <2>4, SourceAppends DEF Source, TypeInv
<1>3. CASE Job
  <2>1. UNCHANGED topicVars /\ UNCHANGED captureVars
    BY <1>3, JobTypesStep DEF Job
  <2>2. SourceInv'
    BY <2>1, SourceInvFrame DEF topicVars
  <2>3. CASE MergeBatch
    BY <1>1, <2>2, <2>3, MergeJobInv
  <2>4. CASE ~MergeBatch
    <3>1. (EngineStep \/ EnsureTable) /\ silver' = silver
      BY <1>3, <2>4 DEF Job, JobNext, Engine, EngineStep, EnsureTable, silverVars
    <3>2. QED
      BY <1>1, <2>2, <3>1, EngineJobInv
  <2>5. QED
    BY <2>3, <2>4
<1>4. CASE Retention
  <2>1. topic' = topic /\ UNCHANGED captureVars
    BY <1>4, RetentionTypesStep DEF Retention
  <2>2. QED
    BY <1>1, <1>4, <2>1, SourceInvFrame, RetentionJobInv
<1>5. CASE UNCHANGED vars
  <2>1. UNCHANGED <<topic, logStart, phase, offsets, commits, silver>> /\ UNCHANGED captureVars
    BY <1>5 DEF vars, topicVars, engineVars, silverVars
  <2>2. CheckpointInv' /\ Done' = Done
    BY <2>1 DEF JobInv, CheckpointInv, Done
  <2>3. \A p \in Partitions : Done'[p] \in Nat /\ Done'[p] <= Done[p]
    BY <2>2 DEF Done, TypeInv, EngineTypeOK, Offsets
  <2>4. QED
    BY <1>1, <2>1, <2>2, <2>3, FrameJobInv, SourceInvFrame
<1>6. QED
  BY <1>2, <1>3, <1>4, <1>5 DEF Next

(* ConvergenceInv is an invariant: with it, all the claims it makes about    *)
(* the WAL, the topic, the checkpoint and Silver in states that are not      *)
(* caught up.                                                                *)
THEOREM ConvergenceInvariant ==
    ASSUME RetentionCoversLag
    PROVE  Spec => []ConvergenceInv
<1>1. Init => ConvInv
  BY InitConvInv
<1>2. ConvInv /\ [Next]_vars => ConvInv'
  BY ConvInvStep
<1>3. ConvInv => ConvergenceInv
  BY ConvInvParts
<1>4. QED
  BY <1>1, <1>2, <1>3, PTL DEF Spec

(* What a table that shows an event of a key, and has no two rows of a key,  *)
(* shows in the view.                                                        *)
LEMMA ShownInView ==
    ASSUME ConvInv, NEW k \in Keys, NEW i \in Slots(k), IsEvent(k, i), Shows(k, Event(k, i))
    PROVE  SilverView[k] = VersionAfter(Event(k, i))
<1> DEFINE e == Event(k, i)
<1>1. e \in Envelope /\ WellFormed(e)
  BY RowOfEvent DEF ConvInv, TypeInv
<1>2. CASE e.op = OP_DELETE
  <2>1. \A t \in silver : t.pk # k
    BY <1>2 DEF Shows
  <2>2. VersionAfter(e) = NULL
    BY <1>1, <1>2 DEF WellFormed, VersionAfter
  <2>3. QED
    BY <2>1, <2>2 DEF SilverView, ViewOf
<1>3. CASE e.op # OP_DELETE
  <2>1. PICK t \in silver : t.pk = k /\ t.version = e.after.version
    BY <1>3 DEF Shows
  <2>2. VersionAfter(e) = e.after.version
    BY <1>1, <1>3 DEF WellFormed, VersionAfter
  <2>3. \A u \in silver : u.pk = k => u = t
    BY <2>1 DEF ConvInv, JobInv, OneRowPerKey
  <2>4. (CHOOSE u \in silver : u.pk = k) = t
    BY <2>1, <2>3
  <2>5. SilverView[k] = t.version
    BY <2>1, <2>4 DEF SilverView, ViewOf
  <2>6. QED
    BY <2>1, <2>2, <2>5
<1>4. QED
  BY <1>2, <1>3

(* The invariant implies convergence: a key with a change in the WAL shows   *)
(* the last one; a key without shows its snapshot, or was never there.       *)
LEMMA InvImpliesConvergence ==
    ASSUME ConvInv, CaptureDone, Drained
    PROVE  SilverView = rows
<1>1. \A k \in Keys : \A i \in Slots(k) : IsLast(k, i) /\ IsNewest(k, i) => Shows(k, Event(k, i))
  <2> SUFFICES ASSUME NEW k \in Keys, NEW i \in Slots(k), IsLast(k, i), IsNewest(k, i)
               PROVE  Shows(k, Event(k, i))
    OBVIOUS
  <2>1. PartitionOf[k] \in Partitions
    BY TopicAssumption
  <2>2. Done[PartitionOf[k]] = Len(topic[PartitionOf[k]])
    BY <2>1 DEF Drained, Done
  <2>3. i <= Done[PartitionOf[k]]
    BY <2>1, <2>2 DEF Slots, ConvInv, TypeInv, SourceTypes, TopicTypeOK
  <2>4. QED
    BY <2>3 DEF ConvInv, JobInv, MergedIsShown
<1>2. \A k \in Keys : SilverView[k] = rows[k]
  <2> SUFFICES ASSUME NEW k \in Keys
               PROVE  SilverView[k] = rows[k]
    OBVIOUS
  <2>1. CASE rows[k] = NULL /\ \A i \in Slots(k) : ~IsEvent(k, i)
    <3>1. \A t \in silver : t.pk # k
      BY <2>1 DEF ConvInv, JobInv, RowsHaveEvents
    <3>2. QED
      BY <2>1, <3>1 DEF SilverView, ViewOf
  <2>2. CASE \E i \in Slots(k) : /\ IsLast(k, i)
                                 /\ IsNewest(k, i)
                                 /\ rows[k] = VersionAfter(Event(k, i))
    <3>1. PICK i \in Slots(k) : /\ IsLast(k, i)
                                /\ IsNewest(k, i)
                                /\ rows[k] = VersionAfter(Event(k, i))
      BY <2>2
    <3>2. IsEvent(k, i) /\ Shows(k, Event(k, i))
      BY <1>1, <3>1, LastAndNewest
    <3>3. QED
      BY <3>1, <3>2, ShownInView
  <2>3. QED
    BY <2>1, <2>2, EmittedRows DEF ConvInv, TypeInv
<1>3. /\ SilverView = [k \in Keys |-> SilverView[k]]
      /\ rows = [k \in Keys |-> rows[k]]
  BY DEF SilverView, ViewOf, ConvInv, TypeInv, SourceTypes, CaptureTypeOK
<1>4. QED
  BY <1>2, <1>3

(* Convergence, for any keys, partitions, batch size, clock, and number of   *)
(* connector restarts, driver failures and checkpoint resets: when retention *)
(* waits for the job and everything has been emitted and committed, Silver   *)
(* is the source table.                                                      *)
THEOREM Convergence ==
    ASSUME RetentionCoversLag
    PROVE  Spec => []CaughtUpMirrorsSource
<1>1. Init => ConvInv
  BY InitConvInv
<1>2. ConvInv /\ [Next]_vars => ConvInv'
  BY ConvInvStep
<1>3. ConvInv => CaughtUpMirrorsSource
  BY InvImpliesConvergence DEF CaughtUpMirrorsSource
<1>4. QED
  BY <1>1, <1>2, <1>3, PTL DEF Spec
=============================================================================
