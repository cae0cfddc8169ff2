------------------------- MODULE BronzePipelineProofs -------------------------
(* Theorems about BronzePipeline: no record that Kafka keeps long enough is  *)
(* lost, duplicates come from failures only, and Silver can be rebuilt from  *)
(* Bronze.  For every table, partitioning, clock, batch size and bound on    *)
(* failures; what depends on the retention says so in its ASSUME.            *)
EXTENDS BronzePipeline, PipelineProofs

-----------------------------------------------------------------------------
(* The sum in Copies, which is over at most one row.                         *)
Total(f, S) == MapThenSumSet(LAMBDA x : f[x], S)

(* The sum over no element.                                                  *)
LEMMA TotalOfNone ==
    ASSUME NEW f
    PROVE  Total(f, {}) = 0
<1> DEFINE Choice(s) == CHOOSE x \in s : TRUE
           Def(g) == g = [s \in SUBSET {} |->
                            IF s = {} THEN 0 ELSE f[Choice(s)] + g[s \ {Choice(s)}]]
           iter == CHOOSE g : Def(g)
           h == [s \in SUBSET {} |-> 0]
<1>1. Total(f, {}) = iter[{}]
  BY DEF Total, MapThenSumSet, MapThenFoldSet
<1>2. Def(h)
  OBVIOUS
<1>3. Def(iter)
  BY <1>2
<1> HIDE DEF iter
<1>4. iter[{}] = 0
  BY <1>3
<1>5. QED
  BY <1>1, <1>4

(* The sum over one element.                                                 *)
LEMMA TotalOfOne ==
    ASSUME NEW f, NEW d, f[d] \in Nat
    PROVE  Total(f, {d}) = f[d]
<1> DEFINE Choice(s) == CHOOSE x \in s : TRUE
           Def(g) == g = [s \in SUBSET {d} |->
                            IF s = {} THEN 0 ELSE f[Choice(s)] + g[s \ {Choice(s)}]]
           iter == CHOOSE g : Def(g)
           h == [s \in SUBSET {d} |-> IF s = {} THEN 0 ELSE f[d]]
<1>1. Total(f, {d}) = iter[{d}]
  BY DEF Total, MapThenSumSet, MapThenFoldSet
<1>2. \A s \in SUBSET {d} : s = {} \/ s = {d}
  OBVIOUS
<1>3. Choice({d}) = d /\ {d} \ {d} = {} /\ {d} # {}
  OBVIOUS
<1> HIDE DEF Choice
<1>4. Def(h)
  <2>1. h[{}] = 0
    OBVIOUS
  <2>2. ASSUME NEW s \in SUBSET {d}
        PROVE  (IF s = {} THEN 0 ELSE f[d])
               = (IF s = {} THEN 0 ELSE f[Choice(s)] + h[s \ {Choice(s)}])
    <3>1. CASE s = {}
      BY <3>1
    <3>2. CASE s = {d}
      <4>1. Choice(s) = d /\ s \ {Choice(s)} = {} /\ s # {}
        BY <1>3, <3>2
      <4>2. h[s \ {Choice(s)}] = 0
        BY <2>1, <4>1
      <4> HIDE DEF h
      <4>3. f[Choice(s)] + h[s \ {Choice(s)}] = f[d]
        BY <4>1, <4>2
      <4>4. QED
        BY <4>1, <4>3
    <3>3. QED
      BY <1>2, <3>1, <3>2
  <2>3. QED
    BY <2>2
<1>5. Def(iter)
  BY <1>4
<1> HIDE DEF iter
<1>6. iter[{}] = 0 /\ iter[{d}] = f[d] + iter[{}]
  BY <1>3, <1>5
<1>7. QED
  BY <1>1, <1>6

-----------------------------------------------------------------------------
(* How often a bag holds a row.                                              *)
CopyCount(bag, d) == IF d \in BagToSet(bag) THEN bag[d] ELSE 0

(* Appending a set adds one copy of each of its elements.                    *)
LEMMA AppendCounts ==
    ASSUME NEW bag, IsABag(bag), NEW S
    PROVE  LET after == bag (+) SetToBag(S)
           IN  /\ IsABag(after)
               /\ BagToSet(after) = BagToSet(bag) \cup S
               /\ \A d : CopyCount(after, d) = CopyCount(bag, d) + (IF d \in S THEN 1 ELSE 0)
<1> DEFINE after == bag (+) SetToBag(S)
           count(d) == CopyCount(bag, d) + (IF d \in S THEN 1 ELSE 0)
<1>1. after = [d \in BagToSet(bag) \cup S |-> count(d)]
  BY DEF SetToBag, BagToSet, CopyCount, (+)
<1>2. \A d \in BagToSet(bag) : bag[d] \in Nat /\ bag[d] > 0
  BY DEF IsABag, BagToSet
<1>3. \A d : CopyCount(bag, d) \in Nat /\ (d \in BagToSet(bag) => CopyCount(bag, d) > 0)
  BY <1>2 DEF CopyCount
<1>4. \A d \in BagToSet(bag) \cup S : count(d) \in Nat /\ count(d) > 0
  BY <1>3
<1>5. \A d : d \notin BagToSet(bag) \cup S => count(d) = 0
  BY DEF CopyCount
<1> HIDE DEF count, after
<1>6. IsABag(after) /\ BagToSet(after) = BagToSet(bag) \cup S
  BY <1>1, <1>4 DEF IsABag, BagToSet
<1>7. \A d : CopyCount(after, d) = count(d)
  BY <1>1, <1>5, <1>6 DEF CopyCount
<1>8. QED
  BY <1>6, <1>7 DEF count, after

-----------------------------------------------------------------------------
(* The invariant.  Every row of Bronze is a record of the topic, so that the *)
(* sum in Copies is over one row.                                            *)
RowsAreRecords ==
    \A d \in BagToSet(bronze) :
        \E p \in Partitions : \E i \in 1..Len(topic[p]) : d = Decode(p, i)

(* Copies, as a lookup.                                                      *)
Landings(p, i) == CopyCount(bronze, Decode(p, i))

(* Nothing that counts as written and is still in Kafka is missing, nor what *)
(* has expired when retention waits for the commit.                          *)
LandedInv ==
    \A p \in Partitions : \A i \in 1..Len(topic[p]) :
        \/ logStart[p] < i /\ i <= Done[p]
        \/ RetentionCoversLag /\ i <= logStart[p]
        => Landings(p, i) > 0

(* One copy for each life the driver has lost, and one more in this life     *)
(* once the record counts as written.                                        *)
CopiesInv ==
    \A p \in Partitions : \A i \in 1..Len(topic[p]) :
        Landings(p, i) <= restarts + (IF phase # "down" /\ i <= Done[p] THEN 1 ELSE 0)

Typed == SourceTypes /\ EngineTypeOK /\ BronzeTypeOK

BronzeInv == CheckpointInv /\ RowsAreRecords /\ LandedInv /\ CopiesInv

IInv == Typed /\ SourceInv /\ BronzeInv

(* A decoded record is typed.                                                *)
LEMMA DecodeType ==
    ASSUME SourceTypes, NEW p \in Partitions, NEW i \in 1..Len(topic[p])
    PROVE  Decode(p, i) \in DecodedRow
<1>1. i \in Nat
  OBVIOUS
<1>2. CASE topic[p][i].value = NULL
  BY <1>1, <1>2 DEF Decode, DecodedRow, TombstoneRow
<1>3. CASE topic[p][i].value # NULL
  <2>1. topic[p][i].value \in Envelope /\ WellFormed(topic[p][i].value)
    BY <1>3, RecordWellFormed
  <2>2. Decode(p, i) \in [kafka_partition : Partitions, kafka_offset : Nat, op : Ops,
                          before : Image \cup {NULL}, after : Image \cup {NULL},
                          lsn : Nat, ts_ms : Int]
    BY <1>1, <1>3, <2>1 DEF Decode, Envelope
  <2>3. WellFormed(Decode(p, i))
    BY <1>3, <2>1 DEF Decode, WellFormed
  <2>4. QED
    BY <2>2, <2>3 DEF DecodedRow, ChangeRow
<1>4. QED
  BY <1>2, <1>3

(* A record is in the batch when it is in the planned range and not expired. *)
LEMMA BatchHas ==
    ASSUME NEW p \in Partitions, NEW i \in 1..Len(topic[p])
    PROVE  Decode(p, i) \in Batch <=> i > commits[p] /\ i > logStart[p] /\ i <= offsets[p]
<1>1. \A q, j : Decode(q, j) = Decode(p, i) => q = p /\ j = i
  BY DEF Decode
<1>2. Decode(p, i) \in Batch <=>
         \E q \in Partitions : \E j \in 1..Len(topic[q]) :
            /\ j > commits[q] /\ j > logStart[q] /\ j <= offsets[q]
            /\ Decode(p, i) = Decode(q, j)
  BY DEF Batch, Poll
<1>3. QED
  BY <1>1, <1>2

(* Every row of the batch is a record.                                       *)
LEMMA BatchRows ==
    ASSUME NEW d \in Batch
    PROVE  \E p \in Partitions : \E i \in 1..Len(topic[p]) : d = Decode(p, i)
BY DEF Batch, Poll

(* Copies is that lookup.                                                    *)
LEMMA CopiesAreLandings ==
    ASSUME BronzeTypeOK, RowsAreRecords, NEW p \in Partitions, NEW i
    PROVE  Copies(p, i) = Landings(p, i) /\ Landings(p, i) \in Nat
<1> DEFINE S == {d \in BagToSet(bronze) : d.kafka_partition = p /\ d.kafka_offset = i}
<1>1. Copies(p, i) = Total(bronze, S)
  BY DEF Copies, Total
<1>2. \A d \in S : d = Decode(p, i)
  BY DEF RowsAreRecords, Decode
<1>3. Decode(p, i).kafka_partition = p /\ Decode(p, i).kafka_offset = i
  BY DEF Decode
<1>4. CASE Decode(p, i) \in BagToSet(bronze)
  <2>1. S = {Decode(p, i)}
    BY <1>2, <1>3, <1>4
  <2>2. bronze[Decode(p, i)] \in Nat
    BY <1>4 DEF BronzeTypeOK, IsABag, BagToSet
  <2> HIDE DEF S
  <2>3. QED
    BY <1>1, <1>4, <2>1, <2>2, TotalOfOne DEF Landings, CopyCount
<1>5. CASE Decode(p, i) \notin BagToSet(bronze)
  <2>1. S = {}
    BY <1>2, <1>5
  <2> HIDE DEF S
  <2>2. QED
    BY <1>1, <1>5, <2>1, TotalOfNone DEF Landings, CopyCount
<1>6. QED
  BY <1>4, <1>5

-----------------------------------------------------------------------------
(* What was written stays what it is when the source adds records, and no    *)
(* row stands for a record that is not there yet.                            *)
LEMMA GrowBronze ==
    ASSUME IInv, TopicGrows, UNCHANGED <<engineVars, bronzeVars>>
    PROVE  BronzeInv'
<1>1. /\ UNCHANGED <<phase, offsets, commits, restarts, bronze, logStart>> /\ Done' = Done
      /\ \A p \in Partitions : /\ Len(topic[p]) \in Nat /\ Len(topic'[p]) \in Nat
                               /\ Len(topic'[p]) >= Len(topic[p])
                               /\ offsets[p] \in Nat /\ commits[p] \in Nat /\ logStart[p] \in Nat
                               /\ commits[p] <= offsets[p] /\ offsets[p] <= Len(topic[p])
                               /\ logStart[p] <= Len(topic[p])
  BY DEF engineVars, bronzeVars, TopicGrows, Done, IInv, Typed, SourceTypes, TopicTypeOK,
         EngineTypeOK, Offsets, BronzeInv, CheckpointInv
<1>2. \A p \in Partitions : \A i \in 1..Len(topic[p]) :
         /\ i \in 1..Len(topic'[p])
         /\ Decode(p, i)' = Decode(p, i)
         /\ Landings(p, i)' = Landings(p, i)
  <2> SUFFICES ASSUME NEW p \in Partitions, NEW i \in 1..Len(topic[p])
               PROVE  /\ i \in 1..Len(topic'[p])
                      /\ Decode(p, i)' = Decode(p, i)
                      /\ Landings(p, i)' = Landings(p, i)
    OBVIOUS
  <2>1. i \in 1..Len(topic'[p]) /\ topic'[p][i] = topic[p][i]
    BY <1>1 DEF TopicGrows
  <2>2. Decode(p, i)' = Decode(p, i)
    BY <2>1 DEF Decode
  <2>3. QED
    BY <1>1, <2>1, <2>2 DEF Landings
<1>3. \A p \in Partitions : \A i \in 1..Len(topic'[p]) :
         i > Len(topic[p]) => Landings(p, i)' = 0
  <2> SUFFICES ASSUME NEW p \in Partitions, NEW i \in 1..Len(topic'[p]), i > Len(topic[p]),
                      Decode(p, i)' \in BagToSet(bronze)
               PROVE  FALSE
    BY <1>1 DEF Landings, CopyCount
  <2>1. PICK q \in Partitions : \E j \in 1..Len(topic[q]) : Decode(p, i)' = Decode(q, j)
    BY DEF IInv, BronzeInv, RowsAreRecords
  <2>2. PICK j \in 1..Len(topic[q]) : Decode(p, i)' = Decode(q, j)
    BY <2>1
  <2>3. p = q /\ i = j
    BY <2>2 DEF Decode
  <2>4. QED
    BY <1>1, <2>3
<1>4. CheckpointInv'
  BY <1>1 DEF CheckpointInv
<1>5. RowsAreRecords'
  BY <1>1, <1>2 DEF IInv, BronzeInv, RowsAreRecords
<1>6. \A p \in Partitions : Done[p] <= Len(topic[p]) /\ Done[p] \in Nat
  BY <1>1 DEF Done
<1>7. LandedInv'
  <2> SUFFICES ASSUME NEW p \in Partitions, NEW i \in 1..Len(topic'[p]),
                      \/ logStart[p] < i /\ i <= Done[p]
                      \/ RetentionCoversLag /\ i <= logStart[p]
               PROVE  Landings(p, i)' > 0
    BY <1>1 DEF LandedInv
  <2>1. i \in 1..Len(topic[p])
    BY <1>1, <1>6
  <2>2. QED
    BY <1>2, <2>1 DEF IInv, BronzeInv, LandedInv
<1>8. CopiesInv'
  <2> SUFFICES ASSUME NEW p \in Partitions, NEW i \in 1..Len(topic'[p])
               PROVE  Landings(p, i)' <= restarts + (IF phase # "down" /\ i <= Done[p] THEN 1 ELSE 0)
    BY <1>1 DEF CopiesInv
  <2>1. CASE i \in 1..Len(topic[p])
    BY <1>2, <2>1 DEF IInv, BronzeInv, CopiesInv
  <2>2. CASE i > Len(topic[p])
    BY <1>3, <2>2 DEF IInv, Typed, EngineTypeOK
  <2>3. QED
    BY <1>1, <2>1, <2>2
<1>9. QED
  BY <1>4, <1>5, <1>7, <1>8 DEF BronzeInv

(* The append of the batch: every record of it that is not expired gets its  *)
(* copy, which is the first one of this life.                                *)
LEMMA AppendBronze ==
    ASSUME IInv, AppendBatch
    PROVE  BronzeTypeOK' /\ BronzeInv'
<1>1. /\ phase = "ensured" /\ phase' = "written"
      /\ UNCHANGED <<topic, logStart, offsets, commits, restarts, landed>>
      /\ bronze' = bronze (+) SetToBag(Batch)
      /\ Done = commits /\ Done' = offsets
  BY DEF AppendBatch, topicVars, Done
<1>2. IsABag(bronze) /\ BagToSet(bronze) \subseteq DecodedRow /\ landed \in BOOLEAN
  BY DEF IInv, Typed, BronzeTypeOK
<1>3. /\ IsABag(bronze')
      /\ BagToSet(bronze') = BagToSet(bronze) \cup Batch
      /\ \A d : CopyCount(bronze', d) = CopyCount(bronze, d) + (IF d \in Batch THEN 1 ELSE 0)
  BY <1>1, <1>2, AppendCounts
<1>4. \A d \in Batch : \E p \in Partitions : \E i \in 1..Len(topic[p]) : d = Decode(p, i)
  BY BatchRows
<1>5. BronzeTypeOK'
  BY <1>1, <1>2, <1>3, <1>4, DecodeType DEF BronzeTypeOK, IInv, Typed, SourceTypes
<1>6. CheckpointInv'
  BY <1>1 DEF IInv, BronzeInv, CheckpointInv
<1>7. \A p, i : Decode(p, i)' = Decode(p, i)
  BY <1>1 DEF Decode
<1>8. RowsAreRecords'
  BY <1>1, <1>3, <1>4, <1>7 DEF IInv, BronzeInv, RowsAreRecords
<1>9. ASSUME NEW p \in Partitions, NEW i \in 1..Len(topic[p])
      PROVE  /\ \/ logStart[p] < i /\ i <= offsets[p]
                \/ RetentionCoversLag /\ i <= logStart[p]
                => Landings(p, i)' > 0
             /\ Landings(p, i)' <= restarts + (IF i <= offsets[p] THEN 1 ELSE 0)
  <2>1. /\ commits[p] \in Nat /\ offsets[p] \in Nat /\ logStart[p] \in Nat /\ restarts \in Nat
        /\ commits[p] <= offsets[p] /\ i \in Nat
    BY DEF IInv, Typed, SourceTypes, TopicTypeOK, EngineTypeOK, Offsets, BronzeInv, CheckpointInv
  <2>2. Landings(p, i)' = Landings(p, i) + (IF Decode(p, i) \in Batch THEN 1 ELSE 0)
    BY <1>3, <1>7 DEF Landings
  <2>3. Landings(p, i) \in Nat
    BY CopiesAreLandings DEF IInv, Typed, BronzeInv
  <2>4. /\ \/ logStart[p] < i /\ i <= commits[p]
           \/ RetentionCoversLag /\ i <= logStart[p]
           => Landings(p, i) > 0
        /\ Landings(p, i) <= restarts + (IF i <= commits[p] THEN 1 ELSE 0)
    BY <1>1 DEF IInv, BronzeInv, LandedInv, CopiesInv
  <2>5. Decode(p, i) \in Batch <=> i > commits[p] /\ i > logStart[p] /\ i <= offsets[p]
    BY BatchHas
  <2>6. QED
    BY <2>1, <2>2, <2>3, <2>4, <2>5
<1>10. LandedInv' /\ CopiesInv'
  BY <1>1, <1>9 DEF LandedInv, CopiesInv
<1>11. QED
  BY <1>5, <1>6, <1>8, <1>10 DEF BronzeInv

(* A step that writes no row, and after which no more counts as written than *)
(* before; a life of the driver in which less does has ended.                *)
LEMMA FrameBronze ==
    ASSUME IInv, topic' = topic, logStart' = logStart, bronze' = bronze, CheckpointInv',
           \A p \in Partitions : Done'[p] \in Nat /\ (Done'[p] <= Done[p] \/ Done'[p] = 0),
           restarts' \in Nat,
           \/ restarts' = restarts /\ phase = "down"
           \/ restarts' = restarts /\ phase' # "down" /\ Done' = Done
           \/ restarts' = restarts + 1 /\ phase' = "down"
    PROVE  BronzeInv'
<1>1. \A p, i : Decode(p, i)' = Decode(p, i) /\ Landings(p, i)' = Landings(p, i)
  BY DEF Decode, Landings
<1>2. RowsAreRecords'
  BY <1>1 DEF IInv, BronzeInv, RowsAreRecords
<1>3. ASSUME NEW p \in Partitions, NEW i \in 1..Len(topic[p])
      PROVE  /\ \/ logStart[p] < i /\ i <= Done'[p]
                \/ RetentionCoversLag /\ i <= logStart[p]
                => Landings(p, i) > 0
             /\ Landings(p, i) <= restarts' + (IF phase' # "down" /\ i <= Done'[p] THEN 1 ELSE 0)
  <2>1. /\ i \in Nat /\ i >= 1 /\ Done[p] \in Nat /\ logStart[p] \in Nat /\ restarts \in Nat
    BY DEF Done, IInv, Typed, SourceTypes, TopicTypeOK, EngineTypeOK, Offsets
  <2>2. Landings(p, i) \in Nat
    BY CopiesAreLandings DEF IInv, Typed, BronzeInv
  <2>3. /\ \/ logStart[p] < i /\ i <= Done[p]
           \/ RetentionCoversLag /\ i <= logStart[p]
           => Landings(p, i) > 0
        /\ Landings(p, i) <= restarts + (IF phase # "down" /\ i <= Done[p] THEN 1 ELSE 0)
    BY DEF IInv, BronzeInv, LandedInv, CopiesInv
  <2>4. QED
    BY <2>1, <2>2, <2>3
<1>4. LandedInv' /\ CopiesInv'
  BY <1>1, <1>3 DEF LandedInv, CopiesInv
<1>5. QED
  BY <1>2, <1>4 DEF BronzeInv

(* The engine's own steps.                                                   *)
LEMMA EngineBronze ==
    ASSUME IInv, EngineStep, UNCHANGED bronzeVars
    PROVE  BronzeInv'
<1>1. topic' = topic /\ logStart' = logStart /\ bronze' = bronze /\ restarts' \in Nat
  BY EngineTypesStep DEF IInv, Typed, SourceTypes, topicVars, bronzeVars, EngineTypeOK
<1>2. /\ CheckpointInv'
      /\ \A p \in Partitions : Done'[p] \in Nat /\ (Done'[p] <= Done[p] \/ Done'[p] = 0)
  BY EngineRange DEF IInv, Typed, SourceTypes, BronzeInv
<1>3. CASE Start \/ ResetCheckpoint
  BY <1>1, <1>2, <1>3, FrameBronze DEF Start, ResetCheckpoint
<1>4. CASE PlanBatch \/ CommitBatch
  <2>1. restarts' = restarts /\ phase' # "down" /\ Done' = Done
    BY <1>4 DEF PlanBatch, CommitBatch, Done
  <2>2. QED
    BY <1>1, <1>2, <2>1, FrameBronze
<1>5. CASE Fail
  BY <1>1, <1>2, <1>5, FrameBronze DEF Fail
<1>6. QED
  BY <1>3, <1>4, <1>5 DEF EngineStep

(* Creating the table writes no row.                                         *)
LEMMA EnsureBronze ==
    ASSUME IInv, EnsureBronzeTable
    PROVE  BronzeInv'
<1>1. /\ UNCHANGED <<topic, logStart, offsets, commits, restarts, resets, bronze>>
      /\ phase' = "ensured" /\ phase = "planned" /\ landed' = TRUE
  BY DEF EnsureBronzeTable, topicVars
<1>2. Done' = Done /\ CheckpointInv'
  BY <1>1 DEF Done, IInv, BronzeInv, CheckpointInv
<1>3. \A p \in Partitions : Done'[p] \in Nat /\ Done'[p] <= Done[p]
  BY <1>2 DEF Done, IInv, Typed, EngineTypeOK, Offsets
<1>4. QED
  BY <1>1, <1>2, <1>3, FrameBronze DEF IInv, Typed, EngineTypeOK

(* Retention removes records Kafka still holds, and when it waits for the    *)
(* commit, only ones that have landed.                                       *)
LEMMA RetentionBronze ==
    ASSUME IInv, Retention
    PROVE  BronzeInv' /\ TopicTypeOK' /\ topic' = topic
<1>1. PICK q \in Partitions :
         /\ RetentionCoversLag => logStart[q] < commits[q]
         /\ logStart[q] < Len(topic[q])
         /\ logStart' = [logStart EXCEPT ![q] = @ + 1]
         /\ topic' = topic
  BY DEF Retention, ExpireRecord
<1>2. UNCHANGED <<phase, offsets, commits, restarts, bronze>> /\ Done' = Done
  BY DEF Retention, engineVars, bronzeVars, Done
<1>3. \A p \in Partitions : /\ commits[p] \in Nat /\ offsets[p] \in Nat /\ logStart[p] \in Nat
                            /\ commits[p] <= offsets[p]
                            /\ offsets[p] <= Len(topic[p])
                            /\ logStart[p] <= Len(topic[p])
                            /\ Len(topic[p]) \in Nat
  BY DEF IInv, Typed, EngineTypeOK, Offsets, SourceTypes, TopicTypeOK, BronzeInv, CheckpointInv
<1>4. ASSUME NEW p \in Partitions
      PROVE  /\ logStart'[p] \in Nat
             /\ logStart'[p] >= logStart[p]
             /\ \/ logStart'[p] = logStart[p]
                \/ logStart'[p] = logStart[p] + 1 /\ (RetentionCoversLag => logStart'[p] <= Done[p])
             /\ logStart'[p] <= Len(topic[p])
             /\ Done[p] \in Nat
  <2>1. logStart'[p] = IF p = q THEN logStart[q] + 1 ELSE logStart[p]
    BY <1>1 DEF IInv, Typed, SourceTypes, TopicTypeOK, Offsets
  <2>2. commits[p] <= Done[p] /\ Done[p] \in Nat
    BY <1>3 DEF Done
  <2>3. QED
    BY <1>1, <1>3, <2>1, <2>2
<1>5. TopicTypeOK'
  BY <1>1, <1>4 DEF IInv, Typed, SourceTypes, TopicTypeOK, Offsets
<1>6. CheckpointInv'
  BY <1>1, <1>2, <1>3, <1>4 DEF CheckpointInv
<1>7. \A p, i : Decode(p, i)' = Decode(p, i) /\ Landings(p, i)' = Landings(p, i)
  BY <1>1, <1>2 DEF Decode, Landings
<1>8. RowsAreRecords' /\ CopiesInv'
  BY <1>1, <1>2, <1>7 DEF IInv, BronzeInv, RowsAreRecords, CopiesInv
<1>9. LandedInv'
  <2> SUFFICES ASSUME NEW p \in Partitions, NEW i \in 1..Len(topic[p]),
                      \/ logStart'[p] < i /\ i <= Done[p]
                      \/ RetentionCoversLag /\ i <= logStart'[p]
               PROVE  Landings(p, i) > 0
    BY <1>1, <1>2, <1>7 DEF LandedInv
  <2>1. \/ logStart[p] < i /\ i <= Done[p]
        \/ RetentionCoversLag /\ i <= logStart[p]
    BY <1>3, <1>4
  <2>2. QED
    BY <2>1 DEF IInv, BronzeInv, LandedInv
<1>10. QED
  BY <1>1, <1>5, <1>6, <1>8, <1>9 DEF BronzeInv

-----------------------------------------------------------------------------
(* At the start nothing is written, emitted, planned or landed.              *)
LEMMA InitInv ==
    ASSUME Init
    PROVE  IInv
<1>1. /\ SourceTypes /\ SourceInv
      /\ \A p \in Partitions : Len(topic[p]) = 0 /\ logStart[p] = 0
  BY InitSource DEF Init
<1>2. EngineTypeOK
  BY DEF Init, EngineInit, EngineTypeOK, Phases, ZeroOffsets, Offsets
<1>3. BagToSet(bronze) = {} /\ IsABag(bronze) /\ landed = FALSE
  BY DEF Init, BronzeInit, EmptyBag, SetToBag, BagToSet, IsABag
<1>4. BronzeTypeOK
  BY <1>3 DEF BronzeTypeOK
<1>5. CheckpointInv
  BY <1>1 DEF Init, EngineInit, ZeroOffsets, CheckpointInv
<1>6. RowsAreRecords /\ LandedInv /\ CopiesInv
  BY <1>1, <1>3 DEF RowsAreRecords, LandedInv, CopiesInv
<1>7. QED
  BY <1>1, <1>2, <1>4, <1>5, <1>6 DEF IInv, Typed, BronzeInv

(* Every step of the system keeps the invariant.                             *)
LEMMA NextInv ==
    ASSUME IInv, [Next]_vars
    PROVE  IInv'
<1>1. CASE Source
  <2>1. CaptureNext /\ UNCHANGED <<engineVars, bronzeVars>>
    BY <1>1 DEF Source
  <2>2. SourceTypes' /\ SourceInv' /\ TopicGrows
    BY <2>1, SourceTypesStep, SourceInvStep, SourceGrows DEF IInv, Typed
  <2>3. EngineTypeOK' /\ BronzeTypeOK'
    BY <2>1 DEF IInv, Typed, EngineTypeOK, BronzeTypeOK, engineVars, bronzeVars
  <2>4. QED
    BY <2>1, <2>2, <2>3, GrowBronze DEF IInv, Typed
<1>2. CASE Job
  <2>0. BronzeNext /\ UNCHANGED captureVars
    BY <1>2 DEF Job
  <2>1. CASE EngineStep /\ UNCHANGED bronzeVars
    <3>1. EngineTypeOK' /\ UNCHANGED topicVars
      BY <2>1, EngineTypesStep DEF IInv, Typed, SourceTypes
    <3>2. TopicTypeOK' /\ topic' = topic
      BY <3>1 DEF topicVars, IInv, Typed, SourceTypes, TopicTypeOK
    <3>3. BronzeTypeOK'
      BY <2>1 DEF IInv, Typed, BronzeTypeOK, bronzeVars
    <3>4. QED
      BY <2>0, <2>1, <3>1, <3>2, <3>3, EngineBronze, SourceTypesFrame, SourceInvFrame DEF IInv, Typed
  <2>2. CASE EnsureBronzeTable
    <3>1. UNCHANGED topicVars /\ EngineTypeOK' /\ BronzeTypeOK'
      BY <2>2 DEF EnsureBronzeTable, IInv, Typed, EngineTypeOK, Phases, BronzeTypeOK
    <3>2. TopicTypeOK' /\ topic' = topic
      BY <3>1 DEF topicVars, IInv, Typed, SourceTypes, TopicTypeOK
    <3>3. QED
      BY <2>0, <2>2, <3>1, <3>2, EnsureBronze, SourceTypesFrame, SourceInvFrame DEF IInv, Typed
  <2>3. CASE AppendBatch
    <3>1. UNCHANGED topicVars /\ EngineTypeOK'
      BY <2>3 DEF AppendBatch, IInv, Typed, EngineTypeOK, Phases
    <3>2. TopicTypeOK' /\ topic' = topic
      BY <3>1 DEF topicVars, IInv, Typed, SourceTypes, TopicTypeOK
    <3>3. QED
      BY <2>0, <2>3, <3>1, <3>2, AppendBronze, SourceTypesFrame, SourceInvFrame DEF IInv, Typed
  <2>4. QED
    BY <2>0, <2>1, <2>2, <2>3 DEF BronzeNext, BronzeEngine, EngineStep
<1>3. CASE Retention
  <2>1. UNCHANGED captureVars /\ UNCHANGED engineVars /\ UNCHANGED bronzeVars
    BY <1>3 DEF Retention
  <2>2. EngineTypeOK' /\ BronzeTypeOK'
    BY <2>1 DEF IInv, Typed, EngineTypeOK, BronzeTypeOK, engineVars, bronzeVars
  <2>3. QED
    BY <1>3, <2>1, <2>2, RetentionBronze, SourceTypesFrame, SourceInvFrame DEF IInv, Typed
<1>4. CASE UNCHANGED vars
  <2>1. UNCHANGED captureVars /\ UNCHANGED topicVars /\ UNCHANGED engineVars /\ UNCHANGED bronzeVars
    BY <1>4 DEF vars
  <2>2. EngineTypeOK' /\ BronzeTypeOK' /\ TopicTypeOK' /\ TopicGrows
    BY <2>1 DEF IInv, Typed, SourceTypes, TopicTypeOK, EngineTypeOK, BronzeTypeOK, TopicGrows,
                topicVars, engineVars, bronzeVars
  <2>3. topic' = topic
    BY <2>1 DEF topicVars
  <2>4. QED
    BY <2>1, <2>2, <2>3, GrowBronze, SourceTypesFrame, SourceInvFrame DEF IInv, Typed
<1>5. QED
  BY <1>1, <1>2, <1>3, <1>4 DEF Next

(* The invariant holds in every state of every behavior.                     *)
LEMMA Invariance == Spec => []IInv
<1>1. Init => IInv
  BY InitInv
<1>2. IInv /\ [Next]_vars => IInv'
  BY NextInv
<1>3. QED
  BY <1>1, <1>2, PTL DEF Spec

(* What is committed counts as written.                                      *)
LEMMA DoneCovers ==
    ASSUME IInv, NEW p \in Partitions, NEW i \in 1..Len(topic[p]), i <= commits[p]
    PROVE  i <= Done[p]
BY DEF Done, IInv, Typed, SourceTypes, TopicTypeOK, EngineTypeOK, Offsets, BronzeInv, CheckpointInv

-----------------------------------------------------------------------------
(* The topic, the WAL, the checkpoint and Bronze always have their types:    *)
(* what is appended is a bag of tombstones and of changes that carry the     *)
(* images of their kind, the old row of every update and delete among them.  *)
THEOREM BronzeTypeCorrect == Spec => []TypeOK
<1>1. IInv => TypeOK
  BY DEF IInv, Typed, SourceTypes, TypeOK
<1>2. QED
  BY <1>1, Invariance, PTL

(* At-least-once, BronzeJob.process_batch and the checkpoint, whatever the   *)
(* retention: no record that is committed and still in Kafka is missing from *)
(* Bronze, whatever fails and however often the checkpoint is deleted.       *)
THEOREM KeptRecordsAreInBronze == Spec => []KeptRecordsLanded
<1>1. IInv => KeptRecordsLanded
  <2> SUFFICES ASSUME IInv, NEW p \in Partitions, NEW i \in 1..Len(topic[p]),
                      logStart[p] < i, i <= commits[p]
               PROVE  Copies(p, i) > 0
    BY DEF KeptRecordsLanded
  <2>1. i <= Done[p]
    BY DoneCovers
  <2>2. Landings(p, i) > 0
    BY <2>1 DEF IInv, BronzeInv, LandedInv
  <2>3. QED
    BY <2>2, CopiesAreLandings DEF IInv, Typed, BronzeInv
<1>2. QED
  BY <1>1, Invariance, PTL

(* When retention removes only what Bronze has committed, no committed       *)
(* record is missing from Bronze, not even after it has left Kafka and the   *)
(* checkpoint has been deleted.  The hypothesis is needed: failOnDataLoss is *)
(* false (engine.py:44), and the job commits past what has expired unread.   *)
THEOREM NothingIsLost ==
    ASSUME RetentionCoversLag
    PROVE  Spec => []CommittedRecordsLanded
<1>1. IInv => CommittedRecordsLanded
  <2> SUFFICES ASSUME IInv, NEW p \in Partitions, NEW i \in 1..Len(topic[p]),
                      i <= commits[p] \/ i <= logStart[p]
               PROVE  Copies(p, i) > 0
    BY DEF CommittedRecordsLanded
  <2>1. i <= Done[p] \/ i <= logStart[p]
    BY DoneCovers
  <2>2. logStart[p] \in Nat /\ i \in Nat
    BY DEF IInv, Typed, SourceTypes, TopicTypeOK, Offsets
  <2>3. Landings(p, i) > 0
    BY <2>1, <2>2 DEF IInv, BronzeInv, LandedInv
  <2>4. QED
    BY <2>3, CopiesAreLandings DEF IInv, Typed, BronzeInv
<1>2. QED
  BY <1>1, Invariance, PTL

(* No more copies of a record than the driver has had lives: batches that    *)
(* are planned again in the same life, resets and redeliveries add none.     *)
THEOREM DuplicatesAreFailures == Spec => []CopiesBoundedByFailures
<1>1. IInv => CopiesBoundedByFailures
  <2> SUFFICES ASSUME IInv, NEW p \in Partitions, NEW i \in 1..Len(topic[p])
               PROVE  Copies(p, i) <= 1 + restarts
    BY DEF CopiesBoundedByFailures
  <2>1. Landings(p, i) <= restarts + (IF phase # "down" /\ i <= Done[p] THEN 1 ELSE 0)
    BY DEF IInv, BronzeInv, CopiesInv
  <2>2. restarts \in Nat
    BY DEF IInv, Typed, EngineTypeOK
  <2>3. Copies(p, i) = Landings(p, i) /\ Landings(p, i) \in Nat
    BY CopiesAreLandings DEF IInv, Typed, BronzeInv
  <2>4. QED
    BY <2>1, <2>2, <2>3
<1>2. QED
  BY <1>1, Invariance, PTL

-----------------------------------------------------------------------------
(* The rebuild.  What is read back from Bronze, flattened, is a row for each *)
(* event of the topic, and rows of NULLs.                                    *)
Flat == {Flatten(d) : d \in BagToSet(bronze)}

(* Once everything is committed, the two are in correspondence.              *)
LEMMA FlatHasEvents ==
    ASSUME RetentionCoversLag, IInv, Drained
    PROVE  /\ \A f \in Flat : \A k \in Keys : f.pk = k =>
                 \E i \in Slots(k) : IsEvent(k, i) /\ f = RowOf(k, i)
           /\ \A f \in Flat : f.pk = NULL \/ f.pk \in Keys
           /\ \A f \in Flat : f.pk = NULL => f.op = NULL
           /\ \A k \in Keys : \A i : IsEvent(k, i) => RowOf(k, i) \in Flat
<1>1. ASSUME NEW f \in Flat
      PROVE  \/ f.pk = NULL /\ f.op = NULL
             \/ /\ f.pk \in Keys /\ f.pk # NULL
                /\ \E i \in Slots(f.pk) : IsEvent(f.pk, i) /\ f = RowOf(f.pk, i)
  <2>1. PICK d \in BagToSet(bronze) : f = Flatten(d)
    BY DEF Flat
  <2>2. PICK p \in Partitions : \E i \in 1..Len(topic[p]) : d = Decode(p, i)
    BY DEF IInv, BronzeInv, RowsAreRecords
  <2>3. PICK i \in 1..Len(topic[p]) : d = Decode(p, i)
    BY <2>2
  <2>4. QED
    BY <2>1, <2>3, FlatRow DEF IInv, Typed
<1>2. ASSUME NEW k \in Keys, NEW i, IsEvent(k, i)
      PROVE  RowOf(k, i) \in Flat
  <2> DEFINE p == PartitionOf[k]
  <2>1. p \in Partitions /\ i \in 1..Len(topic[p])
    BY <1>2, TopicAssumption DEF IsEvent, Slots
  <2>2. i <= Done[p]
    BY <2>1 DEF Drained, Done, IInv, Typed, SourceTypes, TopicTypeOK
  <2>3. Landings(p, i) > 0
    BY <2>1, <2>2 DEF IInv, BronzeInv, LandedInv, Typed, SourceTypes, TopicTypeOK, Offsets
  <2>4. Decode(p, i) \in BagToSet(bronze)
    BY <2>3 DEF Landings, CopyCount
  <2>5. QED
    BY <2>4 DEF Flat, RowOf
<1>3. \A k \in Keys : k # NULL
  BY TopicAssumption
<1>4. QED
  BY <1>1, <1>2, <1>3

(* The newest event of a key decides what the rebuilt table shows of it.     *)
LEMMA RebuildShows ==
    ASSUME RetentionCoversLag, IInv, Drained, NEW winners \in Deduplications(Flat),
           NEW k \in Keys, NEW i \in Slots(k), IsLast(k, i), IsNewest(k, i)
    PROVE  ViewOf(Merge({}, winners, 0))[k] = VersionAfter(Event(k, i))
<1> DEFINE table == Merge({}, winners, 0)
           e == Event(k, i)
           f == RowOf(k, i)
<1>1. /\ winners \subseteq Flat
      /\ UniqueKey(winners)
      /\ \A g \in Flat : \E w \in winners : w.pk = g.pk /\ RanksFirst(w, g)
  BY WinnersUnique
<1>2. IsEvent(k, i) /\ \A j : IsEvent(k, j) => Event(k, j).lsn <= e.lsn
  BY LastAndNewest
<1>3. /\ f.pk = k /\ f.source_lsn = e.lsn /\ e.lsn \in Nat /\ e.lsn # NULL
      /\ e \in Envelope /\ WellFormed(e)
  BY <1>2, RowOfEvent DEF IInv, Typed
<1>4. f \in Flat
  BY <1>2, FlatHasEvents
<1>5. PICK w \in winners : w.pk = k /\ RanksFirst(w, f)
  BY <1>1, <1>3, <1>4
<1>6. PICK j \in Slots(k) : IsEvent(k, j) /\ w = RowOf(k, j)
  BY <1>1, <1>5, FlatHasEvents
<1>7. /\ w.op = Event(k, j).op /\ w.op # NULL
      /\ w.source_lsn = Event(k, j).lsn /\ w.source_lsn \in Nat /\ w.source_lsn # NULL
      /\ w.op # OP_DELETE => w.version = Event(k, j).after.version
  BY <1>6, RowOfEvent DEF IInv, Typed
<1>8. Event(k, j).lsn = e.lsn
  <2>1. w.source_lsn <= e.lsn
    BY <1>2, <1>6, <1>7
  <2>2. w.source_lsn >= e.lsn
    BY <1>3, <1>5, <1>7 DEF RanksFirst, Before
  <2>3. QED
    BY <1>3, <1>7, <2>1, <2>2
<1>9. Event(k, j) = e
  BY <1>2, <1>6, <1>8, SameLsnSameEvent DEF IInv, Typed
<1>10. \A s \in winners : s.pk = k => s = w
  BY <1>1, <1>5 DEF UniqueKey
<1>11. table = {Persisted(s, 0) : s \in {s \in winners : IsNotDelete(s)}}
  BY DEF Merge, DeletedBy, UpdatedBy, Updates, Inserts
<1>12. CASE e.op = OP_DELETE
  <2>1. ~IsNotDelete(w)
    BY <1>7, <1>9, <1>12 DEF IsNotDelete
  <2>2. \A t \in table : t.pk # k
    BY <1>10, <1>11, <2>1 DEF Persisted
  <2>3. VersionAfter(e) = NULL
    BY <1>3, <1>12 DEF WellFormed, VersionAfter
  <2>4. QED
    BY <2>2, <2>3 DEF ViewOf
<1>13. CASE e.op # OP_DELETE
  <2> DEFINE t == Persisted(w, 0)
  <2>1. IsNotDelete(w)
    BY <1>7, <1>9, <1>13 DEF IsNotDelete
  <2>2. t \in table /\ t.pk = k /\ t.version = e.after.version
    BY <1>5, <1>7, <1>9, <1>11, <1>13, <2>1 DEF Persisted
  <2>3. \A u \in table : u.pk = k => u = t
    BY <1>10, <1>11 DEF Persisted
  <2>4. VersionAfter(e) = e.after.version
    BY <1>3, <1>13 DEF WellFormed, VersionAfter
  <2> HIDE DEF t, table
  <2>5. (CHOOSE u \in table : u.pk = k) = t
    BY <2>2, <2>3
  <2>6. QED
    BY <2>2, <2>4, <2>5 DEF ViewOf, table
<1>14. QED
  BY <1>12, <1>13

(* bronze/job.py, Design: Silver can be rebuilt from Bronze alone.  When     *)
(* retention removes only what Bronze has committed: once everything is      *)
(* emitted and committed, deduplicating all of Bronze, with every duplicate  *)
(* and redelivery in it, and merging it into an empty table gives exactly    *)
(* the rows of the source table.                                             *)
THEOREM BronzeRebuildsSilver ==
    ASSUME RetentionCoversLag
    PROVE  Spec => []RebuildMirrorsSource
<1>1. IInv => RebuildMirrorsSource
  <2> SUFFICES ASSUME IInv, CaptureDone, Drained, NEW winners \in Deduplications(Flat)
               PROVE  ViewOf(Merge({}, winners, 0)) = rows
    BY DEF RebuildMirrorsSource, Flat
  <2> DEFINE view == ViewOf(Merge({}, winners, 0))
  <2>1. ASSUME NEW k \in Keys
        PROVE  view[k] = rows[k]
    <3>1. CASE rows[k] = NULL /\ \A i \in Slots(k) : ~IsEvent(k, i)
      <4>1. \A w \in winners : w.pk # k
        BY <3>1, FlatHasEvents, WinnersUnique
      <4>2. \A t \in Merge({}, winners, 0) : t.pk # k
        BY <4>1 DEF Merge, DeletedBy, UpdatedBy, Updates, Inserts, Persisted
      <4>3. QED
        BY <3>1, <4>2 DEF ViewOf
    <3>2. CASE \E i \in Slots(k) : /\ IsLast(k, i)
                                   /\ IsNewest(k, i)
                                   /\ rows[k] = VersionAfter(Event(k, i))
      BY <3>2, RebuildShows
    <3>3. QED
      BY <3>1, <3>2, EmittedRows DEF IInv, Typed
  <2>2. view = [k \in Keys |-> view[k]] /\ rows = [k \in Keys |-> rows[k]]
    BY DEF ViewOf, IInv, Typed, SourceTypes, CaptureTypeOK
  <2> HIDE DEF view
  <2>3. view = rows
    BY <2>1, <2>2
  <2>4. QED
    BY <2>3 DEF view
<1>2. QED
  BY <1>1, Invariance, PTL
=============================================================================
