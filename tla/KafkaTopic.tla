----------------------------- MODULE KafkaTopic -----------------------------
(* One CDC topic of the platform (one replicated table), as both sides of    *)
(* Kafka see it: Debezium appends records to its partitions, the streaming   *)
(* jobs read them by offset, and retention removes the oldest ones.          *)
(*                                                                           *)
(* Debezium keys every record by the primary key, so all the records of a    *)
(* key are on one partition, PartitionOf[key].  A record's value is a        *)
(* Debezium envelope, or NULL for the tombstone that follows a delete.  A    *)
(* row image is reduced to its key and its version, the LSN of the write     *)
(* that produced it: two images are the same image iff both agree.           *)
EXTENDS Integers, Sequences, FiniteSets

CONSTANTS Keys,         \* primary keys of the replicated table
          Partitions,   \* partitions of its topic
          PartitionOf,  \* the producer's partitioner, a function of the key
          NULL          \* SQL NULL, a null record value, an absent row

VARIABLES topic,     \* the records of each partition, in offset order
          logStart   \* how many leading records retention has removed

topicVars == <<topic, logStart>>

-----------------------------------------------------------------------------
OP_CREATE == "c"
OP_UPDATE == "u"
OP_DELETE == "d"
OP_READ   == "r"
Ops == {OP_CREATE, OP_UPDATE, OP_DELETE, OP_READ}

Image == [pk : Keys, version : Nat]

Envelope == [before : Image \cup {NULL}, after : Image \cup {NULL},
             op : Ops, lsn : Nat, ts_ms : Int]

\* The images a kind of change carries: the new row unless it is deleted, and,
\* with REPLICA IDENTITY FULL, the complete old row wherever there was one.
WellFormed(e) ==
    /\ e.after = NULL <=> e.op = OP_DELETE
    /\ e.before = NULL <=> e.op \in {OP_CREATE, OP_READ}

Record == [key : Keys, value : Envelope \cup {NULL}]

Offsets == [Partitions -> Nat]

\* NULL is none of the values it stands in for.
ASSUME TopicAssumption ==
    /\ PartitionOf \in [Keys -> Partitions]
    /\ NULL \notin Keys \cup Int \cup Ops \cup Image \cup Envelope

TopicTypeOK ==
    /\ topic \in [Partitions -> Seq(Record)]
    /\ logStart \in Offsets

TopicInit ==
    /\ topic = [p \in Partitions |-> <<>>]
    /\ logStart = [p \in Partitions |-> 0]

\* The producer appends the records of one key to the key's partition.
Produce(k, records) ==
    /\ topic' = [topic EXCEPT ![PartitionOf[k]] = @ \o records]
    /\ UNCHANGED logStart

\* Retention removes the oldest record still in the partition.
ExpireRecord(p) ==
    /\ logStart[p] < Len(topic[p])
    /\ logStart' = [logStart EXCEPT ![p] = @ + 1]
    /\ UNCHANGED topic

-----------------------------------------------------------------------------
\* decode_cdc: from_avro of a null value is null, so payload.* of a tombstone
\* is a row of NULLs; the Kafka coordinates are always present.
Decode(p, offset) ==
    LET v == topic[p][offset].value
    IN  [kafka_partition |-> p, kafka_offset |-> offset,
         before |-> IF v = NULL THEN NULL ELSE v.before,
         after  |-> IF v = NULL THEN NULL ELSE v.after,
         op     |-> IF v = NULL THEN NULL ELSE v.op,
         lsn    |-> IF v = NULL THEN NULL ELSE v.lsn,
         ts_ms  |-> IF v = NULL THEN NULL ELSE v.ts_ms]

\* Mutant: the end offset of the range is taken as exclusive.
PollEndExclusive(from, to) ==
    UNION {{Decode(p, offset) :
              offset \in {o \in 1..Len(topic[p]) :
                            o > from[p] /\ o > logStart[p] /\ o < to[p]}} :
           p \in Partitions}

\* Mutant: every batch starts at the earliest offset again.
PollFromEarliest(from, to) ==
    UNION {{Decode(p, offset) :
              offset \in {o \in 1..Len(topic[p]) : o > logStart[p] /\ o <= to[p]}} :
           p \in Partitions}

\* What a consumer gets for the range from[p] < offset <= to[p] of every
\* partition.  failOnDataLoss=false: records retention has already removed
\* are skipped without an error.
Poll(from, to) ==
    UNION {{Decode(p, offset) :
              offset \in {o \in 1..Len(topic[p]) :
                            o > from[p] /\ o > logStart[p] /\ o <= to[p]}} :
           p \in Partitions}
=============================================================================
