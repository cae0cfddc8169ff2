---------------------------- MODULE SilverPipeline ----------------------------
(* One table from Postgres to Silver: the workload and Debezium              *)
(* (CdcCapture), the topic (KafkaTopic) and the Silver job (SilverJob), with *)
(* the interleavings of all of them, connector restarts, driver failures,    *)
(* checkpoint resets and log retention.                                      *)
EXTENDS CdcCapture, SilverJob

CONSTANT RetentionCoversLag   \* retention removes only what Silver committed

ASSUME RetentionAssumption == RetentionCoversLag \in BOOLEAN

vars == <<topicVars, captureVars, engineVars, silverVars>>

TypeOK == TopicTypeOK /\ CaptureTypeOK /\ EngineTypeOK /\ SilverTypeOK

Init == TopicInit /\ CaptureInit /\ EngineInit /\ SilverInit

Source == CaptureNext /\ UNCHANGED <<engineVars, silverVars>>

Job == JobNext /\ UNCHANGED captureVars

Retention ==
    /\ \E p \in Partitions :
          /\ RetentionCoversLag => logStart[p] < commits[p]
          /\ ExpireRecord(p)
    /\ UNCHANGED <<captureVars, engineVars, silverVars>>

Next == Source \/ Job \/ Retention

\* The connector task and the driver are restarted by Connect and Kubernetes
\* and keep running; Kafka Connect, retention, operators and the workload owe
\* nothing.  A driver fails at most MaxRestarts times, so it cannot fail forever.
Fairness ==
    /\ WF_vars((Capture \/ \E k \in Keys : SnapshotRow(k)) /\ UNCHANGED <<engineVars, silverVars>>)
    /\ WF_vars((Start \/ PlanBatch \/ CommitBatch) /\ UNCHANGED <<captureVars, silverVars>>)
    /\ WF_vars((EnsureTable \/ MergeBatch) /\ UNCHANGED captureVars)

Spec == Init /\ [][Next]_vars

FairSpec == Spec /\ Fairness

-----------------------------------------------------------------------------
(* The invariant behind convergence: the source's part of it is stated with  *)
(* CdcCapture, the checkpoint's with StreamingEngine.                        *)
Shows(k, e) ==
    IF e.op = OP_DELETE
    THEN \A t \in silver : t.pk # k
    ELSE \E t \in silver : t.pk = k /\ t.version = e.after.version

(* The MERGE key stays a key: no two rows of the Iceberg table, which has no *)
(* constraint of its own, share a primary key.  The deduplication of a batch *)
(* (job.py:63-72) keeps a MERGE from inserting a key twice.                  *)
OneRowPerKey == \A t, u \in silver : t.pk = u.pk => t = u

SilverInv ==
    /\ OneRowPerKey
    /\ \A t \in silver : \E i \in Slots(t.pk) : /\ IsEvent(t.pk, i)
                                              /\ t.source_lsn <= Event(t.pk, i).lsn
    /\ \A k \in Keys : \A i \in Slots(k) :
          /\ IsLast(k, i)
          /\ IsNewest(k, i)
          /\ i <= Done[PartitionOf[k]] \/ i <= logStart[PartitionOf[k]]
          => Shows(k, Event(k, i))

(* The inductive invariant of CaughtUpMirrorsSource: a key whose last event  *)
(* is also its newest, and has been merged or has expired after it was, is   *)
(* shown as that event left it, and the connector never leaves a key with a  *)
(* last event older than what it has passed.                                 *)
ConvergenceInv ==
    /\ WalNumbered
    /\ TopicInv
    /\ TableInv
    /\ SnapshotFirst
    /\ PassedAndLast
    /\ UnwrittenRows
    /\ CheckpointInv
    /\ SilverInv

-----------------------------------------------------------------------------
(* Every change event of k among the first n[p] records of its partition.    *)
EventsUpTo(n, k) ==
    LET records == topic[PartitionOf[k]]
    IN  {records[i].value : i \in {j \in 1..n[PartitionOf[k]] :
            records[j].key = k /\ records[j].value # NULL}}

(* HOW_IT_WORKS.md, Problem 2: truth is decided by source order.  Whatever   *)
(* has been merged so far, in whatever order and however often, Silver shows *)
(* for every key the change with the highest LSN among it: a late, older     *)
(* change never wins.                                                        *)
OldChangeNeverWins ==
    \A k \in Keys :
        LET merged == EventsUpTo(applied, k)
        IN  IF merged = {}
            THEN SilverView[k] = NULL
            ELSE \E e \in merged : /\ \A f \in merged : f.lsn <= e.lsn
                                   /\ SilverView[k] = VersionAfter(e)

(* Convergence: once the connector has emitted every committed change and    *)
(* the job has committed every record, Silver holds exactly the rows of the  *)
(* source table, whatever was redelivered, replayed or expired on the way.   *)
CaughtUpMirrorsSource ==
    CaptureDone /\ Drained => SilverView = rows

(* Every row of Silver is, column by column, the after image of one insert,  *)
(* update or snapshot read, with that event's own LSN and clock: a delete's  *)
(* before image and a tombstone never become rows.                           *)
RowsAreCommittedWrites ==
    \A t \in silver :
        \E e \in {wal[i] : i \in DOMAIN wal} \cup {SnapshotEvent(k) : k \in Keys} :
            /\ e.after = [pk |-> t.pk, version |-> t.version]
            /\ e.lsn = t.source_lsn
            /\ e.ts_ms = t.source_ts_ms

(* The LSN guard of the MERGE: while a row stays in Silver, no step takes it *)
(* to an image with a lower LSN than the one it has.                         *)
LsnNeverRegresses ==
    [][\A t \in silver, u \in silver' : t.pk = u.pk => u.source_lsn >= t.source_lsn]_vars

(* HOW_IT_WORKS.md, Problem 4: a batch that was merged and not committed is  *)
(* merged again after the failure, and changes no column but the timestamp   *)
(* of the merge (in a life of the checkpoint: no reset).                     *)
ReplayChangesOnlyStamps ==
    [][(resets = 0 /\ phase = "ensured" /\ phase' = "written"
            /\ \A p \in Partitions : offsets[p] <= applied[p])
          => Contents(silver') = Contents(silver)]_vars

(* Every committed change reaches Silver: when the workload is over, Silver  *)
(* comes to mirror the source table and stays so.                            *)
EventuallyMirrorsSource == <>[](SilverView = rows)

-----------------------------------------------------------------------------
(* The job implements the exactly-once replica when nothing is delivered     *)
(* twice by the connector and the checkpoint is never deleted: crashes and   *)
(* replays of a batch are then invisible.                                    *)
LogEntry(r) == [key |-> r.key, value |-> IF r.value = NULL THEN NULL ELSE VersionAfter(r.value)]

Replica == INSTANCE ExactlyOnceReplica WITH
    log <- [p \in Partitions |-> [i \in DOMAIN topic[p] |-> LogEntry(topic[p][i])]],
    view <- SilverView

ImplementsExactlyOnce == Replica!Spec
=============================================================================
