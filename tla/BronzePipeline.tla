---------------------------- MODULE BronzePipeline ----------------------------
(* One table from Postgres to Bronze: the workload and Debezium, the topic   *)
(* and the Bronze job, and what can be rebuilt from the Bronze table with    *)
(* Silver's transformations.                                                 *)
EXTENDS CdcCapture, BronzeJob, SilverTransform

CONSTANT RetentionCoversLag   \* retention removes only what Bronze committed

ASSUME RetentionAssumption == RetentionCoversLag \in BOOLEAN

vars == <<topicVars, captureVars, engineVars, bronzeVars>>

TypeOK == TopicTypeOK /\ CaptureTypeOK /\ EngineTypeOK /\ BronzeTypeOK

Init == TopicInit /\ CaptureInit /\ EngineInit /\ BronzeInit

Source == CaptureNext /\ UNCHANGED <<engineVars, bronzeVars>>

Job == BronzeNext /\ UNCHANGED captureVars

Retention ==
    /\ \E p \in Partitions :
          /\ RetentionCoversLag => logStart[p] < commits[p]
          /\ ExpireRecord(p)
    /\ UNCHANGED <<captureVars, engineVars, bronzeVars>>

Next == Source \/ Job \/ Retention

Spec == Init /\ [][Next]_vars

-----------------------------------------------------------------------------
(* At-least-once: a record that a committed batch covers and Kafka still     *)
(* holds is in Bronze, whatever the driver's failures and deletions of the   *)
(* checkpoint.  What had expired when its batch was planned is another       *)
(* matter: with failOnDataLoss=false the engine commits past it.             *)
KeptRecordsLanded ==
    \A p \in Partitions : \A offset \in 1..Len(topic[p]) :
        logStart[p] < offset /\ offset <= commits[p] => Copies(p, offset) > 0

(* Under RetentionCoversLag, nothing a committed batch covers is missing     *)
(* from Bronze, even once retention has removed it from Kafka and the        *)
(* checkpoint has been deleted.  Without that hypothesis Bronze loses        *)
(* records as Silver does (engine.py:44, failOnDataLoss=false).              *)
CommittedRecordsLanded ==
    \A p \in Partitions : \A offset \in 1..Len(topic[p]) :
        offset <= commits[p] \/ offset <= logStart[p] => Copies(p, offset) > 0

(* Duplicates come from failures only: a record has no more copies than the  *)
(* driver has had lives, however many batches, redeliveries and resets there *)
(* were.                                                                     *)
CopiesBoundedByFailures ==
    \A p \in Partitions : \A offset \in 1..Len(topic[p]) :
        Copies(p, offset) <= 1 + restarts

(* bronze/job.py, Design: Bronze is a replayable source of truth for         *)
(* rebuilding Silver.  When everything the source committed is emitted and   *)
(* covered by committed batches, deduplicating all of Bronze and merging it  *)
(* into an empty table would give exactly the source rows, with all the      *)
(* duplicates and redeliveries it contains: under RetentionCoversLag, for    *)
(* otherwise committed offsets may be missing from Bronze.  (No code of the  *)
(* repository performs the rebuild.)                                         *)
RebuildMirrorsSource ==
    CaptureDone /\ Drained =>
        \A winners \in Deduplications({Flatten(d) : d \in BagToSet(bronze)}) :
            ViewOf(Merge({}, winners, 0)) = rows

(* bronze/job.py:9, Exactly-once: a record is in Bronze at most once.        *)
LandedExactlyOnce ==
    \A p \in Partitions : \A offset \in 1..Len(topic[p]) : Copies(p, offset) <= 1
=============================================================================
