----------------------------- MODULE CdcCapture -----------------------------
(* The capture side: one Postgres table written by the workload, its WAL,    *)
(* and the Debezium connector (postgres-connector.json) that turns the WAL   *)
(* into records of the CDC topic.                                            *)
(*                                                                           *)
(* The connector runs one task, so it emits in WAL order; Kafka Connect      *)
(* stores its source offset only from time to time, so after a restart it    *)
(* emits again everything since the offset it last stored (at-least-once).   *)
(* The initial snapshot, at LSN 0, is taken while the workload writes; it is *)
(* assumed to end without a restart of the connector.                        *)
EXTENDS KafkaTopic

CONSTANTS CommitClock, \* source.ts_ms of the change at each LSN: a wall clock
          MaxLsn,      \* bound: writes the workload makes
          MaxRewinds   \* bound: connector restarts that lose stored progress

ASSUME CaptureAssumption ==
    /\ MaxLsn \in Nat
    /\ MaxRewinds \in Nat
    /\ CommitClock \in [0..MaxLsn -> Int]

VARIABLES rows,        \* version of each source row, NULL if there is none
          wal,         \* change events of the table, wal[lsn]
          snapTodo,    \* keys the initial snapshot still has to emit
          pos,         \* LSN of the last change emitted
          flushed,     \* LSN stored as the connector's source offset
          rewinds      \* how many times emission went back to flushed

captureVars == <<rows, wal, snapTodo, pos, flushed, rewinds>>

-----------------------------------------------------------------------------
RowImage(k) == IF rows[k] = NULL THEN NULL ELSE [pk |-> k, version |-> rows[k]]

EventKey(e) == IF e.after # NULL THEN e.after.pk ELSE e.before.pk

SnapshotEvent(k) == [before |-> NULL, after |-> [pk |-> k, version |-> 0],
                     op |-> OP_READ, lsn |-> 0, ts_ms |-> CommitClock[0]]

CaptureTypeOK ==
    /\ rows \in [Keys -> Nat \cup {NULL}]
    /\ wal \in Seq(Envelope)
    /\ snapTodo \subseteq Keys
    /\ pos \in 0..Len(wal)
    /\ flushed \in 0..pos
    /\ rewinds \in Nat

\* seed_source has filled part of the table before the connector starts.
CaptureInit ==
    /\ rows \in [Keys -> {0, NULL}]
    /\ wal = <<>>
    /\ snapTodo = {k \in Keys : rows[k] # NULL}
    /\ pos = 0
    /\ flushed = 0
    /\ rewinds = 0

-----------------------------------------------------------------------------
\* Mutant: the table keeps REPLICA IDENTITY DEFAULT: an update that leaves the
\* primary key alone is logged without its old row.
WriteDefaultIdentity(k, op, version) ==
    LET lsn == Len(wal) + 1
        after == IF version = NULL THEN NULL ELSE [pk |-> k, version |-> version]
    IN  /\ Len(wal) < MaxLsn
        /\ wal' = Append(wal, [before |-> IF op = OP_UPDATE THEN NULL ELSE RowImage(k),
                               after |-> after, op |-> op,
                               lsn |-> lsn, ts_ms |-> CommitClock[lsn]])
        /\ rows' = [rows EXCEPT ![k] = version]
        /\ UNCHANGED <<topicVars, snapTodo, pos, flushed, rewinds>>

\* The workload commits one change; REPLICA IDENTITY FULL puts the complete
\* old row into the event.
Write(k, op, version) ==
    LET lsn == Len(wal) + 1
        after == IF version = NULL THEN NULL ELSE [pk |-> k, version |-> version]
    IN  /\ Len(wal) < MaxLsn
        /\ wal' = Append(wal, [before |-> RowImage(k), after |-> after, op |-> op,
                               lsn |-> lsn, ts_ms |-> CommitClock[lsn]])
        /\ rows' = [rows EXCEPT ![k] = version]
        /\ UNCHANGED <<topicVars, snapTodo, pos, flushed, rewinds>>

InsertRow(k) == rows[k] = NULL /\ Write(k, OP_CREATE, Len(wal) + 1)
UpdateRow(k) == rows[k] # NULL /\ Write(k, OP_UPDATE, Len(wal) + 1)
DeleteRow(k) == rows[k] # NULL /\ Write(k, OP_DELETE, NULL)

\* snapshot.mode=initial: one read event per row of the table at LSN 0.
SnapshotRow(k) ==
    /\ k \in snapTodo
    /\ Produce(k, <<[key |-> k, value |-> SnapshotEvent(k)]>>)
    /\ snapTodo' = snapTodo \ {k}
    /\ UNCHANGED <<rows, wal, pos, flushed, rewinds>>

\* The connector emits the next change; tombstones.on.delete adds the tombstone.
Capture ==
    /\ snapTodo = {}
    /\ pos < Len(wal)
    /\ LET e == wal[pos + 1]
           k == EventKey(e)
           change == <<[key |-> k, value |-> e]>>
           tombstone == <<[key |-> k, value |-> NULL]>>
       IN  Produce(k, IF e.op = OP_DELETE THEN change \o tombstone ELSE change)
    /\ pos' = pos + 1
    /\ UNCHANGED <<rows, wal, snapTodo, flushed, rewinds>>

\* Kafka Connect stores the source offset of what has been acknowledged.
FlushOffsets ==
    /\ flushed # pos
    /\ flushed' = pos
    /\ UNCHANGED <<topicVars, rows, wal, snapTodo, pos, rewinds>>

\* The connector stops and starts again; slot.drop.on.stop=false keeps the WAL.
ConnectorRestart ==
    /\ flushed # pos
    /\ rewinds < MaxRewinds
    /\ rewinds' = rewinds + 1
    /\ pos' = flushed
    /\ UNCHANGED <<topicVars, rows, wal, snapTodo, flushed>>

Workload == \E k \in Keys : InsertRow(k) \/ UpdateRow(k) \/ DeleteRow(k)

CaptureNext ==
    \/ Workload
    \/ \E k \in Keys : SnapshotRow(k)
    \/ Capture
    \/ FlushOffsets
    \/ ConnectorRestart

\* Everything the source has committed has been emitted.
CaptureDone == snapTodo = {} /\ pos = Len(wal)
-----------------------------------------------------------------------------
(* What holds of the source, the WAL and the topic at all times.  An "event" *)
(* of a key is a record with a value; the last one in the key's partition is *)
(* what a table of current rows has to end up showing, once it is also the   *)
(* newest.                                                                   *)
Slots(k) == 1..Len(topic[PartitionOf[k]])

Event(k, i) == topic[PartitionOf[k]][i].value

IsEvent(k, i) ==
    /\ i \in Slots(k)
    /\ topic[PartitionOf[k]][i].key = k
    /\ Event(k, i) # NULL

IsLast(k, i) == IsEvent(k, i) /\ \A j \in Slots(k) : IsEvent(k, j) => j <= i

IsNewest(k, i) == \A j \in Slots(k) : IsEvent(k, j) => Event(k, j).lsn <= Event(k, i).lsn

VersionAfter(e) == IF e.after = NULL THEN NULL ELSE e.after.version

\* The WAL is numbered by LSN, and every change says whose it is.
WalNumbered == \A n \in 1..Len(wal) : WellFormed(wal[n]) /\ wal[n].lsn = n

\* The table is what the last change of each key left.
TableInv ==
    \A k \in Keys : \A n \in 1..Len(wal) :
        /\ EventKey(wal[n]) = k
        /\ \A m \in 1..Len(wal) : EventKey(wal[m]) = k => m <= n
        => rows[k] = VersionAfter(wal[n])

\* A record is on its key's partition and carries a change of that key.
TopicInv ==
    \A p \in Partitions : \A i \in 1..Len(topic[p]) :
        LET r == topic[p][i]
        IN  /\ PartitionOf[r.key] = p
            /\ r.value # NULL =>
                  \/ r.value = SnapshotEvent(r.key)
                  \/ \E n \in 1..Len(wal) : r.value = wal[n] /\ EventKey(wal[n]) = r.key

\* The snapshot comes before any change.
SnapshotFirst == snapTodo # {} => pos = 0

\* What the connector has passed is in the topic, and not behind older events.
PassedAndLast ==
    \A k \in Keys : \A n \in 1..pos : EventKey(wal[n]) = k =>
        \E i \in Slots(k) : IsLast(k, i) /\ Event(k, i).lsn >= n

\* A row nobody has written since the snapshot LSN is, or will be, read by it.
UnwrittenRows ==
    \A k \in Keys : (\A n \in 1..Len(wal) : EventKey(wal[n]) # k) =>
        IF rows[k] = NULL
        THEN k \notin snapTodo /\ \A i \in Slots(k) : ~IsEvent(k, i)
        ELSE rows[k] = 0 /\ (k \in snapTodo \/ \E i \in Slots(k) : IsLast(k, i))
=============================================================================
