--------------------------- MODULE SilverTransform ---------------------------
(* The dataframe and SQL transformations of SilverJob, as operators on sets  *)
(* of rows: flatten, deduplicate, and the MERGE that build_merge_sql         *)
(* composes, with SQL's three-valued comparisons.  The merge target is a set *)
(* of rows, as an Iceberg table is: nothing in its type makes the key unique.*)
EXTENDS KafkaTopic

SilverRow == [pk : Keys, version : Nat, source_lsn : Nat, source_ts_ms : Int,
              silver_updated_at : Nat]

\* Mutant: flatten keeps the after image only.
FlattenAfterOnly(d) ==
    [pk |-> IF d.after = NULL THEN NULL ELSE d.after.pk,
     version |-> IF d.after = NULL THEN NULL ELSE d.after.version,
     op |-> d.op, source_lsn |-> d.lsn, source_ts_ms |-> d.ts_ms]

\* flatten: coalesce(after, before) becomes the row, op and source.* columns.
Flatten(d) ==
    LET image == IF d.after # NULL THEN d.after ELSE d.before
    IN  [pk |-> IF image = NULL THEN NULL ELSE image.pk,
         version |-> IF image = NULL THEN NULL ELSE image.version,
         op |-> d.op, source_lsn |-> d.lsn, source_ts_ms |-> d.ts_ms]

-----------------------------------------------------------------------------
\* desc_nulls_last on one column: a sorts no later than b / the same as b.
Before(a, b) == a # NULL /\ (b = NULL \/ a > b)

\* Mutant: the newest row is the one with the latest wall-clock time.
RanksFirstByClock(a, b) ==
    \/ Before(a.source_ts_ms, b.source_ts_ms)
    \/ a.source_ts_ms = b.source_ts_ms

\* order_by = [source_lsn, source_ts_ms], both descending.
RanksFirst(a, b) ==
    \/ Before(a.source_lsn, b.source_lsn)
    \/ /\ a.source_lsn = b.source_lsn
       /\ \/ Before(a.source_ts_ms, b.source_ts_ms)
          \/ a.source_ts_ms = b.source_ts_ms

\* Mutant: the batch is merged without deduplication.
NoDeduplications(flat) == {flat}

\* deduplicate: row_number() over (partition by pk order by order_by) = 1.  The
\* rows with NULL keys form one partition; ties may go to any of the tied rows.
Deduplications(flat) ==
    {winners \in SUBSET flat :
        /\ \A f \in flat : \E w \in winners : w.pk = f.pk
        /\ \A w \in winners, f \in flat :
              w.pk = f.pk => /\ RanksFirst(w, f)
                             /\ f \in winners => f = w}

-----------------------------------------------------------------------------
\* ON t.pk = s.pk is never true of a NULL key.
Matches(t, s) == t.pk # NULL /\ s.pk # NULL /\ t.pk = s.pk

\* Mutant: "not a delete" is true of a tombstone's NULL op.
IsNotDeleteNullUnsafe(s) == s.op # OP_DELETE

\* Mutant: any event that matches no row is inserted, a delete too.
IsNotDeleteIgnored(s) == s.op # NULL

\* __is_delete = (op = 'd'), which is NULL when op is.
IsDelete(s)    == s.op = OP_DELETE
IsNotDelete(s) == s.op # NULL /\ s.op # OP_DELETE

\* Mutant: the update is not guarded by the LSN.
LsnIgnored(t, s) == TRUE

LsnAllows(t, s) == \/ t.source_lsn = NULL
                   \/ s.source_lsn = NULL
                   \/ s.source_lsn >= t.source_lsn

Persisted(s, now) ==
    [pk |-> s.pk, version |-> s.version, source_lsn |-> s.source_lsn,
     source_ts_ms |-> s.source_ts_ms, silver_updated_at |-> now]

\* WHEN MATCHED AND s.__is_delete = true THEN DELETE
DeletedBy(target, source) ==
    {t \in target : \E s \in source : Matches(t, s) /\ IsDelete(s)}

\* WHEN MATCHED AND (lsn guard) THEN UPDATE SET every column but the key
UpdatedBy(target, source) ==
    {t \in target : \E s \in source : Matches(t, s) /\ ~IsDelete(s) /\ LsnAllows(t, s)}

Updates(target, source) ==
    {s \in source : \E t \in target : Matches(t, s) /\ ~IsDelete(s) /\ LsnAllows(t, s)}

\* WHEN NOT MATCHED AND s.__is_delete = false THEN INSERT
Inserts(target, source) ==
    {s \in source : IsNotDelete(s) /\ ~\E t \in target : Matches(t, s)}

Merge(target, source, now) ==
    (target \ (DeletedBy(target, source) \cup UpdatedBy(target, source)))
        \cup {Persisted(s, now) : s \in Updates(target, source) \cup Inserts(target, source)}

\* MERGE fails when several source rows match one target row.
CardinalityError(target, source) ==
    \E t \in target, s1, s2 \in source : s1 # s2 /\ Matches(t, s1) /\ Matches(t, s2)

\* The version a table of such rows shows for each key, NULL where it has none.
ViewOf(table) ==
    [k \in Keys |-> IF \E t \in table : t.pk = k
                    THEN (CHOOSE t \in table : t.pk = k).version
                    ELSE NULL]
=============================================================================
