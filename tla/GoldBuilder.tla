----------------------------- MODULE GoldBuilder -----------------------------
(* streaming/gold/job.py: a Spark batch job that replaces the Gold marts one *)
(* after the other.  A mart is CREATE OR REPLACE TABLE ... AS SELECT: it     *)
(* reads each Silver table of its query at a moment of its own, and replaces *)
(* the mart in one Iceberg commit at a later one.  build_all goes on to the  *)
(* next mart when one fails.  Nothing keeps two processes from running the   *)
(* job at the same time.                                                     *)
EXTENDS SilverLayer

CONSTANT Builders   \* the processes that may run the job

VARIABLES gold,     \* snapshots each mart of lakehouse.gold was built from
          builder   \* per process: the mart being built, the snapshots read,
                    \* whether another build has been alive in its time

goldVars == <<gold, builder>>

-----------------------------------------------------------------------------
\* build_all's loop, and the Silver tables the query of each mart reads.
BuildOrder == <<"revenue_daily", "inventory_health", "order_metrics">>

MartSources(m) ==
    CASE m = "revenue_daily"    -> {"payments"}
      [] m = "inventory_health" -> {"inventory", "products"}
      [] m = "order_metrics"    -> {"orders"}

GoldMarts == {BuildOrder[i] : i \in DOMAIN BuildOrder}

NothingRead == [t \in {} |-> 0]

\* A process that has not started, has ended or has died.
Gone == [mart |-> Len(BuildOrder) + 1, reads |-> NothingRead, crossed |-> FALSE]

GoldTypeOK ==
    /\ \A m \in GoldMarts : gold[m] = NULL \/ gold[m] \in [MartSources(m) -> Nat \ {0}]
    /\ \A b \in Builders : /\ builder[b].mart \in 1..Len(BuildOrder) + 1
                           /\ DOMAIN builder[b].reads \subseteq Tables
                           /\ builder[b].crossed \in BOOLEAN

GoldInit ==
    /\ gold = [m \in GoldMarts |-> NULL]
    /\ builder = [b \in Builders |-> Gone]

Mart(b) == BuildOrder[builder[b].mart]

GoldDone(b) == builder[b].mart > Len(BuildOrder)

Live == {b \in Builders : ~GoldDone(b)}

\* spark-submit starts the job, whatever other process runs it.
StartBuilder(b) ==
    LET others == Live \ {b}
        fresh == [mart |-> 1, reads |-> NothingRead, crossed |-> others # {}]
        noted(p) == [mart |-> p.mart, reads |-> p.reads, crossed |-> TRUE]
    IN  builder' = [c \in Builders |->
            CASE c = b -> fresh
              [] c \in others -> noted(builder[c])
              [] OTHER -> builder[c]]

KillBuilder(b) == builder' = [builder EXCEPT ![b] = Gone]

\* Mutant: Spark's catalog serves a table it has cached.
ReadSilverCached(b) ==
    /\ ~GoldDone(b)
    /\ \E t \in MartSources(Mart(b)) \ DOMAIN builder[b].reads :
       \E s \in 1..silver[t] :
          builder' = [builder EXCEPT ![b].reads =
                [u \in DOMAIN @ \cup {t} |-> IF u = t THEN s ELSE @[u]]]
    /\ UNCHANGED <<silverVars, gold>>

ReadSilver(b) ==
    /\ ~GoldDone(b)
    /\ \E t \in MartSources(Mart(b)) \ DOMAIN builder[b].reads :
          /\ silver[t] # 0
          /\ builder' = [builder EXCEPT ![b].reads =
                [u \in DOMAIN @ \cup {t} |-> IF u = t THEN silver[t] ELSE @[u]]]
    /\ UNCHANGED <<silverVars, gold>>

NextMart(b) ==
    [builder EXCEPT ![b] =
        IF @.mart = Len(BuildOrder) THEN Gone
        ELSE [mart |-> @.mart + 1, reads |-> NothingRead, crossed |-> @.crossed]]

\* GoldBuilder._replace: one atomic commit, the last one wins.
ReplaceMart(b) ==
    /\ ~GoldDone(b)
    /\ DOMAIN builder[b].reads = MartSources(Mart(b))
    /\ gold' = [gold EXCEPT ![Mart(b)] = builder[b].reads]
    /\ builder' = NextMart(b)
    /\ UNCHANGED silverVars

\* build_all swallows the exception of a mart, a missing table among others.
SkipMart(b) ==
    /\ ~GoldDone(b)
    /\ builder' = NextMart(b)
    /\ UNCHANGED <<silverVars, gold>>

BuildMarts(b) == ReadSilver(b) \/ ReplaceMart(b) \/ SkipMart(b)
=============================================================================
