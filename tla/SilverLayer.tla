----------------------------- MODULE SilverLayer -----------------------------
(* The Silver tables as the batch side of the platform sees them: each one   *)
(* goes through a history of committed contents while the streaming jobs     *)
(* merge into it, and a query reads the contents of one moment.  Gold, dbt   *)
(* and the quality gate share no lock or snapshot with the streaming jobs.   *)
EXTENDS Integers, Sequences, FiniteSets

CONSTANTS NULL,      \* SQL NULL, an absent mart
          Rows,      \* the rows Silver tables may hold, records of columns
          Histories, \* per table, the contents its MERGEs may leave, in order
          Built      \* the tables that are there from the start

Tables == {"payments", "orders", "inventory", "products"}

ASSUME SilverLayerAssumption ==
    /\ Histories \subseteq [Tables -> Seq(SUBSET Rows)]
    /\ Built \subseteq Tables
    /\ \A S \in SUBSET Tables : NULL \notin [S -> Nat \ {0}]

VARIABLES history,  \* the history that unfolds
          silver    \* how much of it has: the snapshot of each table, 0 before the first

silverVars == <<history, silver>>

SilverTypeOK ==
    /\ history \in Histories
    /\ \A t \in Tables : silver[t] \in 0..Len(history[t])

SilverInit ==
    /\ history \in Histories
    /\ silver = [t \in Tables |-> IF t \in Built /\ history[t] # << >> THEN 1 ELSE 0]

Contents(t, snapshot) == history[t][snapshot]

\* A streaming job commits its next MERGE into lakehouse.silver.<t>.
CommitMerge(t) ==
    /\ silver[t] < Len(history[t])
    /\ silver' = [silver EXCEPT ![t] = @ + 1]
    /\ UNCHANGED history
=============================================================================
