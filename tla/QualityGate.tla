----------------------------- MODULE QualityGate -----------------------------
(* run_checkpoints.run_all with the TrinoValidator: every expectation of     *)
(* every suite is one COUNT query over a Silver table, each run at a moment  *)
(* of its own; the gate raises at the end if any of them found a violation.  *)
EXTENDS SilverLayer

CONSTANTS Gates,   \* the processes that may run the gate
          Suites,  \* the expectation suites, in the order of their files
          SuiteDirFound \* the gate's working directory is the repository's root

VARIABLES gate   \* progress of run_all: suite and expectation, failures

gateVars == <<gate>>

-----------------------------------------------------------------------------
\* The expectations of great_expectations/expectations/*.json.
NotNull(table, column) == [type |-> "not_be_null", table |-> table, column |-> column]
Unique(table, column)  == [type |-> "be_unique", table |-> table, column |-> column]
Between(table, column, min, max) ==
    [type |-> "be_between", table |-> table, column |-> column, min |-> min, max |-> max]
InSet(table, column, values) ==
    [type |-> "be_in_set", table |-> table, column |-> column, values |-> values]

PaymentsSuite ==
    <<Unique("payments", "payment_id"),
      Between("payments", "amount", 0, 1000000),
      InSet("payments", "status", {"authorized", "captured", "failed", "refunded"})>>

InventorySuite ==
    <<Unique("inventory", "inventory_id"),
      Between("inventory", "quantity_on_hand", 0, 10000000)>>

OrdersSuite ==
    <<NotNull("orders", "order_id"),
      Unique("orders", "order_id"),
      Between("orders", "order_total", 0, 1000000),
      InSet("orders", "status", {"pending", "confirmed", "shipped", "delivered", "cancelled"})>>

Expectations ==
    [type : {"not_be_null", "be_unique"}, table : Tables, column : STRING]
    \cup [type : {"be_between"}, table : Tables, column : STRING, min : Int, max : Int]
    \cup [type : {"be_in_set"}, table : Tables, column : STRING, values : SUBSET STRING]

\* No file of great_expectations/expectations is without an expectation.
ASSUME GateAssumption ==
    Suites \in Seq(Seq(Expectations) \ {<< >>}) /\ SuiteDirFound \in BOOLEAN

-----------------------------------------------------------------------------
\* The COUNT an expectation compiles to: a comparison with NULL is not true,
\* so NULLs never count as out of range or out of the set, but they do group.
Violations(e, rows) ==
    CASE e.type = "not_be_null" -> Cardinality({r \in rows : r[e.column] = NULL})
      [] e.type = "be_unique" ->
            LET group(v) == {r \in rows : r[e.column] = v}
            IN  Cardinality({v \in {r[e.column] : r \in rows} : Cardinality(group(v)) > 1})
      [] e.type = "be_between" ->
            Cardinality({r \in rows : /\ r[e.column] # NULL
                                      /\ r[e.column] < e.min \/ r[e.column] > e.max})
      [] e.type = "be_in_set" ->
            Cardinality({r \in rows : r[e.column] # NULL /\ r[e.column] \notin e.values})

Check(e, rows) == Violations(e, rows) = 0

-----------------------------------------------------------------------------
GateStart == [suite |-> 1, next |-> 1, failures |-> {}]

GateTypeOK ==
    gate \in [Gates -> [suite : 1..Len(Suites) + 1, next : Nat \ {0},
                        failures : SUBSET (1..Len(Suites))]]

GateInit == gate = [g \in Gates |-> GateStart]

\* load_suites looks for the files in a relative directory, and one that is
\* not there has no files: the gate then checks nothing, and passes.
Loaded == IF SuiteDirFound THEN Suites ELSE << >>

Expectation(g) == Loaded[gate[g].suite][gate[g].next]

AllChecked(g) == gate[g].suite > Len(Loaded)

\* One turn of the loop in evaluate; after the last expectation of a suite,
\* run_all goes on to the next one.  A missing table makes the query raise.
Evaluate(g) ==
    /\ ~AllChecked(g)
    /\ LET s == gate[g].suite
           e == Expectation(g)
           last == gate[g].next = Len(Loaded[s])
       IN  /\ silver[e.table] # 0
           /\ gate' = [gate EXCEPT ![g] =
                  [suite |-> IF last THEN s + 1 ELSE s,
                   next |-> IF last THEN 1 ELSE gate[g].next + 1,
                   failures |-> IF Check(e, Contents(e.table, silver[e.table]))
                                THEN gate[g].failures
                                ELSE gate[g].failures \cup {s}]]
    /\ UNCHANGED silverVars

\* Mutant: any(r.ok) in the place of any(not r.ok).
GatePassesIfAnySuiteOk(g) ==
    /\ AllChecked(g)
    /\ gate[g].failures # 1..Len(Suites)

\* run_all raises SystemExit if any suite is not ok.
GatePasses(g) ==
    /\ AllChecked(g)
    /\ gate[g].failures = {}

ResetGate(g) == gate' = [gate EXCEPT ![g] = GateStart]
=============================================================================
