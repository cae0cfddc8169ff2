------------------------------ MODULE DbtProject ------------------------------
(* `dbt build --fail-fast` over the marts of the dbt project: a model is     *)
(* rebuilt from the Silver tables behind its staging views, replaced, and    *)
(* then tested, while the four threads of the profile do the same to other   *)
(* models; a model that fails a test fails the build, and stays.  dbt puts   *)
(* the models of +schema: gold under the target schema gold into the schema  *)
(* gold_gold, so they are not the tables of GoldBuilder.                     *)
EXTENDS SilverLayer, FiniteSetsExt

CONSTANTS DbtRuns,   \* the processes that may run the build
          DbtMarts   \* the models it builds, of those below

VARIABLES dbt,      \* contents each mart of lakehouse.gold_gold was built from
          dbtRun    \* per process: models to build and to test, and the
                    \* snapshots the query of each model has read

dbtVars == <<dbt, dbtRun>>

-----------------------------------------------------------------------------
\* The Silver tables behind the staging views of a model.
DbtSources(m) ==
    CASE m = "revenue_daily"    -> {"payments"}
      [] m = "inventory_health" -> {"inventory", "products"}
      [] m = "fct_sales"        -> {"payments", "orders"}
      [] m = "order_funnel"     -> {"orders"}

ASSUME DbtAssumption ==
    DbtMarts \subseteq {"revenue_daily", "inventory_health", "fct_sales", "order_funnel"}

\* revenue_daily.sql: what was captured on a day less what was refunded.
NetRevenue(payments, day) ==
    LET amount(status) ==
            MapThenSumSet(LAMBDA p : p.amount,
                          {p \in payments : p.day = day /\ p.status = status})
    IN  amount("captured") - amount("refunded")

\* The tests that contents of Silver can fail: assert_net_revenue_non_negative
\* of revenue_daily, and the accepted range of sale_amount in fct_sales, which
\* a NULL does not leave.  The keys the other tests want unique and not null
\* are keys of Silver tables or of a GROUP BY, and the stock_status of
\* inventory_health comes from a CASE over the accepted values.
TestPasses(m, reads) ==
    LET payments == Contents("payments", reads["payments"])
    IN  CASE m = "revenue_daily" ->
                \A p \in payments : NetRevenue(payments, p.day) >= 0
          [] m = "fct_sales" ->
                \A p \in payments, o \in Contents("orders", reads["orders"]) :
                    p.order_id = o.order_id /\ p.status = "captured" /\ p.amount # NULL
                    => p.amount >= 0
          [] OTHER -> TRUE

NothingQueried == [m \in DbtMarts |-> [t \in {} |-> 0]]

DbtStart == [todo |-> DbtMarts, untested |-> {}, reads |-> NothingQueried]

DbtTypeOK ==
    /\ \A m \in DbtMarts : dbt[m] = NULL \/ dbt[m] \in [DbtSources(m) -> Nat \ {0}]
    /\ \A r \in DbtRuns : /\ dbtRun[r].todo \subseteq DbtMarts
                          /\ dbtRun[r].untested \subseteq DbtMarts
                          /\ \A m \in DbtMarts : DOMAIN dbtRun[r].reads[m] \subseteq Tables

DbtInit ==
    /\ dbt = [m \in DbtMarts |-> NULL]
    /\ dbtRun = [r \in DbtRuns |-> DbtStart]

\* The query of a model that is being built reads one more of its tables.
ReadSource(r) ==
    /\ \E m \in dbtRun[r].todo : \E t \in DbtSources(m) \ DOMAIN dbtRun[r].reads[m] :
          /\ silver[t] # 0
          /\ dbtRun' = [dbtRun EXCEPT ![r].reads[m] =
                [u \in DOMAIN @ \cup {t} |-> IF u = t THEN silver[t] ELSE @[u]]]
    /\ UNCHANGED <<silverVars, dbt>>

\* The model has been computed and takes the place of the table it replaces.
ReplaceModel(r) ==
    /\ \E m \in dbtRun[r].todo :
          /\ DOMAIN dbtRun[r].reads[m] = DbtSources(m)
          /\ dbt' = [dbt EXCEPT ![m] = dbtRun[r].reads[m]]
          /\ dbtRun' = [dbtRun EXCEPT ![r] =
                [todo |-> @.todo \ {m}, untested |-> @.untested \cup {m},
                 reads |-> [@.reads EXCEPT ![m] = NothingQueried[m]]]]
    /\ UNCHANGED silverVars

\* Mutant: the tests query Silver, where the model came from.
TestSource(r) ==
    /\ \E m \in dbtRun[r].untested :
          /\ TestPasses(m, silver)
          /\ dbtRun' = [dbtRun EXCEPT ![r].untested = @ \ {m}]
    /\ UNCHANGED <<silverVars, dbt>>

\* The tests of the model query the table as it is now.
TestModel(r) ==
    /\ \E m \in dbtRun[r].untested :
          /\ TestPasses(m, dbt[m])
          /\ dbtRun' = [dbtRun EXCEPT ![r].untested = @ \ {m}]
    /\ UNCHANGED <<silverVars, dbt>>

\* Mutant: a build that skipped models counts as a success.
DbtDoneSkipped(r) == dbtRun[r].untested = {}

DbtDone(r) == dbtRun[r].todo = {} /\ dbtRun[r].untested = {}

ResetDbt(r) == dbtRun' = [dbtRun EXCEPT ![r] = DbtStart]
=============================================================================
