-------------------------- MODULE MedallionDagProofs --------------------------
(* Theorems about MedallionDag: for any number of DAG runs, retries and      *)
(* builds that outlive their attempt, any histories of the Silver tables,    *)
(* any suites and any choice of dbt marts.                                   *)
EXTENDS MedallionDag, TLAPS

(* The snapshots a process has read: a function on some of the tables.       *)
IsReads(reads) ==
    /\ DOMAIN reads \subseteq Tables
    /\ reads \in [DOMAIN reads -> Nat \ {0}]

(* What a process keeps of a build of Gold, and of a dbt build.              *)
IsBuilder(p) ==
    /\ p = [mart |-> p.mart, reads |-> p.reads, crossed |-> p.crossed]
    /\ p.mart \in 1..4 /\ IsReads(p.reads) /\ p.crossed \in BOOLEAN

IsDbtRun(p) ==
    /\ p = [todo |-> p.todo, untested |-> p.untested, reads |-> p.reads]
    /\ p.todo \subseteq DbtMarts /\ p.untested \subseteq DbtMarts
    /\ DOMAIN p.reads = DbtMarts
    /\ \A m \in DbtMarts : IsReads(p.reads[m])

SilverTyped ==
    /\ silver \in [Tables -> Nat]
    /\ history \in Histories
    /\ \A t \in Tables : silver[t] <= Len(history[t])

MartsTyped ==
    /\ DOMAIN gold = GoldMarts
    /\ \A m \in GoldMarts : gold[m] = NULL \/ gold[m] \in [MartSources(m) -> Nat \ {0}]

BuildersTyped ==
    /\ DOMAIN builder = Builders
    /\ \A b \in Builders : IsBuilder(builder[b])

GoldTyped == MartsTyped /\ BuildersTyped

DbtTyped ==
    /\ DOMAIN dbt = DbtMarts
    /\ \A m \in DbtMarts : dbt[m] = NULL \/ dbt[m] \in [DbtSources(m) -> Nat \ {0}]
    /\ DOMAIN dbtRun = Runs
    /\ \A r \in Runs : IsDbtRun(dbtRun[r])

States == {"none", "queued", "running", "up_for_retry", "success", "failed"}

(* An attempt is started only while some are left, and the first task of a   *)
(* run is the one it is triggered with.                                      *)
DagTyped ==
    /\ dag \in [Runs -> [task : 1..4, attempts : Nat, state : States]]
    /\ \A r \in Runs : dag[r].attempts <= IF dag[r].state \in {"none", "queued", "up_for_retry"}
                                          THEN Retries ELSE Retries + 1
    /\ \A r \in Runs : dag[r].state = "running" => dag[r].attempts >= 1
    /\ \A r \in Runs : dag[r].state = "none" => dag[r].task = 1
    /\ from \in [Runs -> [Tables -> Nat]]
    /\ \A r \in Runs, t \in Tables : from[r][t] <= silver[t]
    /\ overlapped \in [Runs -> BOOLEAN]

(* A task of dbt or the gate that is not running has no process.             *)
NoProcess ==
    \A r \in Runs : /\ ~Running(r, "dbt_build") => dbtRun[r] = DbtStart
                    /\ ~Running(r, "run_quality_gates") => gate[r] = GateStart

TypeInv == SilverTyped /\ GoldTyped /\ DbtTyped /\ GateTypeOK /\ DagTyped /\ NoProcess

(* The sequences of the model, evaluated.                                    *)
LEMMA Orders ==
    /\ Len(TaskOrder) = 4 /\ Len(BuildOrder) = 3
    /\ TaskOrder[1] = "check_connectors" /\ TaskOrder[2] = "build_gold"
    /\ TaskOrder[3] = "dbt_build" /\ TaskOrder[4] = "run_quality_gates"
    /\ GoldMarts = {"revenue_daily", "inventory_health", "order_metrics"}
    /\ BuildOrder[1] = "revenue_daily" /\ BuildOrder[2] = "inventory_health"
    /\ BuildOrder[3] = "order_metrics"
<1>1. Len(BuildOrder) = 3 /\ BuildOrder[1] = "revenue_daily" /\ BuildOrder[2] = "inventory_health"
      /\ BuildOrder[3] = "order_metrics"
  BY DEF BuildOrder
<1>2. DOMAIN BuildOrder = 1..3
  BY DEF BuildOrder
<1>3. GoldMarts = {"revenue_daily", "inventory_health", "order_metrics"}
  BY <1>1, <1>2 DEF GoldMarts
<1>4. QED
  BY <1>1, <1>3 DEF TaskOrder

(* Every mart reads some of the Silver tables.                               *)
LEMMA SourcesAreTables ==
    /\ \A m \in GoldMarts : MartSources(m) \subseteq Tables
    /\ \A m \in DbtMarts : DbtSources(m) \subseteq Tables
<1>1. \A m \in GoldMarts : MartSources(m) \subseteq Tables
  BY Orders DEF MartSources, Tables
<1>2. \A m \in DbtMarts : DbtSources(m) \subseteq Tables
  BY DbtAssumption DEF DbtSources, Tables
<1>3. QED
  BY <1>1, <1>2

(* A suite is a non-empty sequence of expectations about Silver tables.      *)
LEMMA SuitesType ==
    /\ Len(Suites) \in Nat /\ DOMAIN Suites = 1..Len(Suites)
    /\ \A s \in DOMAIN Suites : /\ Len(Suites[s]) \in Nat \ {0}
                                /\ DOMAIN Suites[s] = 1..Len(Suites[s])
                                /\ \A i \in DOMAIN Suites[s] : Suites[s][i].table \in Tables
<1>1. Len(Suites) \in Nat /\ DOMAIN Suites = 1..Len(Suites)
  BY GateAssumption
<1>2. \A e \in Expectations : e.table \in Tables
  BY DEF Expectations
<1> HIDE DEF Expectations
<1>3. ASSUME NEW s \in DOMAIN Suites
      PROVE  /\ Len(Suites[s]) \in Nat \ {0}
             /\ DOMAIN Suites[s] = 1..Len(Suites[s])
             /\ \A i \in DOMAIN Suites[s] : Suites[s][i].table \in Tables
  <2>1. Suites[s] \in Seq(Expectations) /\ Suites[s] # << >>
    BY GateAssumption
  <2>2. QED
    BY <1>2, <2>1
<1>4. QED
  BY <1>1, <1>3

(* A history is a sequence of contents for every table.                      *)
LEMMA HistoryType ==
    ASSUME NEW h \in Histories, NEW t \in Tables
    PROVE  Len(h[t]) \in Nat
BY SilverLayerAssumption

(* An absent mart is not a mart.                                             *)
LEMMA NullIsNotReads ==
    ASSUME NEW S \in SUBSET Tables, NEW reads \in [S -> Nat \ {0}]
    PROVE  reads # NULL
BY SilverLayerAssumption

-----------------------------------------------------------------------------
(* The states of a task exclude each other, and so do the tasks of a run.    *)
LEMMA TaskNames ==
    ASSUME DagTyped, NEW r \in Runs
    PROVE  /\ Task(r) \in {"check_connectors", "build_gold", "dbt_build", "run_quality_gates"}
           /\ Task(r) = "check_connectors" <=> dag[r].task = 1
           /\ Task(r) = "build_gold" <=> dag[r].task = 2
           /\ Task(r) = "dbt_build" <=> dag[r].task = 3
           /\ Task(r) = "run_quality_gates" <=> dag[r].task = 4
           /\ \A task : Running(r, task) <=> Task(r) = task /\ dag[r].state = "running"
<1>1. dag[r].task \in 1..4
  BY DEF DagTyped
<1>2. dag[r].task = 1 \/ dag[r].task = 2 \/ dag[r].task = 3 \/ dag[r].task = 4
  BY <1>1
<1>3. /\ Task(r) \in {"check_connectors", "build_gold", "dbt_build", "run_quality_gates"}
      /\ Task(r) = "check_connectors" <=> dag[r].task = 1
      /\ Task(r) = "build_gold" <=> dag[r].task = 2
      /\ Task(r) = "dbt_build" <=> dag[r].task = 3
      /\ Task(r) = "run_quality_gates" <=> dag[r].task = 4
  BY <1>2, Orders DEF Task
<1>4. QED
  BY <1>3 DEF Running, In

(* The spark-submit of an attempt of build_gold, the next one's among them.  *)
LEMMA ProcessesAreBuilders ==
    ASSUME DagTyped, NEW r \in Runs
    PROVE  /\ dag[r].state = "running" => Process(r) \in Builders
           /\ dag[r].state \in {"queued", "up_for_retry"} => <<r, dag[r].attempts + 1>> \in Builders
<1>1. dag[r].attempts \in Nat /\ Retries \in Nat
  BY MedallionAssumption DEF DagTyped
<1>2. dag[r].state = "running" => dag[r].attempts \in 1..Retries + 1
  BY <1>1 DEF DagTyped
<1>3. dag[r].state \in {"queued", "up_for_retry"} => dag[r].attempts + 1 \in 1..Retries + 1
  BY <1>1 DEF DagTyped
<1>4. QED
  BY <1>2, <1>3, MedallionAssumption DEF Process

(* An attempt begins: the run's task is running from now on.                 *)
LEMMA StartStep ==
    ASSUME TypeInv, NEW r \in Runs, StartTask(r)
    PROVE  /\ DagTyped'
           /\ UNCHANGED <<silver, history, gold, dbt, dbtRun, gate>>
           /\ builder' = builder \/ \E b \in Builders : StartBuilder(b)
           /\ dag[r].state \in {"queued", "up_for_retry"}
           /\ dag'[r].state = "running" /\ dag'[r].task = dag[r].task
           /\ \A o \in Runs \ {r} : dag'[o] = dag[o] /\ from'[o] = from[o]
           /\ from'[r] = IF Task(r) \in Watched THEN silver ELSE from[r]
           /\ overlapped'[r] <=> \E o \in Runs \ {r} : Task(r) = "dbt_build" /\ Running(o, Task(r))
           /\ \A o \in Runs \ {r} :
                 overlapped'[o] <=> \/ Task(r) = "dbt_build" /\ Running(o, Task(r))
                                    \/ overlapped[o]
<1>1. /\ dag[r].state \in {"queued", "up_for_retry"}
      /\ dag' = [dag EXCEPT ![r].state = "running", ![r].attempts = @ + 1]
      /\ from' = [from EXCEPT ![r] = IF Task(r) \in Watched THEN silver ELSE @]
      /\ UNCHANGED <<silver, history, gold, dbt, dbtRun, gate>>
  BY DEF StartTask, silverVars, dbtVars, gateVars
<1>2. /\ dag \in [Runs -> [task : 1..4, attempts : Nat, state : States]]
      /\ from \in [Runs -> [Tables -> Nat]]
      /\ silver \in [Tables -> Nat]
      /\ dag[r].attempts <= Retries /\ Retries \in Nat
      /\ \A o \in Runs, t \in Tables : from[o][t] <= silver[t]
  BY <1>1, MedallionAssumption DEF TypeInv, DagTyped, SilverTyped
<1>3. /\ dag'[r] = [task |-> dag[r].task, attempts |-> dag[r].attempts + 1, state |-> "running"]
      /\ \A o \in Runs \ {r} : dag'[o] = dag[o]
      /\ dag' \in [Runs -> [task : 1..4, attempts : Nat, state : States]]
  BY <1>1, <1>2 DEF States
<1>4. /\ from' \in [Runs -> [Tables -> Nat]]
      /\ \A o \in Runs \ {r} : from'[o] = from[o]
      /\ from'[r] = IF Task(r) \in Watched THEN silver ELSE from[r]
  BY <1>1, <1>2
<1>5. \A o \in Runs, t \in Tables : from'[o][t] <= silver[t]
  BY <1>2, <1>4
<1> DEFINE others == {o \in Runs \ {r} : Task(r) = "dbt_build" /\ Running(o, Task(r))}
<1>6. overlapped' = [o \in Runs |-> CASE o = r -> others # {}
                                      [] o \in others -> TRUE
                                      [] OTHER -> overlapped[o]]
  BY DEF StartTask
<1>7. overlapped \in [Runs -> BOOLEAN]
  BY DEF TypeInv, DagTyped
<1> HIDE DEF others
<1>8. overlapped'[r] = (others # {})
  BY <1>6
<1>9. \A o \in Runs \ {r} : overlapped'[o] = IF o \in others THEN TRUE ELSE overlapped[o]
  BY <1>6
<1>10. overlapped' \in [Runs -> BOOLEAN]
  <2>1. DOMAIN overlapped' = Runs /\ overlapped' = [o \in Runs |-> overlapped'[o]]
    BY <1>6
  <2>2. \A o \in Runs : overlapped'[o] \in BOOLEAN
    BY <1>7, <1>8, <1>9
  <2>3. QED
    BY <2>1, <2>2
<1>11. DagTyped'
  <2>0. \A o \in Runs : /\ dag[o].attempts <= IF dag[o].state \in {"none", "queued", "up_for_retry"}
                                              THEN Retries ELSE Retries + 1
                        /\ dag[o].state = "running" => dag[o].attempts >= 1
    BY DEF TypeInv, DagTyped
  <2>1. \A o \in Runs : dag'[o].attempts <= IF dag'[o].state \in {"none", "queued", "up_for_retry"}
                                            THEN Retries ELSE Retries + 1
    BY <1>2, <1>3, <2>0
  <2>2. \A o \in Runs : dag'[o].state = "none" => dag'[o].task = 1
    BY <1>3 DEF TypeInv, DagTyped
  <2>3. \A o \in Runs : dag'[o].state = "running" => dag'[o].attempts >= 1
    BY <1>2, <1>3, <2>0
  <2>4. silver' = silver
    BY <1>1
  <2>5. QED
    BY <1>3, <1>4, <1>5, <1>10, <2>1, <2>2, <2>3, <2>4 DEF DagTyped
<1>12. \A o \in Runs \ {r} :
          overlapped'[o] <=> \/ Task(r) = "dbt_build" /\ Running(o, Task(r))
                             \/ overlapped[o]
  BY <1>9 DEF others
<1>13. overlapped'[r] <=> \E o \in Runs \ {r} : Task(r) = "dbt_build" /\ Running(o, Task(r))
  BY <1>8 DEF others
<1>14. builder' = builder \/ \E b \in Builders : StartBuilder(b)
  BY <1>1, ProcessesAreBuilders DEF StartTask, TypeInv
<1>15. QED
  BY <1>1, <1>3, <1>4, <1>11, <1>12, <1>13, <1>14

(* What triggering a run and the end of an attempt have in common: no task   *)
(* comes to run.                                                             *)
Settles(r) ==
    /\ dag'[r].state \in {"queued", "up_for_retry", "success", "failed"}
    /\ \A o \in Runs \ {r} : dag'[o] = dag[o]
    /\ UNCHANGED <<silver, history, gold, dbt, from, overlapped>>

LEMMA TriggerStep ==
    ASSUME TypeInv, NEW r \in Runs, Trigger(r)
    PROVE  /\ DagTyped' /\ Settles(r)
           /\ dag[r].state = "none" /\ dag'[r].state = "queued" /\ dag'[r].task = dag[r].task
           /\ UNCHANGED <<builder, dbtRun, gate>>
<1>1. /\ dag[r].state = "none"
      /\ dag' = [dag EXCEPT ![r].state = "queued"]
      /\ UNCHANGED <<silver, history, gold, builder, dbt, dbtRun, gate, from, overlapped>>
  BY DEF Trigger, silverVars, goldVars, dbtVars, gateVars
<1>2. dag \in [Runs -> [task : 1..4, attempts : Nat, state : States]]
  BY DEF TypeInv, DagTyped
<1>3. /\ dag'[r] = [task |-> dag[r].task, attempts |-> dag[r].attempts, state |-> "queued"]
      /\ \A o \in Runs \ {r} : dag'[o] = dag[o]
      /\ dag' \in [Runs -> [task : 1..4, attempts : Nat, state : States]]
  BY <1>1, <1>2 DEF States
<1>4. DagTyped'
  BY <1>1, <1>3 DEF TypeInv, DagTyped
<1>5. QED
  BY <1>1, <1>3, <1>4 DEF Settles

LEMMA ExitStep ==
    ASSUME TypeInv, NEW r \in Runs, ProcessExits(r), dag[r].state = "running"
    PROVE  /\ UNCHANGED <<silver, history, gold, dbt, from, overlapped>>
           /\ dbtRun' = [dbtRun EXCEPT ![r] = DbtStart] \/ dbtRun' = dbtRun
           /\ gate' = [gate EXCEPT ![r] = GateStart] \/ gate' = gate
           /\ dbtRun'[r] = DbtStart /\ gate'[r] = GateStart
<1>1. DOMAIN dbtRun = Runs /\ DOMAIN gate = Runs
  BY MedallionAssumption DEF TypeInv, DbtTyped, GateTypeOK
<1>2. UNCHANGED <<silver, history, gold, dbt, from, overlapped>>
  BY DEF ProcessExits, silverVars
<1>3. /\ dbtRun' = [dbtRun EXCEPT ![r] = DbtStart] \/ dbtRun' = dbtRun
      /\ dbtRun'[r] = DbtStart
  BY <1>1 DEF ProcessExits, ResetDbt, TypeInv, NoProcess
<1>4. /\ gate' = [gate EXCEPT ![r] = GateStart] \/ gate' = gate
      /\ gate'[r] = GateStart
  BY <1>1 DEF ProcessExits, ResetGate, TypeInv, NoProcess
<1>5. QED
  BY <1>2, <1>3, <1>4

(* The two ends of an attempt: dbt and the gate are gone, a build of Gold    *)
(* may be, and the run goes on to its next task only from one that is done.  *)
LEMMA SucceedStep ==
    ASSUME TypeInv, NEW r \in Runs, TaskSucceeds(r)
    PROVE  /\ DagTyped' /\ Settles(r) /\ ProcessExits(r) /\ builder' = builder
           /\ dag[r].state = "running"
           /\ \/ Running(r, "check_connectors")
              \/ Running(r, "build_gold") /\ GoldDone(Process(r))
              \/ Running(r, "dbt_build") /\ DbtDone(r)
              \/ Running(r, "run_quality_gates") /\ GatePasses(r)
           /\ IF dag[r].task = 4 THEN dag'[r].state = "success" /\ dag'[r].task = 4
              ELSE dag'[r].state = "queued" /\ dag'[r].task = dag[r].task + 1
<1>1. /\ \/ Running(r, "check_connectors")
         \/ Running(r, "build_gold") /\ GoldDone(Process(r))
         \/ Running(r, "dbt_build") /\ DbtDone(r)
         \/ Running(r, "run_quality_gates") /\ GatePasses(r)
      /\ dag' = [dag EXCEPT ![r] =
             IF @.task = 4 THEN [@ EXCEPT !.state = "success"]
             ELSE [task |-> @.task + 1, state |-> "queued", attempts |-> 0]]
      /\ ProcessExits(r) /\ builder' = builder
  BY Orders DEF TaskSucceeds
<1>2. dag[r].state = "running"
  BY <1>1 DEF Running, In
<1>3. UNCHANGED <<silver, history, gold, dbt, from, overlapped>>
  BY <1>1, <1>2, ExitStep
<1>4. dag \in [Runs -> [task : 1..4, attempts : Nat, state : States]] /\ Retries \in Nat
  BY MedallionAssumption DEF TypeInv, DagTyped
<1>5. dag'[r] = IF dag[r].task = 4
                THEN [task |-> 4, attempts |-> dag[r].attempts, state |-> "success"]
                ELSE [task |-> dag[r].task + 1, attempts |-> 0, state |-> "queued"]
  BY <1>1, <1>4
<1>6. \A o \in Runs \ {r} : dag'[o] = dag[o]
  BY <1>1, <1>4
<1>7. dag' \in [Runs -> [task : 1..4, attempts : Nat, state : States]]
  <2>1. dag'[r] \in [task : 1..4, attempts : Nat, state : States]
    BY <1>4, <1>5 DEF States
  <2>2. DOMAIN dag' = Runs /\ dag' = [o \in Runs |-> dag'[o]]
    BY <1>1, <1>4
  <2>3. QED
    BY <1>4, <1>6, <2>1, <2>2
<1>8. DagTyped'
  <2>1. \A o \in Runs : dag'[o].attempts <= IF dag'[o].state \in {"none", "queued", "up_for_retry"}
                                            THEN Retries ELSE Retries + 1
    BY <1>2, <1>4, <1>5, <1>6 DEF TypeInv, DagTyped
  <2>2. \A o \in Runs : dag'[o].state = "none" => dag'[o].task = 1
    BY <1>5, <1>6 DEF TypeInv, DagTyped
  <2>3. \A o \in Runs : dag'[o].state = "running" => dag'[o].attempts >= 1
    BY <1>2, <1>4, <1>5, <1>6 DEF TypeInv, DagTyped
  <2>4. QED
    BY <1>3, <1>7, <2>1, <2>2, <2>3 DEF TypeInv, DagTyped
<1>9. Settles(r)
  BY <1>3, <1>5, <1>6 DEF Settles
<1>10. QED
  BY <1>1, <1>2, <1>5, <1>8, <1>9

LEMMA FailStep ==
    ASSUME TypeInv, NEW r \in Runs, TaskFails(r)
    PROVE  /\ DagTyped' /\ Settles(r) /\ ProcessExits(r)
           /\ builder' = builder \/ \E b \in Builders : KillBuilder(b)
           /\ dag[r].state = "running"
           /\ dag'[r].state \in {"up_for_retry", "failed"} /\ dag'[r].task = dag[r].task
<1>1. /\ dag[r].state = "running"
      /\ dag' = [dag EXCEPT ![r].state =
             IF dag[r].attempts <= Retries THEN "up_for_retry" ELSE "failed"]
      /\ ProcessExits(r)
  BY DEF TaskFails, AttemptFails
<1>2. UNCHANGED <<silver, history, gold, dbt, from, overlapped>>
  BY <1>1, ExitStep
<1>3. dag \in [Runs -> [task : 1..4, attempts : Nat, state : States]]
  BY DEF TypeInv, DagTyped
<1>4. dag'[r] = [task |-> dag[r].task, attempts |-> dag[r].attempts,
                 state |-> IF dag[r].attempts <= Retries THEN "up_for_retry" ELSE "failed"]
  BY <1>1, <1>3
<1>5. \A o \in Runs \ {r} : dag'[o] = dag[o]
  BY <1>1, <1>3
<1>6. dag' \in [Runs -> [task : 1..4, attempts : Nat, state : States]]
  BY <1>1, <1>3 DEF States
<1>7. \A o \in Runs : dag'[o].attempts <= IF dag'[o].state \in {"none", "queued", "up_for_retry"}
                                          THEN Retries ELSE Retries + 1
  BY <1>1, <1>3, <1>4, <1>5 DEF TypeInv, DagTyped
<1>8. \A o \in Runs : dag'[o].state = "none" => dag'[o].task = 1
  BY <1>4, <1>5 DEF TypeInv, DagTyped
<1>9. \A o \in Runs : dag'[o].state = "running" => dag'[o].attempts >= 1
  BY <1>4, <1>5 DEF TypeInv, DagTyped
<1>10. DagTyped'
  BY <1>2, <1>6, <1>7, <1>8, <1>9 DEF TypeInv, DagTyped
<1>11. builder' = builder \/ \E b \in Builders : KillBuilder(b)
  BY <1>1, ProcessesAreBuilders DEF TaskFails, AttemptFails, BuildIsGivenUp, TypeInv
<1>12. QED
  BY <1>1, <1>2, <1>4, <1>5, <1>10, <1>11 DEF Settles

(* One step of a build of Gold, of a run's attempt or left to itself, and of *)
(* the process of each other task.                                           *)
GoldWork(b) ==
    /\ BuildMarts(b)
    /\ UNCHANGED <<dbtVars, gateVars, dagVars>>

DbtWork(r) ==
    /\ Running(r, "dbt_build")
    /\ ReadSource(r) \/ ReplaceModel(r) \/ TestModel(r)
    /\ UNCHANGED <<goldVars, gateVars, dagVars>>

GateWork(r) ==
    /\ Running(r, "run_quality_gates")
    /\ Evaluate(r)
    /\ UNCHANGED <<goldVars, dbtVars, dagVars>>

(* Reading one more table, at the snapshot it is at now.                     *)
LEMMA ReadOne ==
    ASSUME SilverTyped, NEW reads, IsReads(reads), NEW t \in Tables, silver[t] # 0,
           NEW more, more = [u \in DOMAIN reads \cup {t} |-> IF u = t THEN silver[t] ELSE reads[u]]
    PROVE  /\ IsReads(more)
           /\ \A u \in DOMAIN more : \/ more[u] = silver[u]
                                     \/ u \in DOMAIN reads /\ more[u] = reads[u]
<1>1. silver[t] \in Nat \ {0}
  BY DEF SilverTyped
<1>2. \A u \in DOMAIN reads : reads[u] \in Nat \ {0} /\ u \in Tables
  BY DEF IsReads
<1>3. DOMAIN more = DOMAIN reads \cup {t}
  OBVIOUS
<1>4. \A u \in DOMAIN more : \/ u = t /\ more[u] = silver[u]
                             \/ u \in DOMAIN reads /\ more[u] = reads[u]
  OBVIOUS
<1>5. \A u \in DOMAIN more : more[u] \in Nat \ {0}
  BY <1>1, <1>2, <1>4
<1>6. more = [u \in DOMAIN more |-> more[u]]
  OBVIOUS
<1>7. more \in [DOMAIN more -> Nat \ {0}]
  BY <1>5, <1>6
<1>8. DOMAIN more \subseteq Tables
  BY <1>3 DEF IsReads
<1>9. QED
  BY <1>4, <1>7, <1>8 DEF IsReads

(* What starting over leaves a process with.                                 *)
LEMMA StartsTyped ==
    /\ IsBuilder(Gone) /\ IsDbtRun(DbtStart)
    /\ DOMAIN Gone.reads = {}
    /\ \A m \in DbtMarts : DOMAIN DbtStart.reads[m] = {}
    /\ GateStart \in [suite : 1..Len(Suites) + 1, next : Nat \ {0}, failures : SUBSET (1..Len(Suites))]
<1>1. IsReads([t \in {} |-> 0])
  BY DEF IsReads
<1>2. GateStart \in [suite : 1..Len(Suites) + 1, next : Nat \ {0}, failures : SUBSET (1..Len(Suites))]
  BY SuitesType DEF GateStart
<1>3. Gone = [mart |-> 4, reads |-> NothingRead, crossed |-> FALSE]
  BY Orders DEF Gone
<1>4. IsBuilder(Gone) /\ DOMAIN Gone.reads = {}
  BY <1>1, <1>3 DEF IsBuilder, NothingRead
<1>5. \A m \in DbtMarts : DbtStart.reads[m] = [t \in {} |-> 0]
  BY DEF DbtStart, NothingQueried
<1>6. IsDbtRun(DbtStart)
  BY <1>1, <1>5 DEF IsDbtRun, DbtStart, NothingQueried
<1>7. QED
  BY <1>2, <1>4, <1>5, <1>6

LEMMA GoldReads ==
    ASSUME TypeInv, NEW b \in Builders, ReadSilver(b)
    PROVE  /\ UNCHANGED <<silver, history, gold>>
           /\ DOMAIN builder' = Builders
           /\ \A c \in Builders \ {b} : builder'[c] = builder[c]
           /\ ~GoldDone(b)
           /\ \E t \in Tables : \E more :
                 /\ builder'[b] = [mart |-> builder[b].mart, reads |-> more,
                                   crossed |-> builder[b].crossed]
                 /\ more = [u \in DOMAIN builder[b].reads \cup {t} |->
                               IF u = t THEN silver[t] ELSE builder[b].reads[u]]
                 /\ IsReads(more)
<1>0. /\ DOMAIN builder = Builders /\ IsReads(builder[b].reads) /\ builder[b].mart \in 1..4
      /\ builder[b] = [mart |-> builder[b].mart, reads |-> builder[b].reads,
                       crossed |-> builder[b].crossed]
  BY DEF TypeInv, GoldTyped, BuildersTyped, IsBuilder
<1>1. Mart(b) \in GoldMarts /\ ~GoldDone(b)
  BY <1>0, Orders DEF ReadSilver, GoldDone, Mart
<1>2. PICK t \in MartSources(Mart(b)) \ DOMAIN builder[b].reads :
         /\ silver[t] # 0
         /\ builder' = [builder EXCEPT ![b].reads =
               [u \in DOMAIN @ \cup {t} |-> IF u = t THEN silver[t] ELSE @[u]]]
  BY DEF ReadSilver
<1>3. t \in Tables
  BY <1>1, <1>2, SourcesAreTables
<1> DEFINE more == [u \in DOMAIN builder[b].reads \cup {t} |->
                       IF u = t THEN silver[t] ELSE builder[b].reads[u]]
<1>4. builder' = [builder EXCEPT ![b].reads = more]
  BY <1>2
<1>5. IsReads(more)
  BY <1>0, <1>2, <1>3, ReadOne DEF TypeInv
<1> HIDE DEF more
<1>6. builder'[b] = [mart |-> builder[b].mart, reads |-> more, crossed |-> builder[b].crossed]
  BY <1>0, <1>4
<1>7. DOMAIN builder' = Builders /\ \A c \in Builders \ {b} : builder'[c] = builder[c]
  BY <1>0, <1>4
<1>8. UNCHANGED <<silver, history, gold>>
  BY DEF ReadSilver, silverVars
<1>9. QED
  BY <1>1, <1>3, <1>5, <1>6, <1>7, <1>8 DEF more

(* The build goes on to its next mart, or ends.                              *)
LEMMA GoldGoesOn ==
    ASSUME TypeInv, NEW b \in Builders, ~GoldDone(b), builder' = NextMart(b)
    PROVE  /\ DOMAIN builder' = Builders
           /\ \A c \in Builders \ {b} : builder'[c] = builder[c]
           /\ IsBuilder(builder'[b]) /\ builder'[b].reads = NothingRead
           /\ builder'[b].mart <= 3 => builder'[b].crossed = builder[b].crossed
<1>0. /\ DOMAIN builder = Builders /\ IsBuilder(builder[b]) /\ builder[b].mart \in 1..4
      /\ builder[b] = [mart |-> builder[b].mart, reads |-> builder[b].reads,
                       crossed |-> builder[b].crossed]
  BY DEF TypeInv, GoldTyped, BuildersTyped, IsBuilder
<1>1. builder[b].mart \in 1..3
  BY <1>0, Orders DEF GoldDone
<1>2. /\ DOMAIN builder' = Builders
      /\ \A c \in Builders \ {b} : builder'[c] = builder[c]
      /\ builder'[b] = IF builder[b].mart = 3 THEN Gone
                       ELSE [mart |-> builder[b].mart + 1, reads |-> NothingRead,
                             crossed |-> builder[b].crossed]
  BY <1>0, Orders DEF NextMart
<1>3. builder[b].mart # 3 =>
         builder'[b] = [mart |-> builder[b].mart + 1, reads |-> NothingRead,
                        crossed |-> builder[b].crossed]
  BY <1>2
<1>4. Gone = [mart |-> 4, reads |-> NothingRead, crossed |-> FALSE]
  BY Orders DEF Gone
<1>5. IsReads(NothingRead)
  BY DEF NothingRead, IsReads
<1>6. CASE builder[b].mart = 3
  <2>1. builder'[b] = Gone
    BY <1>2, <1>6
  <2>2. IsBuilder(builder'[b])
    BY <2>1, StartsTyped
  <2>3. builder'[b].reads = NothingRead /\ builder'[b].mart = 4
    BY <1>4, <2>1
  <2>4. QED
    BY <1>2, <2>2, <2>3
<1>7. CASE builder[b].mart # 3
  BY <1>0, <1>1, <1>2, <1>3, <1>5, <1>7 DEF IsBuilder
<1>8. QED
  BY <1>6, <1>7

LEMMA GoldReplaces ==
    ASSUME TypeInv, NEW b \in Builders, ReplaceMart(b)
    PROVE  /\ UNCHANGED <<silver, history>>
           /\ ~GoldDone(b) /\ builder' = NextMart(b)
           /\ DOMAIN gold' = GoldMarts /\ Mart(b) \in GoldMarts
           /\ DOMAIN builder[b].reads = MartSources(Mart(b))
           /\ gold'[Mart(b)] = builder[b].reads
           /\ \A m \in GoldMarts \ {Mart(b)} : gold'[m] = gold[m]
<1>0. DOMAIN gold = GoldMarts /\ builder[b].mart \in 1..4
  BY DEF TypeInv, GoldTyped, MartsTyped, BuildersTyped, IsBuilder
<1>1. Mart(b) \in GoldMarts
  BY <1>0, Orders DEF ReplaceMart, GoldDone, Mart
<1>2. /\ DOMAIN builder[b].reads = MartSources(Mart(b)) /\ ~GoldDone(b)
      /\ gold' = [gold EXCEPT ![Mart(b)] = builder[b].reads]
      /\ builder' = NextMart(b)
      /\ UNCHANGED <<silver, history>>
  BY DEF ReplaceMart, silverVars
<1>3. QED
  BY <1>0, <1>1, <1>2

LEMMA GoldSkips ==
    ASSUME NEW b \in Builders, SkipMart(b)
    PROVE  UNCHANGED <<silver, history, gold>> /\ ~GoldDone(b) /\ builder' = NextMart(b)
BY DEF SkipMart, silverVars

(* A build starts, and the others that are alive take note of it.            *)
LEMMA GoldStarts ==
    ASSUME BuildersTyped, NEW b \in Builders, StartBuilder(b)
    PROVE  /\ DOMAIN builder' = Builders
           /\ builder'[b] = [mart |-> 1, reads |-> NothingRead, crossed |-> Live \ {b} # {}]
           /\ \A c \in Builders \ {b} :
                 builder'[c] = IF ~GoldDone(c)
                               THEN [mart |-> builder[c].mart, reads |-> builder[c].reads,
                                     crossed |-> TRUE]
                               ELSE builder[c]
<1> DEFINE others == Live \ {b}
           fresh == [mart |-> 1, reads |-> NothingRead, crossed |-> others # {}]
           noted(p) == [mart |-> p.mart, reads |-> p.reads, crossed |-> TRUE]
<1>1. builder' = [c \in Builders |-> CASE c = b -> fresh
                                       [] c \in others -> noted(builder[c])
                                       [] OTHER -> builder[c]]
  BY DEF StartBuilder
<1>2. b \notin others /\ \A c \in Builders \ {b} : c \in others <=> ~GoldDone(c)
  BY DEF Live
<1> HIDE DEF others, fresh, noted
<1>3. builder'[b] = fresh
  BY <1>1, <1>2
<1>4. ASSUME NEW c \in Builders \ {b}
      PROVE  builder'[c] = IF ~GoldDone(c)
                           THEN [mart |-> builder[c].mart, reads |-> builder[c].reads,
                                 crossed |-> TRUE]
                           ELSE builder[c]
  <2>1. builder'[c] = IF c \in others THEN noted(builder[c]) ELSE builder[c]
    BY <1>1
  <2>2. QED
    BY <1>2, <2>1 DEF noted
<1>5. DOMAIN builder' = Builders
  BY <1>1
<1>6. QED
  BY <1>3, <1>4, <1>5 DEF fresh, others

LEMMA DbtReads ==
    ASSUME TypeInv, NEW r \in Runs, ReadSource(r)
    PROVE  /\ UNCHANGED <<silver, history, dbt>>
           /\ DOMAIN dbtRun' = Runs
           /\ \A o \in Runs \ {r} : dbtRun'[o] = dbtRun[o]
           /\ \E m \in DbtMarts, t \in Tables : \E more :
                 /\ dbtRun'[r] = [todo |-> dbtRun[r].todo, untested |-> dbtRun[r].untested,
                                  reads |-> [dbtRun[r].reads EXCEPT ![m] = more]]
                 /\ more = [u \in DOMAIN dbtRun[r].reads[m] \cup {t} |->
                               IF u = t THEN silver[t] ELSE dbtRun[r].reads[m][u]]
                 /\ IsReads(more)
<1>0. /\ DOMAIN dbtRun = Runs /\ dbtRun[r].todo \subseteq DbtMarts
      /\ dbtRun[r] = [todo |-> dbtRun[r].todo, untested |-> dbtRun[r].untested,
                      reads |-> dbtRun[r].reads]
      /\ \A m \in DbtMarts : IsReads(dbtRun[r].reads[m])
  BY DEF TypeInv, DbtTyped, IsDbtRun
<1>1. PICK m \in dbtRun[r].todo : \E t \in DbtSources(m) \ DOMAIN dbtRun[r].reads[m] :
         /\ silver[t] # 0
         /\ dbtRun' = [dbtRun EXCEPT ![r].reads[m] =
               [u \in DOMAIN @ \cup {t} |-> IF u = t THEN silver[t] ELSE @[u]]]
  BY DEF ReadSource
<1>2. PICK t \in DbtSources(m) \ DOMAIN dbtRun[r].reads[m] :
         /\ silver[t] # 0
         /\ dbtRun' = [dbtRun EXCEPT ![r].reads[m] =
               [u \in DOMAIN @ \cup {t} |-> IF u = t THEN silver[t] ELSE @[u]]]
  BY <1>1
<1>3. m \in DbtMarts /\ t \in Tables
  BY <1>0, SourcesAreTables
<1> DEFINE more == [u \in DOMAIN dbtRun[r].reads[m] \cup {t} |->
                       IF u = t THEN silver[t] ELSE dbtRun[r].reads[m][u]]
<1>4. dbtRun' = [dbtRun EXCEPT ![r].reads[m] = more]
  BY <1>2
<1>5. IsReads(more)
  BY <1>0, <1>2, <1>3, ReadOne DEF TypeInv
<1> HIDE DEF more
<1>6. dbtRun'[r] = [todo |-> dbtRun[r].todo, untested |-> dbtRun[r].untested,
                    reads |-> [dbtRun[r].reads EXCEPT ![m] = more]]
  BY <1>0, <1>4
<1>7. DOMAIN dbtRun' = Runs /\ \A o \in Runs \ {r} : dbtRun'[o] = dbtRun[o]
  BY <1>0, <1>4
<1>8. UNCHANGED <<silver, history, dbt>>
  BY DEF ReadSource, silverVars
<1>9. QED
  BY <1>3, <1>5, <1>6, <1>7, <1>8 DEF more

(* The model m is built by r and takes the place of the last one.            *)
Rebuilds(r, m) ==
    /\ m \in dbtRun[r].todo
    /\ DOMAIN dbtRun[r].reads[m] = DbtSources(m)
    /\ dbtRun'[r] = [todo |-> dbtRun[r].todo \ {m}, untested |-> dbtRun[r].untested \cup {m},
                     reads |-> [dbtRun[r].reads EXCEPT ![m] = NothingQueried[m]]]
    /\ dbt'[m] = dbtRun[r].reads[m]
    /\ \A n \in DbtMarts \ {m} : dbt'[n] = dbt[n]

LEMMA DbtReplaces ==
    ASSUME TypeInv, NEW r \in Runs, ReplaceModel(r)
    PROVE  /\ UNCHANGED <<silver, history>>
           /\ DOMAIN dbtRun' = Runs /\ DOMAIN dbt' = DbtMarts
           /\ \A o \in Runs \ {r} : dbtRun'[o] = dbtRun[o]
           /\ \E m \in DbtMarts : Rebuilds(r, m)
<1>0. DOMAIN dbtRun = Runs /\ DOMAIN dbt = DbtMarts /\ dbtRun[r].todo \subseteq DbtMarts
  BY DEF TypeInv, DbtTyped, IsDbtRun
<1>1. PICK m \in dbtRun[r].todo :
         /\ DOMAIN dbtRun[r].reads[m] = DbtSources(m)
         /\ dbt' = [dbt EXCEPT ![m] = dbtRun[r].reads[m]]
         /\ dbtRun' = [dbtRun EXCEPT ![r] =
               [todo |-> @.todo \ {m}, untested |-> @.untested \cup {m},
                reads |-> [@.reads EXCEPT ![m] = NothingQueried[m]]]]
  BY DEF ReplaceModel
<1>2. UNCHANGED <<silver, history>>
  BY DEF ReplaceModel, silverVars
<1>3. m \in DbtMarts /\ DOMAIN dbt' = DbtMarts /\ DOMAIN dbtRun' = Runs
      /\ \A o \in Runs \ {r} : dbtRun'[o] = dbtRun[o]
  BY <1>0, <1>1
<1>4. Rebuilds(r, m)
  BY <1>0, <1>1 DEF Rebuilds
<1>5. QED
  BY <1>2, <1>3, <1>4

LEMMA DbtTests ==
    ASSUME TypeInv, NEW r \in Runs, TestModel(r)
    PROVE  /\ UNCHANGED <<silver, history, dbt>>
           /\ DOMAIN dbtRun' = Runs
           /\ \A o \in Runs \ {r} : dbtRun'[o] = dbtRun[o]
           /\ \E m \in DbtMarts :
                 /\ TestPasses(m, dbt[m])
                 /\ dbtRun'[r] = [todo |-> dbtRun[r].todo, untested |-> dbtRun[r].untested \ {m},
                                  reads |-> dbtRun[r].reads]
<1>0. /\ DOMAIN dbtRun = Runs /\ dbtRun[r].untested \subseteq DbtMarts
      /\ dbtRun[r] = [todo |-> dbtRun[r].todo, untested |-> dbtRun[r].untested,
                      reads |-> dbtRun[r].reads]
  BY DEF TypeInv, DbtTyped, IsDbtRun
<1>1. PICK m \in dbtRun[r].untested :
         /\ TestPasses(m, dbt[m])
         /\ dbtRun' = [dbtRun EXCEPT ![r].untested = @ \ {m}]
  BY DEF TestModel
<1>2. UNCHANGED <<silver, history, dbt>>
  BY DEF TestModel, silverVars
<1>3. dbtRun'[r] = [todo |-> dbtRun[r].todo, untested |-> dbtRun[r].untested \ {m},
                    reads |-> dbtRun[r].reads]
  BY <1>0, <1>1
<1>4. DOMAIN dbtRun' = Runs /\ \A o \in Runs \ {r} : dbtRun'[o] = dbtRun[o]
  BY <1>0, <1>1
<1>5. QED
  BY <1>0, <1>1, <1>2, <1>3, <1>4

(* What load_suites finds, if it finds the directory or not.                 *)
LEMMA LoadedSuites ==
    /\ Len(Loaded) \in Nat
    /\ SuiteDirFound => Loaded = Suites
    /\ ~SuiteDirFound => Len(Loaded) = 0
BY SuitesType, GateAssumption DEF Loaded

LEMMA GateChecks ==
    ASSUME TypeInv, NEW r \in Runs, Evaluate(r)
    PROVE  LET s == gate[r].suite
               i == gate[r].next
               e == Suites[s][i]
           IN  /\ UNCHANGED <<silver, history>>
               /\ gate' \in [Runs -> [suite : 1..Len(Suites) + 1, next : Nat \ {0},
                                      failures : SUBSET (1..Len(Suites))]]
               /\ \A o \in Runs \ {r} : gate'[o] = gate[o]
               /\ s \in 1..Len(Suites)
               /\ silver[e.table] # 0
               /\ gate'[r].failures = IF Check(e, Contents(e.table, silver[e.table]))
                                      THEN gate[r].failures ELSE gate[r].failures \cup {s}
               /\ IF i = Len(Suites[s]) THEN gate'[r].suite = s + 1 /\ gate'[r].next = 1
                  ELSE gate'[r].suite = s /\ gate'[r].next = i + 1
<1> DEFINE s == gate[r].suite
           i == gate[r].next
           e == Suites[s][i]
           last == gate[r].next = Len(Suites[s])
           new == [suite |-> IF last THEN s + 1 ELSE s,
                   next |-> IF last THEN 1 ELSE gate[r].next + 1,
                   failures |-> IF Check(e, Contents(e.table, silver[e.table]))
                                THEN gate[r].failures
                                ELSE gate[r].failures \cup {s}]
<1>1. gate \in [Runs -> [suite : 1..Len(Suites) + 1, next : Nat \ {0},
                         failures : SUBSET (1..Len(Suites))]]
  BY MedallionAssumption DEF TypeInv, GateTypeOK
<1>0. ~(gate[r].suite > Len(Loaded)) /\ Loaded = Suites
  <2>1. ~(gate[r].suite > Len(Loaded))
    BY DEF Evaluate, AllChecked
  <2>2. gate[r].suite >= 1 /\ gate[r].suite \in Int
    BY <1>1, SuitesType
  <2>3. QED
    BY <2>1, <2>2, LoadedSuites, GateAssumption
<1>2. /\ ~(s > Len(Suites))
      /\ silver[e.table] # 0
      /\ gate' = [gate EXCEPT ![r] = new]
      /\ UNCHANGED <<silver, history>>
  BY <1>0 DEF Evaluate, Expectation, silverVars
<1>3. s \in 1..Len(Suites) /\ Len(Suites) \in Nat
  BY <1>1, <1>2, SuitesType
<1>4. gate'[r] = new /\ \A o \in Runs \ {r} : gate'[o] = gate[o]
  BY <1>1, <1>2
<1>5. new \in [suite : 1..Len(Suites) + 1, next : Nat \ {0}, failures : SUBSET (1..Len(Suites))]
  <2>1. (IF last THEN s + 1 ELSE s) \in 1..Len(Suites) + 1
    BY <1>3
  <2>2. (IF last THEN 1 ELSE gate[r].next + 1) \in Nat \ {0}
    BY <1>1
  <2>3. (IF Check(e, Contents(e.table, silver[e.table])) THEN gate[r].failures
         ELSE gate[r].failures \cup {s}) \in SUBSET (1..Len(Suites))
    BY <1>1, <1>3
  <2>4. QED
    BY <2>1, <2>2, <2>3
<1>6. gate' \in [Runs -> [suite : 1..Len(Suites) + 1, next : Nat \ {0},
                          failures : SUBSET (1..Len(Suites))]]
  BY <1>1, <1>2, <1>5
<1>7. QED
  BY <1>2, <1>3, <1>4, <1>6

-----------------------------------------------------------------------------
(* A build that starts or dies keeps the types, whatever the others do.      *)
LEMMA GoldMovesTyped ==
    ASSUME BuildersTyped,
           builder' = builder \/ \E b \in Builders : StartBuilder(b) \/ KillBuilder(b)
    PROVE  BuildersTyped'
<1>1. CASE \E b \in Builders : StartBuilder(b)
  <2>1. PICK b \in Builders : StartBuilder(b)
    BY <1>1
  <2>2. /\ DOMAIN builder' = Builders
        /\ builder'[b] = [mart |-> 1, reads |-> NothingRead, crossed |-> Live \ {b} # {}]
        /\ \A c \in Builders \ {b} :
              builder'[c] = IF ~GoldDone(c)
                            THEN [mart |-> builder[c].mart, reads |-> builder[c].reads,
                                  crossed |-> TRUE]
                            ELSE builder[c]
    BY <2>1, GoldStarts
  <2>3. IsBuilder(builder'[b])
    <3>1. IsReads(NothingRead)
      BY DEF NothingRead, IsReads
    <3>2. QED
      BY <2>2, <3>1 DEF IsBuilder
  <2>4. ASSUME NEW c \in Builders \ {b} PROVE IsBuilder(builder'[c])
    <3>1. IsBuilder(builder[c])
      BY DEF BuildersTyped
    <3>2. CASE GoldDone(c)
      BY <2>2, <3>1, <3>2
    <3>3. CASE ~GoldDone(c)
      <4>1. builder'[c] = [mart |-> builder[c].mart, reads |-> builder[c].reads, crossed |-> TRUE]
        BY <2>2, <3>3
      <4>2. QED
        BY <3>1, <4>1 DEF IsBuilder
    <3>4. QED
      BY <3>2, <3>3
  <2>5. QED
    BY <2>2, <2>3, <2>4 DEF BuildersTyped, IsBuilder, IsReads
<1>2. CASE \E b \in Builders : KillBuilder(b)
  <2>1. /\ DOMAIN builder' = Builders
        /\ \A c \in Builders : builder'[c] = builder[c] \/ builder'[c] = Gone
    BY <1>2 DEF KillBuilder, BuildersTyped
  <2>2. \A c \in Builders : IsBuilder(builder'[c])
    BY <2>1, StartsTyped DEF BuildersTyped
  <2>3. QED
    BY <2>1, <2>2 DEF BuildersTyped, IsBuilder, IsReads
<1>3. CASE builder' = builder
  BY <1>3 DEF BuildersTyped, IsBuilder, IsReads
<1>4. QED
  BY <1>1, <1>2, <1>3

(* Each of the processes' steps keeps the types.                             *)
LEMMA GoldWorkTyped ==
    ASSUME TypeInv, NEW b \in Builders, GoldWork(b)
    PROVE  GoldTyped' /\ UNCHANGED <<silver, history, dbt, dbtRun, gate, dag, from, overlapped>>
<1>0. UNCHANGED <<silver, history, dbt, dbtRun, gate, dag, from, overlapped>>
  BY DEF GoldWork, BuildMarts, ReadSilver, ReplaceMart, SkipMart, dbtVars, gateVars, dagVars, silverVars
<1>1. /\ DOMAIN builder' = Builders
      /\ \A c \in Builders \ {b} : builder'[c] = builder[c]
      /\ IsBuilder(builder'[b])
  <2>1. CASE ReadSilver(b)
    <3>1. PICK t \in Tables : \E more :
             /\ builder'[b] = [mart |-> builder[b].mart, reads |-> more, crossed |-> builder[b].crossed]
             /\ IsReads(more)
      BY <2>1, GoldReads
    <3>2. PICK more :
             /\ builder'[b] = [mart |-> builder[b].mart, reads |-> more, crossed |-> builder[b].crossed]
             /\ IsReads(more)
      BY <3>1
    <3>3. IsBuilder(builder[b])
      BY DEF TypeInv, GoldTyped, BuildersTyped
    <3>4. IsBuilder(builder'[b])
      BY <3>2, <3>3 DEF IsBuilder
    <3>5. QED
      BY <2>1, <3>4, GoldReads
  <2>2. CASE ReplaceMart(b) \/ SkipMart(b)
    BY <2>2, GoldReplaces, GoldSkips, GoldGoesOn
  <2>3. QED
    BY <2>1, <2>2 DEF GoldWork, BuildMarts
<1>2. MartsTyped'
  <2>1. CASE ReplaceMart(b)
    <3>1. /\ DOMAIN gold' = GoldMarts /\ Mart(b) \in GoldMarts
          /\ DOMAIN builder[b].reads = MartSources(Mart(b))
          /\ gold'[Mart(b)] = builder[b].reads
          /\ \A m \in GoldMarts \ {Mart(b)} : gold'[m] = gold[m]
      BY <2>1, GoldReplaces
    <3>2. builder[b].reads \in [DOMAIN builder[b].reads -> Nat \ {0}]
      BY DEF TypeInv, GoldTyped, BuildersTyped, IsBuilder, IsReads
    <3>3. gold'[Mart(b)] \in [MartSources(Mart(b)) -> Nat \ {0}]
      BY <3>1, <3>2
    <3>4. QED
      BY <3>1, <3>3 DEF TypeInv, GoldTyped, MartsTyped
  <2>2. CASE ReadSilver(b) \/ SkipMart(b)
    BY <2>2, GoldReads, GoldSkips DEF TypeInv, GoldTyped, MartsTyped
  <2>3. QED
    BY <2>1, <2>2 DEF GoldWork, BuildMarts
<1>3. BuildersTyped'
  <2>1. \A c \in Builders : IsBuilder(builder'[c])
    BY <1>1 DEF TypeInv, GoldTyped, BuildersTyped
  <2>2. QED
    BY <1>1, <2>1 DEF BuildersTyped, IsBuilder, IsReads
<1>4. QED
  BY <1>0, <1>2, <1>3 DEF GoldTyped

LEMMA DbtWorkTyped ==
    ASSUME TypeInv, NEW r \in Runs, DbtWork(r)
    PROVE  DbtTyped' /\ UNCHANGED <<silver, history, gold, builder, gate, dag, from, overlapped>>
<1>0. UNCHANGED <<silver, history, gold, builder, gate, dag, from, overlapped>>
  BY DEF DbtWork, ReadSource, ReplaceModel, TestModel, goldVars, gateVars, dagVars, silverVars
<1>1. DOMAIN dbtRun' = Runs /\ \A o \in Runs \ {r} : dbtRun'[o] = dbtRun[o]
  BY DbtReads, DbtReplaces, DbtTests DEF DbtWork
<1>2. IsDbtRun(dbtRun'[r])
  <2>0. IsDbtRun(dbtRun[r])
    BY DEF TypeInv, DbtTyped
  <2> DEFINE todo == dbtRun[r].todo
             untested == dbtRun[r].untested
             reads == dbtRun[r].reads
  <2>1. CASE ReadSource(r)
    <3>1. PICK m \in DbtMarts, t \in Tables : \E more :
             /\ dbtRun'[r] = [todo |-> todo, untested |-> untested, reads |-> [reads EXCEPT ![m] = more]]
             /\ IsReads(more)
      BY <2>1, DbtReads
    <3>2. PICK more :
             /\ dbtRun'[r] = [todo |-> todo, untested |-> untested, reads |-> [reads EXCEPT ![m] = more]]
             /\ IsReads(more)
      BY <3>1
    <3> HIDE DEF todo, untested, reads
    <3>3. /\ todo \subseteq DbtMarts /\ untested \subseteq DbtMarts /\ DOMAIN reads = DbtMarts
          /\ \A n \in DbtMarts : IsReads(reads[n])
      BY <2>0 DEF IsDbtRun, todo, untested, reads
    <3>4. /\ DOMAIN [reads EXCEPT ![m] = more] = DbtMarts
          /\ \A n \in DbtMarts : IsReads([reads EXCEPT ![m] = more][n])
      BY <3>2, <3>3
    <3>5. QED
      BY <3>2, <3>3, <3>4 DEF IsDbtRun
  <2>2. CASE ReplaceModel(r)
    <3>1. PICK m \in DbtMarts : Rebuilds(r, m)
      BY <2>2, DbtReplaces
    <3>2. dbtRun'[r] = [todo |-> todo \ {m}, untested |-> untested \cup {m},
                        reads |-> [reads EXCEPT ![m] = NothingQueried[m]]]
      BY <3>1 DEF Rebuilds
    <3> HIDE DEF todo, untested, reads
    <3>3. /\ todo \subseteq DbtMarts /\ untested \subseteq DbtMarts /\ DOMAIN reads = DbtMarts
          /\ \A n \in DbtMarts : IsReads(reads[n])
      BY <2>0 DEF IsDbtRun, todo, untested, reads
    <3>4. IsReads(NothingQueried[m])
      BY DEF NothingQueried, IsReads
    <3>5. /\ DOMAIN [reads EXCEPT ![m] = NothingQueried[m]] = DbtMarts
          /\ \A n \in DbtMarts : IsReads([reads EXCEPT ![m] = NothingQueried[m]][n])
      BY <3>3, <3>4
    <3>6. todo \ {m} \subseteq DbtMarts /\ untested \cup {m} \subseteq DbtMarts
      BY <3>3
    <3>7. QED
      BY <3>2, <3>5, <3>6 DEF IsDbtRun
  <2>3. CASE TestModel(r)
    <3>1. PICK m \in DbtMarts :
             dbtRun'[r] = [todo |-> todo, untested |-> untested \ {m}, reads |-> reads]
      BY <2>3, DbtTests
    <3>2. QED
      BY <2>0, <3>1 DEF IsDbtRun
  <2>4. QED
    BY <2>1, <2>2, <2>3 DEF DbtWork
<1>3. /\ DOMAIN dbt' = DbtMarts
      /\ \A m \in DbtMarts : dbt'[m] = NULL \/ dbt'[m] \in [DbtSources(m) -> Nat \ {0}]
  <2>1. CASE ReplaceModel(r)
    <3>1. PICK m \in DbtMarts :
             /\ DOMAIN dbtRun[r].reads[m] = DbtSources(m)
             /\ dbt'[m] = dbtRun[r].reads[m]
             /\ \A n \in DbtMarts \ {m} : dbt'[n] = dbt[n]
      BY <2>1, DbtReplaces DEF Rebuilds
    <3>2. dbtRun[r].reads[m] \in [DOMAIN dbtRun[r].reads[m] -> Nat \ {0}]
      BY DEF TypeInv, DbtTyped, IsDbtRun, IsReads
    <3>3. dbt'[m] \in [DbtSources(m) -> Nat \ {0}]
      BY <3>1, <3>2
    <3>4. DOMAIN dbt' = DbtMarts
      BY <2>1, DbtReplaces
    <3>5. QED
      BY <3>1, <3>3, <3>4 DEF TypeInv, DbtTyped
  <2>2. CASE ReadSource(r) \/ TestModel(r)
    BY <2>2, DbtReads, DbtTests DEF TypeInv, DbtTyped
  <2>3. QED
    BY <2>1, <2>2 DEF DbtWork
<1>4. \A o \in Runs : IsDbtRun(dbtRun'[o])
  BY <1>1, <1>2 DEF TypeInv, DbtTyped
<1>5. QED
  BY <1>0, <1>1, <1>3, <1>4 DEF DbtTyped, IsDbtRun, IsReads

LEMMA GateWorkTyped ==
    ASSUME TypeInv, NEW r \in Runs, GateWork(r)
    PROVE  /\ GateTypeOK'
           /\ UNCHANGED <<silver, history, gold, builder, dbt, dbtRun, dag, from, overlapped>>
           /\ \A o \in Runs \ {r} : gate'[o] = gate[o]
<1>1. UNCHANGED <<silver, history, gold, builder, dbt, dbtRun, dag, from, overlapped>>
  BY DEF GateWork, Evaluate, goldVars, dbtVars, dagVars, silverVars
<1>2. QED
  BY <1>1, GateChecks, MedallionAssumption DEF GateWork, GateTypeOK

-----------------------------------------------------------------------------
(* What every step is: one of a run's, of a build of Gold, or a merge into   *)
(* Silver.                                                                   *)
LEMMA StepCases ==
    ASSUME TypeInv, [Next]_vars
    PROVE  \/ \E r \in Runs : \/ Trigger(r) \/ StartTask(r) \/ TaskSucceeds(r) \/ TaskFails(r)
                              \/ DbtWork(r) \/ GateWork(r)
           \/ \E b \in Builders : GoldWork(b)
           \/ \E t \in Tables : Merge(t)
           \/ UNCHANGED vars
<1>1. ASSUME NEW r \in Runs, WorkOnTask(r)
      PROVE  DbtWork(r) \/ GateWork(r) \/ \E b \in Builders : GoldWork(b)
  <2>1. CASE Running(r, "build_gold")
    <3>1. Process(r) \in Builders
      BY <2>1, ProcessesAreBuilders DEF TypeInv, Running, In
    <3>2. BuildMarts(Process(r)) /\ UNCHANGED <<dbtVars, gateVars, dagVars>>
      BY <1>1, <2>1 DEF WorkOnTask, Running, In
    <3>3. QED
      BY <3>1, <3>2 DEF GoldWork
  <2>2. CASE ~Running(r, "build_gold")
    BY <1>1, <2>2 DEF WorkOnTask, DbtWork, GateWork
  <2>3. QED
    BY <2>1, <2>2
<1>2. \A b \in Builders : OrphanWorks(b) => GoldWork(b)
  BY DEF OrphanWorks, GoldWork
<1>3. QED
  BY <1>1, <1>2 DEF Next, Advance

(* A merge adds one snapshot to a table.                                     *)
LEMMA MergeStep ==
    ASSUME TypeInv, NEW t \in Tables, Merge(t)
    PROVE  /\ SilverTyped' /\ history' = history
           /\ \A u \in Tables : silver'[u] \in Nat /\ silver[u] <= silver'[u]
           /\ UNCHANGED <<gold, builder, dbt, dbtRun, gate, dag, from, overlapped>>
<1>1. /\ silver[t] < Len(history[t])
      /\ silver' = [silver EXCEPT ![t] = @ + 1]
      /\ history' = history
      /\ UNCHANGED <<gold, builder, dbt, dbtRun, gate, dag, from, overlapped>>
  BY DEF Merge, CommitMerge, goldVars, dbtVars, gateVars, dagVars
<1>2. /\ silver \in [Tables -> Nat] /\ history \in Histories
      /\ \A u \in Tables : silver[u] <= Len(history[u]) /\ Len(history[u]) \in Nat
  BY HistoryType DEF TypeInv, SilverTyped
<1>3. /\ silver' \in [Tables -> Nat]
      /\ \A u \in Tables : silver'[u] = IF u = t THEN silver[u] + 1 ELSE silver[u]
  BY <1>1, <1>2
<1>4. \A u \in Tables : silver'[u] \in Nat /\ silver[u] <= silver'[u] /\ silver'[u] <= Len(history[u])
  BY <1>1, <1>2, <1>3
<1>5. QED
  BY <1>1, <1>2, <1>3, <1>4 DEF SilverTyped

(* The types of the processes, when only the task of r lets go of its own.   *)
LEMMA ExitTyped ==
    ASSUME TypeInv, NEW r \in Runs, ProcessExits(r), dag[r].state = "running",
           builder' = builder \/ \E b \in Builders : KillBuilder(b)
    PROVE  SilverTyped' /\ GoldTyped' /\ DbtTyped' /\ GateTypeOK'
<1>1. /\ UNCHANGED <<silver, history, gold, dbt>>
      /\ dbtRun' = [dbtRun EXCEPT ![r] = DbtStart] \/ dbtRun' = dbtRun
      /\ gate' = [gate EXCEPT ![r] = GateStart] \/ gate' = gate
  BY ExitStep
<1>2. SilverTyped'
  BY <1>1 DEF TypeInv, SilverTyped
<1>3. GoldTyped'
  BY <1>1, GoldMovesTyped DEF TypeInv, GoldTyped, MartsTyped
<1>4. DbtTyped'
  <2>1. DOMAIN dbtRun' = Runs
    BY <1>1 DEF TypeInv, DbtTyped
  <2>2. \A o \in Runs : dbtRun'[o] = dbtRun[o] \/ dbtRun'[o] = DbtStart
    BY <1>1 DEF TypeInv, DbtTyped
  <2>3. \A o \in Runs : IsDbtRun(dbtRun'[o])
    BY <2>2, StartsTyped DEF TypeInv, DbtTyped
  <2>4. QED
    BY <1>1, <2>1, <2>3 DEF TypeInv, DbtTyped, IsDbtRun, IsReads
<1>5. GateTypeOK'
  BY <1>1, StartsTyped DEF TypeInv, GateTypeOK
<1>6. QED
  BY <1>2, <1>3, <1>4, <1>5

(* No task comes to run when a run is triggered or an attempt ends.          *)
LEMMA SettlesRunning ==
    ASSUME TypeInv, DagTyped', NEW r \in Runs, Settles(r)
    PROVE  /\ \A task : ~Running(r, task)'
           /\ \A o \in Runs \ {r} : \A task : Running(o, task)' <=> Running(o, task)
BY DEF Settles, Running, In, Task

(* What Running says when the run's entry is what it was.                    *)
LEMMA RunningFrame ==
    ASSUME NEW r \in Runs, dag'[r] = dag[r]
    PROVE  \A task : Running(r, task)' <=> Running(r, task)
BY DEF Running, In, Task

LEMMA NoProcessStep ==
    ASSUME TypeInv, [Next]_vars, DagTyped'
    PROVE  NoProcess'
<1>1. CASE \E r \in Runs : Trigger(r)
  <2>1. PICK r \in Runs : Trigger(r)
    BY <1>1
  <2>2. Settles(r) /\ UNCHANGED <<dbtRun, gate>> /\ dag[r].state = "none"
    BY <2>1, TriggerStep
  <2>3. \A task : ~Running(r, task)
    BY <2>2 DEF Running, In
  <2>4. \A o \in Runs : \A task : Running(o, task)' <=> Running(o, task)
    BY <2>2, <2>3, SettlesRunning
  <2>5. QED
    BY <2>2, <2>4 DEF TypeInv, NoProcess, DbtStart, NothingQueried, GateStart
<1>2. CASE \E r \in Runs : StartTask(r)
  <2>1. PICK r \in Runs : StartTask(r)
    BY <1>2
  <2>2. /\ \A o \in Runs \ {r} : dag'[o] = dag[o]
        /\ dag[r].state \in {"queued", "up_for_retry"}
        /\ UNCHANGED <<dbtRun, gate>>
    BY <2>1, StartStep
  <2>3. \A o \in Runs : \A task : Running(o, task) => Running(o, task)'
    BY <2>2, RunningFrame DEF Running, In, Task
  <2>4. QED
    BY <2>2, <2>3 DEF TypeInv, NoProcess, DbtStart, NothingQueried, GateStart
<1>3. CASE \E r \in Runs : TaskSucceeds(r) \/ TaskFails(r)
  <2>1. PICK r \in Runs : TaskSucceeds(r) \/ TaskFails(r)
    BY <1>3
  <2>2. Settles(r) /\ ProcessExits(r) /\ dag[r].state = "running"
    BY <2>1, SucceedStep, FailStep
  <2>3. /\ dbtRun'[r] = DbtStart /\ gate'[r] = GateStart
        /\ \A o \in Runs \ {r} : /\ dbtRun'[o] = dbtRun[o]
                                 /\ gate'[o] = gate[o]
    BY <2>2, ExitStep, MedallionAssumption
       DEF TypeInv, DbtTyped, GateTypeOK
  <2>4. \A o \in Runs \ {r} : \A task : Running(o, task)' <=> Running(o, task)
    BY <2>2, SettlesRunning
  <2>5. QED
    BY <2>3, <2>4 DEF TypeInv, NoProcess, DbtStart, NothingQueried, GateStart
<1>4. CASE \E r \in Runs : DbtWork(r) \/ GateWork(r)
  <2>1. PICK r \in Runs : DbtWork(r) \/ GateWork(r)
    BY <1>4
  <2>2. dag' = dag
    BY <2>1, DbtWorkTyped, GateWorkTyped
  <2>3. \A o \in Runs : \A task : Running(o, task)' <=> Running(o, task)
    BY <2>2, RunningFrame
  <2>4. \A o \in Runs \ {r} : dbtRun'[o] = dbtRun[o] /\ gate'[o] = gate[o]
    <3>1. CASE DbtWork(r)
      <4>1. gate' = gate
        BY <3>1, DbtWorkTyped
      <4>2. \A o \in Runs \ {r} : dbtRun'[o] = dbtRun[o]
        BY <3>1, DbtReads, DbtReplaces, DbtTests DEF DbtWork
      <4>3. QED
        BY <4>1, <4>2
    <3>2. CASE GateWork(r)
      BY <3>2, GateWorkTyped
    <3>3. QED
      BY <2>1, <3>1, <3>2
  <2>5. /\ dbtRun'[r] = dbtRun[r] \/ Running(r, "dbt_build")
        /\ gate'[r] = gate[r] \/ Running(r, "run_quality_gates")
    BY <2>1, DbtWorkTyped, GateWorkTyped DEF DbtWork, GateWork
  <2>6. QED
    BY <2>3, <2>4, <2>5 DEF TypeInv, NoProcess, DbtStart, NothingQueried, GateStart
<1>5. CASE (\E b \in Builders : GoldWork(b)) \/ (\E t \in Tables : Merge(t)) \/ UNCHANGED vars
  <2>1. UNCHANGED <<dbtRun, gate, dag>>
    BY <1>5, GoldWorkTyped DEF Merge, vars, goldVars, dbtVars, gateVars, dagVars
  <2>2. \A o \in Runs : \A task : Running(o, task)' <=> Running(o, task)
    BY <2>1, RunningFrame
  <2>3. QED
    BY <2>1, <2>2 DEF TypeInv, NoProcess, DbtStart, NothingQueried, GateStart
<1>6. QED
  BY <1>1, <1>2, <1>3, <1>4, <1>5, StepCases

(* Every step keeps the types.                                               *)
LEMMA TypesStep ==
    ASSUME TypeInv, [Next]_vars
    PROVE  TypeInv'
<1>1. SilverTyped' /\ GoldTyped' /\ DbtTyped' /\ GateTypeOK' /\ DagTyped'
  <2>1. CASE \E r \in Runs : Trigger(r) \/ StartTask(r)
    <3>1. /\ DagTyped' /\ UNCHANGED <<silver, history, gold, dbt, dbtRun, gate>>
          /\ builder' = builder \/ \E b \in Builders : StartBuilder(b)
      BY <2>1, TriggerStep, StartStep DEF Settles
    <3>2. BuildersTyped'
      BY <3>1, GoldMovesTyped DEF TypeInv, GoldTyped
    <3>3. QED
      BY <3>1, <3>2 DEF TypeInv, SilverTyped, GoldTyped, MartsTyped, DbtTyped, GateTypeOK, IsDbtRun, IsReads
  <2>2. CASE \E r \in Runs : TaskSucceeds(r) \/ TaskFails(r)
    BY <2>2, SucceedStep, FailStep, ExitTyped
  <2>3. CASE \E b \in Builders : GoldWork(b)
    <3>1. GoldTyped' /\ UNCHANGED <<silver, history, dbt, dbtRun, gate, dag, from, overlapped>>
      BY <2>3, GoldWorkTyped
    <3>2. QED
      BY <3>1 DEF TypeInv, SilverTyped, DbtTyped, GateTypeOK, DagTyped, IsDbtRun, IsReads
  <2>4. CASE \E r \in Runs : DbtWork(r)
    <3>1. DbtTyped' /\ UNCHANGED <<silver, history, gold, builder, gate, dag, from, overlapped>>
      BY <2>4, DbtWorkTyped
    <3>2. QED
      BY <3>1 DEF TypeInv, SilverTyped, GoldTyped, MartsTyped, BuildersTyped, GateTypeOK, DagTyped, IsBuilder, IsReads
  <2>5. CASE \E r \in Runs : GateWork(r)
    <3>1. GateTypeOK' /\ UNCHANGED <<silver, history, gold, builder, dbt, dbtRun, dag, from, overlapped>>
      BY <2>5, GateWorkTyped
    <3>2. QED
      BY <3>1 DEF TypeInv, SilverTyped, GoldTyped, MartsTyped, BuildersTyped, DbtTyped, DagTyped, IsBuilder, IsDbtRun, IsReads
  <2>6. CASE \E t \in Tables : Merge(t)
    <3>1. /\ SilverTyped' /\ UNCHANGED <<gold, builder, dbt, dbtRun, gate, dag, from, overlapped>>
          /\ \A u \in Tables : silver'[u] \in Nat /\ silver[u] <= silver'[u]
      BY <2>6, MergeStep
    <3>2. DagTyped'
      <4>1. \A r \in Runs, u \in Tables : from[r][u] <= silver'[u]
        <5> SUFFICES ASSUME NEW r \in Runs, NEW u \in Tables
                     PROVE  from[r][u] <= silver'[u]
          OBVIOUS
        <5>1. from[r][u] \in Nat /\ silver[u] \in Nat /\ from[r][u] <= silver[u]
          BY DEF TypeInv, DagTyped, SilverTyped
        <5>2. QED
          BY <3>1, <5>1
      <4>2. QED
        BY <3>1, <4>1 DEF TypeInv, DagTyped
    <3>3. QED
      BY <3>1, <3>2 DEF TypeInv, GoldTyped, MartsTyped, BuildersTyped, DbtTyped, GateTypeOK, IsBuilder, IsDbtRun, IsReads
  <2>7. CASE UNCHANGED vars
    <3>1. UNCHANGED <<silver, history, gold, builder, dbt, dbtRun, gate, dag, from, overlapped>>
      BY <2>7 DEF vars, silverVars, goldVars, dbtVars, gateVars, dagVars
    <3>2. QED
      BY <3>1 DEF TypeInv, SilverTyped, GoldTyped, MartsTyped, BuildersTyped, DbtTyped, GateTypeOK,
                  DagTyped, IsBuilder, IsDbtRun, IsReads
  <2>8. QED
    BY <2>1, <2>2, <2>3, <2>4, <2>5, <2>6, <2>7, StepCases
<1>2. QED
  BY <1>1, NoProcessStep DEF TypeInv

(* The initial states are typed.                                             *)
LEMMA InitTypes ==
    ASSUME Init
    PROVE  TypeInv
<1>1. SilverTyped
  <2>1. history \in Histories /\ silver = [t \in Tables |-> IF t \in Built /\ history[t] # << >> THEN 1 ELSE 0]
    BY DEF Init, SilverInit
  <2>2. ASSUME NEW t \in Tables
        PROVE  silver[t] <= Len(history[t])
    <3>1. history[t] \in Seq(SUBSET Rows)
      BY <2>1, SilverLayerAssumption
    <3>2. history[t] # << >> => Len(history[t]) >= 1
      BY <3>1
    <3>3. Len(history[t]) \in Nat
      BY <3>1
    <3>4. QED
      BY <2>1, <3>2, <3>3
  <2>3. QED
    BY <2>1, <2>2 DEF SilverTyped
<1>2. GoldTyped
  <2>1. builder = [b \in Builders |-> Gone] /\ gold = [m \in GoldMarts |-> NULL]
    BY DEF Init, GoldInit
  <2>2. QED
    BY <2>1, StartsTyped DEF GoldTyped, MartsTyped, BuildersTyped
<1>3. DbtTyped
  <2>1. dbtRun = [r \in Runs |-> DbtStart] /\ dbt = [m \in DbtMarts |-> NULL]
    BY MedallionAssumption DEF Init, DbtInit
  <2>2. QED
    BY <2>1, StartsTyped DEF DbtTyped
<1>4. GateTypeOK /\ gate = [r \in Runs |-> GateStart]
  BY MedallionAssumption, StartsTyped DEF Init, GateInit, GateTypeOK
<1>5. DagTyped
  <2>1. /\ dag = [r \in Runs |-> [task |-> 1, state |-> "none", attempts |-> 0]]
        /\ from = [r \in Runs |-> silver]
        /\ overlapped = [r \in Runs |-> FALSE]
    BY DEF Init
  <2>2. QED
    BY <1>1, <2>1, MedallionAssumption DEF DagTyped, SilverTyped, States
<1>6. NoProcess
  BY <1>4, MedallionAssumption DEF Init, DbtInit, NoProcess
<1>7. QED
  BY <1>1, <1>2, <1>3, <1>4, <1>5, <1>6 DEF TypeInv

(* TypeInv says more than TypeOK.                                            *)
LEMMA TypesImplyOK == TypeInv => TypeOK
<1> SUFFICES ASSUME TypeInv
             PROVE  TypeOK
  OBVIOUS
<1> USE DEF TypeInv
<1>1. SilverTypeOK
  BY HistoryType DEF SilverTyped, SilverTypeOK
<1>2. GoldTypeOK
  BY Orders DEF GoldTyped, MartsTyped, BuildersTyped, GoldTypeOK, IsBuilder, IsReads
<1>3. DbtTypeOK
  BY MedallionAssumption DEF DbtTyped, DbtTypeOK, IsDbtRun, IsReads
<1>4. dag \in [Runs -> [task : 1..Len(TaskOrder), attempts : 0..Retries + 1,
                        state : {"none", "queued", "running", "up_for_retry", "success", "failed"}]]
  <2>1. \A r \in Runs : dag[r].attempts \in 0..Retries + 1
    BY MedallionAssumption DEF DagTyped
  <2>2. \A r \in Runs : dag[r] \in [task : 1..4, attempts : 0..Retries + 1, state : States]
    BY <2>1 DEF DagTyped
  <2>3. QED
    BY <2>2, Orders DEF DagTyped, States
<1>5. \A r \in Runs, t \in Tables : from[r][t] \in 0..silver[t]
  BY DEF DagTyped, SilverTyped
<1>6. QED
  BY <1>1, <1>2, <1>3, <1>4, <1>5 DEF TypeOK, DagTyped

(* TypeInv is an invariant.                                                  *)
LEMMA TypesInvariant == Spec => []TypeInv
<1>1. TypeInv /\ [Next]_vars => TypeInv'
  BY TypesStep
<1>2. QED
  BY <1>1, InitTypes, PTL DEF Spec

(* The tables, the marts, the processes of the tasks and the scheduler's     *)
(* records always have their types: no task has more attempts than Airflow   *)
(* gives it, and no attempt has begun at a later Silver than there is.       *)
THEOREM MedallionTypeCorrect == Spec => []TypeOK
BY TypesInvariant, TypesImplyOK, PTL

-----------------------------------------------------------------------------
(* The builds of Gold.  Two that are alive have crossed each other; a        *)
(* process has read nothing that is not in Silver yet, and a mart was built  *)
(* from nothing else; and one that has met no other is ahead of every mart.  *)
Behind(reads, others) ==
    \A t \in DOMAIN reads : t \in DOMAIN others => reads[t] <= others[t]

CrossSeen ==
    \A b, c \in Builders : b # c /\ ~GoldDone(b) /\ ~GoldDone(c) => builder[b].crossed

GoldReadsInv ==
    /\ \A b \in Builders : \A t \in DOMAIN builder[b].reads : builder[b].reads[t] <= silver[t]
    /\ \A m \in GoldMarts : gold[m] # NULL => \A t \in DOMAIN gold[m] : gold[m][t] <= silver[t]

GoldAhead ==
    \A b \in Builders : ~GoldDone(b) /\ ~builder[b].crossed =>
        \A m \in GoldMarts : gold[m] # NULL => Behind(gold[m], builder[b].reads)

GoldInv == CrossSeen /\ GoldReadsInv /\ GoldAhead

(* What was in Silver still is when Silver has grown.                        *)
LEMMA StillInSilver ==
    ASSUME TypeInv, TypeInv', \A u \in Tables : silver[u] <= silver'[u],
           NEW reads, IsReads(reads), \A t \in DOMAIN reads : reads[t] <= silver[t]
    PROVE  \A t \in DOMAIN reads : reads[t] <= silver'[t]
<1> SUFFICES ASSUME NEW t \in DOMAIN reads
             PROVE  reads[t] <= silver'[t]
  OBVIOUS
<1>1. t \in Tables /\ reads[t] \in Nat
  BY DEF IsReads
<1>2. silver[t] \in Nat /\ silver'[t] \in Nat /\ silver[t] <= silver'[t] /\ reads[t] <= silver[t]
  BY <1>1 DEF TypeInv, SilverTyped
<1>3. QED
  BY <1>1, <1>2

LEMMA MartsAreReads ==
    ASSUME TypeInv
    PROVE  /\ \A m \in GoldMarts : gold[m] # NULL => IsReads(gold[m])
           /\ \A m \in DbtMarts : dbt[m] # NULL => IsReads(dbt[m])
BY SourcesAreTables DEF TypeInv, GoldTyped, MartsTyped, DbtTyped, IsReads

(* A build that starts knows of the others, and they of it; one that dies    *)
(* has read nothing.                                                         *)
LEMMA GoldMoves ==
    ASSUME TypeInv, GoldInv, UNCHANGED <<silver, gold>>,
           builder' = builder \/ \E b \in Builders : StartBuilder(b) \/ KillBuilder(b)
    PROVE  GoldInv'
<1>1. CASE \E b \in Builders : StartBuilder(b)
  <2>1. PICK b \in Builders : StartBuilder(b)
    BY <1>1
  <2>2. /\ builder'[b] = [mart |-> 1, reads |-> NothingRead, crossed |-> Live \ {b} # {}]
        /\ \A c \in Builders \ {b} :
              builder'[c] = IF ~GoldDone(c)
                            THEN [mart |-> builder[c].mart, reads |-> builder[c].reads,
                                  crossed |-> TRUE]
                            ELSE builder[c]
    BY <2>1, GoldStarts DEF TypeInv, GoldTyped
  <2>3. /\ builder'[b].crossed = (Live \ {b} # {})
        /\ DOMAIN builder'[b].reads = {}
    <3>1. builder'[b].crossed = (Live \ {b} # {}) /\ builder'[b].reads = NothingRead
      BY <2>2
    <3>2. QED
      BY <3>1 DEF NothingRead
  <2>4. ASSUME NEW c \in Builders \ {b}
        PROVE  /\ GoldDone(c)' <=> GoldDone(c)
               /\ builder'[c].reads = builder[c].reads
               /\ ~GoldDone(c) => builder'[c].crossed
    <3>1. CASE GoldDone(c)
      BY <2>2, <3>1 DEF GoldDone
    <3>2. CASE ~GoldDone(c)
      <4>1. builder'[c] = [mart |-> builder[c].mart, reads |-> builder[c].reads, crossed |-> TRUE]
        BY <2>2, <3>2
      <4>2. builder'[c].mart = builder[c].mart /\ builder'[c].reads = builder[c].reads
            /\ builder'[c].crossed = TRUE
        BY <4>1
      <4>3. QED
        BY <4>2 DEF GoldDone
    <3>3. QED
      BY <3>1, <3>2
  <2>5. CrossSeen'
    <3> SUFFICES ASSUME NEW p \in Builders, NEW q \in Builders, p # q, ~GoldDone(p)', ~GoldDone(q)'
                 PROVE  builder'[p].crossed
      BY DEF CrossSeen
    <3>1. CASE p = b
      <4>1. q \in Live \ {b}
        BY <2>4, <3>1 DEF Live
      <4>2. QED
        BY <2>3, <3>1, <4>1
    <3>2. CASE p # b
      BY <2>4, <3>2
    <3>3. QED
      BY <3>1, <3>2
  <2>6. GoldReadsInv'
    BY <2>3, <2>4 DEF GoldInv, GoldReadsInv
  <2>7. GoldAhead'
    <3> SUFFICES ASSUME NEW p \in Builders, ~GoldDone(p)', ~builder'[p].crossed, NEW m \in GoldMarts
                 PROVE  Behind(gold[m], builder'[p].reads)
      BY DEF GoldAhead, Behind
    <3>1. p = b
      BY <2>4
    <3>2. QED
      BY <2>3, <3>1 DEF Behind
  <2>8. QED
    BY <2>5, <2>6, <2>7 DEF GoldInv
<1>2. CASE \E b \in Builders : KillBuilder(b)
  <2>1. \A c \in Builders : builder'[c] = builder[c] \/ builder'[c] = Gone
    BY <1>2 DEF KillBuilder, TypeInv, GoldTyped, BuildersTyped
  <2>2. \A c \in Builders : builder'[c] = Gone => GoldDone(c)'
    BY Orders DEF Gone, GoldDone
  <2>3. \A c \in Builders : ~GoldDone(c)' => builder'[c] = builder[c] /\ ~GoldDone(c)
    BY <2>1, <2>2 DEF GoldDone
  <2>4. CrossSeen'
    BY <2>3 DEF GoldInv, CrossSeen
  <2>5. GoldReadsInv'
    BY <2>1, StartsTyped DEF GoldInv, GoldReadsInv
  <2>6. GoldAhead'
    BY <2>3 DEF GoldInv, GoldAhead, Behind
  <2>7. QED
    BY <2>4, <2>5, <2>6 DEF GoldInv
<1>3. CASE builder' = builder
  BY <1>3 DEF GoldInv, CrossSeen, GoldReadsInv, GoldAhead, Behind, GoldDone
<1>4. QED
  BY <1>1, <1>2, <1>3

(* A build reads Silver as it is now, and replaces a mart with what it has   *)
(* read; whoever else is alive has met it.                                   *)
LEMMA GoldMakes ==
    ASSUME TypeInv, TypeInv', GoldInv, NEW b \in Builders, GoldWork(b)
    PROVE  GoldInv'
<1>1. /\ silver' = silver
      /\ \A c \in Builders \ {b} : builder'[c] = builder[c]
      /\ ~GoldDone(b)
  BY GoldWorkTyped, GoldReads, GoldReplaces, GoldSkips, GoldGoesOn DEF GoldWork, BuildMarts
<1>2. \A c \in Builders \ {b} : /\ GoldDone(c)' <=> GoldDone(c)
                                /\ ~GoldDone(c) => builder'[c].crossed /\ builder[c].crossed
  BY <1>1 DEF GoldDone, GoldInv, CrossSeen
<1>3. \A m \in GoldMarts : gold[m] # NULL =>
         \A t \in DOMAIN gold[m] : t \in Tables /\ gold[m][t] \in Nat /\ gold[m][t] <= silver[t]
  BY MartsAreReads DEF GoldInv, GoldReadsInv, IsReads
<1>4. \A t \in Tables : silver[t] \in Nat
  BY DEF TypeInv, SilverTyped
<1>5. ~GoldDone(b)' => builder'[b].crossed = builder[b].crossed
  <2>1. CASE ReadSilver(b)
    <3>1. \E more : builder'[b] = [mart |-> builder[b].mart, reads |-> more,
                                  crossed |-> builder[b].crossed]
      BY <2>1, GoldReads
    <3>2. QED
      BY <3>1
  <2>2. CASE ReplaceMart(b) \/ SkipMart(b)
    <3>1. builder'[b].mart <= 3 => builder'[b].crossed = builder[b].crossed
      BY <2>2, GoldReplaces, GoldSkips, GoldGoesOn
    <3>2. builder'[b].mart \in 1..4
      BY DEF TypeInv, GoldTyped, BuildersTyped, IsBuilder
    <3>3. QED
      BY <3>1, <3>2, Orders DEF GoldDone
  <2>3. QED
    BY <2>1, <2>2 DEF GoldWork, BuildMarts
<1>6. CrossSeen'
  <2> SUFFICES ASSUME NEW p \in Builders, NEW q \in Builders, p # q, ~GoldDone(p)', ~GoldDone(q)'
               PROVE  builder'[p].crossed
    BY DEF CrossSeen
  <2>1. CASE p = b
    BY <1>1, <1>2, <1>5, <2>1 DEF GoldInv, CrossSeen
  <2>2. CASE p # b
    BY <1>2, <2>2
  <2>3. QED
    BY <2>1, <2>2
<1>7. CASE ReadSilver(b)
  <2>1. gold' = gold
    BY <1>7, GoldReads
  <2>2. PICK t \in Tables : \E more :
           /\ builder'[b] = [mart |-> builder[b].mart, reads |-> more, crossed |-> builder[b].crossed]
           /\ more = [u \in DOMAIN builder[b].reads \cup {t} |->
                         IF u = t THEN silver[t] ELSE builder[b].reads[u]]
    BY <1>7, GoldReads
  <2>3. PICK more :
           /\ builder'[b] = [mart |-> builder[b].mart, reads |-> more, crossed |-> builder[b].crossed]
           /\ more = [u \in DOMAIN builder[b].reads \cup {t} |->
                         IF u = t THEN silver[t] ELSE builder[b].reads[u]]
    BY <2>2
  <2>4. /\ builder'[b].reads = more
        /\ \A u \in DOMAIN more : \/ u = t /\ more[u] = silver[t]
                                  \/ u \in DOMAIN builder[b].reads /\ more[u] = builder[b].reads[u]
    BY <2>3
  <2>5. GoldReadsInv'
    <3>1. \A u \in DOMAIN more : more[u] <= silver[u]
      BY <1>4, <2>4 DEF GoldInv, GoldReadsInv
    <3>2. \A c \in Builders : \A u \in DOMAIN builder'[c].reads : builder'[c].reads[u] <= silver[u]
      BY <1>1, <2>4, <3>1 DEF GoldInv, GoldReadsInv
    <3>3. QED
      BY <1>1, <2>1, <3>2 DEF GoldInv, GoldReadsInv
  <2>6. GoldAhead'
    <3> SUFFICES ASSUME NEW c \in Builders, ~GoldDone(c)', ~builder'[c].crossed,
                        NEW m \in GoldMarts, gold[m] # NULL
                 PROVE  Behind(gold[m], builder'[c].reads)
      BY <2>1 DEF GoldAhead, Behind
    <3>1. c = b
      BY <1>2
    <3>2. Behind(gold[m], builder[b].reads)
      BY <1>1, <1>5, <3>1 DEF GoldInv, GoldAhead
    <3>3. QED
      BY <1>3, <2>4, <3>1, <3>2 DEF Behind
  <2>7. QED
    BY <1>6, <2>5, <2>6 DEF GoldInv
<1>8. CASE ReplaceMart(b) \/ SkipMart(b)
  <2>1. DOMAIN builder'[b].reads = {}
    BY <1>8, GoldReplaces, GoldSkips, GoldGoesOn DEF NothingRead
  <2>2. \/ gold' = gold
        \/ /\ Mart(b) \in GoldMarts
           /\ gold'[Mart(b)] = builder[b].reads
           /\ \A m \in GoldMarts \ {Mart(b)} : gold'[m] = gold[m]
    BY <1>8, GoldReplaces, GoldSkips
  <2>3. GoldReadsInv'
    <3>1. \A c \in Builders : \A u \in DOMAIN builder'[c].reads : builder'[c].reads[u] <= silver[u]
      BY <1>1, <2>1 DEF GoldInv, GoldReadsInv
    <3>2. \A m \in GoldMarts : gold'[m] # NULL => \A t \in DOMAIN gold'[m] : gold'[m][t] <= silver[t]
      BY <2>2 DEF GoldInv, GoldReadsInv
    <3>3. QED
      BY <1>1, <3>1, <3>2 DEF GoldReadsInv
  <2>4. GoldAhead'
    BY <1>2, <2>1 DEF GoldAhead, Behind
  <2>5. QED
    BY <1>6, <2>3, <2>4 DEF GoldInv
<1>9. QED
  BY <1>7, <1>8 DEF GoldWork, BuildMarts

LEMMA GoldStep ==
    ASSUME TypeInv, TypeInv', GoldInv, [Next]_vars
    PROVE  GoldInv'
<1>1. CASE \E r \in Runs : Trigger(r) \/ StartTask(r) \/ TaskSucceeds(r) \/ TaskFails(r)
  <2>1. /\ UNCHANGED <<silver, gold>>
        /\ builder' = builder \/ \E b \in Builders : StartBuilder(b) \/ KillBuilder(b)
    BY <1>1, TriggerStep, StartStep, SucceedStep, FailStep DEF Settles
  <2>2. QED
    BY <2>1, GoldMoves
<1>2. CASE \E b \in Builders : GoldWork(b)
  BY <1>2, GoldMakes
<1>3. CASE \/ \E r \in Runs : DbtWork(r) \/ GateWork(r)
           \/ (\E t \in Tables : Merge(t)) \/ UNCHANGED vars
  <2>1. /\ UNCHANGED <<gold, builder>>
        /\ silver' = silver \/ \A u \in Tables : silver[u] <= silver'[u]
    BY <1>3, DbtWorkTyped, GateWorkTyped, MergeStep DEF vars, silverVars, goldVars
  <2>2. \A u \in Tables : silver[u] \in Nat /\ silver[u] <= silver[u]
    BY DEF TypeInv, SilverTyped
  <2>3. \A u \in Tables : silver[u] <= silver'[u]
    BY <2>1, <2>2
  <2>4. \A b \in Builders : \A t \in DOMAIN builder[b].reads : builder[b].reads[t] <= silver'[t]
    <3> SUFFICES ASSUME NEW b \in Builders
                 PROVE  \A t \in DOMAIN builder[b].reads : builder[b].reads[t] <= silver'[t]
      OBVIOUS
    <3>1. IsReads(builder[b].reads)
      BY DEF TypeInv, GoldTyped, BuildersTyped, IsBuilder
    <3>2. \A t \in DOMAIN builder[b].reads : builder[b].reads[t] <= silver[t]
      BY DEF GoldInv, GoldReadsInv
    <3>3. QED
      BY <2>3, <3>1, <3>2, StillInSilver
  <2>5. \A m \in GoldMarts : gold[m] # NULL => \A t \in DOMAIN gold[m] : gold[m][t] <= silver'[t]
    BY <2>3, StillInSilver, MartsAreReads DEF GoldInv, GoldReadsInv
  <2>6. GoldReadsInv'
    BY <2>1, <2>4, <2>5 DEF GoldReadsInv
  <2>7. CrossSeen' /\ GoldAhead'
    BY <2>1 DEF GoldInv, CrossSeen, GoldAhead, Behind, GoldDone
  <2>8. QED
    BY <2>6, <2>7 DEF GoldInv
<1>4. QED
  BY <1>1, <1>2, <1>3, StepCases

LEMMA GoldInvariant == Spec => []GoldInv
<1>1. Init => GoldInv
  <2> SUFFICES ASSUME Init PROVE GoldInv
    OBVIOUS
  <2>1. /\ \A b \in Builders : builder[b] = Gone
        /\ \A m \in GoldMarts : gold[m] = NULL
    BY DEF Init, GoldInit
  <2>2. \A b \in Builders : GoldDone(b) /\ DOMAIN builder[b].reads = {}
    BY <2>1, Orders, StartsTyped DEF GoldDone, Gone
  <2>3. QED
    BY <2>1, <2>2 DEF GoldInv, CrossSeen, GoldReadsInv, GoldAhead
<1>2. TypeInv /\ TypeInv' /\ GoldInv /\ [Next]_vars => GoldInv'
  BY GoldStep
<1>3. QED
  BY <1>1, <1>2, TypesInvariant, PTL DEF Spec

-----------------------------------------------------------------------------
(* The builds of dbt.  Two runs in the build both know of it; the query of a *)
(* model has read nothing that is not in Silver yet, and a mart was built    *)
(* from nothing else.                                                        *)
Queried(r, m) == dbtRun[r].reads[m]

OverlapSeen ==
    \A r, o \in Runs :
        r # o /\ Running(r, "dbt_build") /\ Running(o, "dbt_build") => overlapped[r]

ReadsInv ==
    /\ \A r \in Runs, m \in DbtMarts :
          \A t \in DOMAIN Queried(r, m) : Queried(r, m)[t] <= silver[t]
    /\ \A m \in DbtMarts : dbt[m] # NULL => \A t \in DOMAIN dbt[m] : dbt[m][t] <= silver[t]

(* A run that is alone in the build is ahead of every mart in place.         *)
Ahead ==
    \A r \in Runs : ~overlapped[r] /\ Running(r, "dbt_build") =>
        \A m \in DbtMarts : dbt[m] # NULL => Behind(dbt[m], Queried(r, m))

(* A dbt build reads Silver as it was when the attempt began or later; one   *)
(* that was alone has left fresh marts, and whoever has begun since then has *)
(* begun at a later Silver.                                                  *)
MartFresh(r, m) == dbt[m] # NULL /\ NoOlder(dbt[m], from[r])

DbtBuilt(r) == In(r, "run_quality_gates", {"queued"})

FreshInv ==
    \A r \in Runs :
        /\ Running(r, "dbt_build") => \A m \in DbtMarts : NoOlder(Queried(r, m), from[r])
        /\ ~overlapped[r] =>
              /\ Running(r, "dbt_build") =>
                    \A m \in DbtMarts : m \notin dbtRun[r].todo => MartFresh(r, m)
              /\ DbtBuilt(r) =>
                    /\ \A m \in DbtMarts : MartFresh(r, m)
                    /\ \A o \in Runs : Running(o, "dbt_build") =>
                          \A t \in Tables : from[r][t] <= from[o][t]

BuildInv == OverlapSeen /\ ReadsInv /\ Ahead /\ FreshInv

LEMMA QueriedTyped ==
    ASSUME TypeInv, NEW r \in Runs, NEW m \in DbtMarts
    PROVE  IsReads(Queried(r, m)) /\ Queried(r, m) # NULL
<1>1. IsReads(Queried(r, m))
  BY DEF TypeInv, DbtTyped, IsDbtRun, Queried
<1>2. QED
  BY <1>1, NullIsNotReads DEF IsReads

LEMMA NothingIsQueried ==
    ASSUME NEW r \in Runs, NEW m \in DbtMarts
    PROVE  /\ dbtRun[r] = DbtStart => DOMAIN Queried(r, m) = {}
           /\ dbtRun'[r] = DbtStart => DOMAIN Queried(r, m)' = {}
BY StartsTyped DEF Queried

(* The invariant is kept when nothing but Silver changes, and only grows.    *)
LEMMA BuildFrame ==
    ASSUME TypeInv, TypeInv', BuildInv,
           UNCHANGED <<dbt, dbtRun, dag, from, overlapped>>,
           \A u \in Tables : silver[u] <= silver'[u]
    PROVE  BuildInv'
<1>1. OverlapSeen' /\ Ahead' /\ FreshInv'
  BY DEF BuildInv, OverlapSeen, Ahead, Behind, FreshInv, MartFresh, NoOlder, Running, DbtBuilt,
         In, Task, Queried
<1>2. ReadsInv'
  <2>1. \A r \in Runs, m \in DbtMarts : \A t \in DOMAIN Queried(r, m) : Queried(r, m)[t] <= silver'[t]
    <3> SUFFICES ASSUME NEW r \in Runs, NEW m \in DbtMarts
                 PROVE  \A t \in DOMAIN Queried(r, m) : Queried(r, m)[t] <= silver'[t]
      OBVIOUS
    <3>1. \A t \in DOMAIN Queried(r, m) : Queried(r, m)[t] <= silver[t]
      BY DEF BuildInv, ReadsInv
    <3>2. QED
      BY <3>1, StillInSilver, QueriedTyped
  <2>2. \A m \in DbtMarts : dbt[m] # NULL => \A t \in DOMAIN dbt[m] : dbt[m][t] <= silver'[t]
    BY StillInSilver, MartsAreReads DEF BuildInv, ReadsInv
  <2>3. \A r \in Runs, m \in DbtMarts : Queried(r, m)' = Queried(r, m)
    BY DEF Queried
  <2>4. QED
    BY <2>1, <2>2, <2>3 DEF ReadsInv
<1>3. QED
  BY <1>1, <1>2 DEF BuildInv

(* A run is triggered, or an attempt ends: what the process had read is      *)
(* gone, and a dbt build ends in success only when no mart was left out.     *)
LEMMA BuildSettles ==
    ASSUME TypeInv, TypeInv', BuildInv, NEW r \in Runs,
           Trigger(r) \/ TaskSucceeds(r) \/ TaskFails(r)
    PROVE  BuildInv'
<1>1. Settles(r)
  BY TriggerStep, SucceedStep, FailStep
<1>2. UNCHANGED <<silver, dbt, from, overlapped>>
  BY <1>1 DEF Settles
<1>3. /\ \A task : ~Running(r, task)'
      /\ \A o \in Runs \ {r} : \A task : Running(o, task)' <=> Running(o, task)
  BY <1>1, SettlesRunning DEF TypeInv
<1>4. \A o \in Runs \ {r} : DbtBuilt(o)' <=> DbtBuilt(o)
  BY <1>1 DEF Settles, DbtBuilt, In, Task
<1>5. /\ \A o \in Runs \ {r} : dbtRun'[o] = dbtRun[o]
      /\ dbtRun'[r] = dbtRun[r] \/ dbtRun'[r] = DbtStart
  <2>1. CASE Trigger(r)
    BY <2>1, TriggerStep
  <2>2. CASE TaskSucceeds(r) \/ TaskFails(r)
    <3>1. ProcessExits(r) /\ dag[r].state = "running"
      BY <2>2, SucceedStep, FailStep
    <3>2. QED
      BY <3>1, ExitStep DEF TypeInv, DbtTyped
  <2>3. QED
    BY <2>1, <2>2
<1>6. DbtBuilt(r)' => Running(r, "dbt_build") /\ dbtRun[r].todo = {}
  <2>1. CASE Trigger(r)
    <3>1. dag'[r].task = 1
      BY <2>1, TriggerStep DEF TypeInv, DagTyped
    <3>2. QED
      BY <3>1, Orders DEF DbtBuilt, In, Task
  <2>2. CASE TaskFails(r)
    BY <2>2, FailStep DEF DbtBuilt, In
  <2>3. CASE TaskSucceeds(r)
    <3> SUFFICES ASSUME DbtBuilt(r)'
                 PROVE  Running(r, "dbt_build") /\ dbtRun[r].todo = {}
      OBVIOUS
    <3>1. dag'[r].state = "queued" /\ Task(r)' = "run_quality_gates"
      BY DEF DbtBuilt, In
    <3>2. dag'[r].task = 4
      <4>1. dag'[r].task \in 1..4
        BY DEF TypeInv, DagTyped
      <4>2. dag'[r].task = 1 \/ dag'[r].task = 2 \/ dag'[r].task = 3 \/ dag'[r].task = 4
        BY <4>1
      <4>3. QED
        BY <3>1, <4>2, Orders DEF Task
    <3>3. dag[r].task = 3
      <4>1. IF dag[r].task = 4 THEN dag'[r].state = "success"
            ELSE dag'[r].task = dag[r].task + 1
        BY <2>3, SucceedStep
      <4>2. dag[r].task \in 1..4
        BY DEF TypeInv, DagTyped
      <4>3. QED
        BY <3>1, <3>2, <4>1, <4>2
    <3>4. Task(r) = "dbt_build"
      BY <3>3, TaskNames DEF TypeInv
    <3>5. QED
      BY <2>3, <3>4, SucceedStep DEF Running, In, DbtDone
  <2>4. QED
    BY <2>1, <2>2, <2>3
<1>7. OverlapSeen'
  BY <1>2, <1>3 DEF BuildInv, OverlapSeen
<1>8. /\ \A o \in Runs \ {r}, m \in DbtMarts : Queried(o, m)' = Queried(o, m)
      /\ \A m \in DbtMarts : Queried(r, m)' = Queried(r, m) \/ DOMAIN Queried(r, m)' = {}
  <2>1. \A o \in Runs \ {r}, m \in DbtMarts : Queried(o, m)' = Queried(o, m)
    BY <1>5 DEF Queried
  <2>2. ASSUME NEW m \in DbtMarts
        PROVE  Queried(r, m)' = Queried(r, m) \/ DOMAIN Queried(r, m)' = {}
    <3>1. CASE dbtRun'[r] = dbtRun[r]
      BY <3>1 DEF Queried
    <3>2. CASE dbtRun'[r] = DbtStart
      BY <3>2, NothingIsQueried
    <3>3. QED
      BY <1>5, <3>1, <3>2
  <2>3. QED
    BY <2>1, <2>2
<1>9. ReadsInv'
  <2>1. \A o \in Runs, m \in DbtMarts : \A t \in DOMAIN Queried(o, m)' : Queried(o, m)'[t] <= silver[t]
    BY <1>8 DEF BuildInv, ReadsInv
  <2>2. QED
    BY <1>2, <2>1 DEF BuildInv, ReadsInv
<1>10. Ahead'
  BY <1>2, <1>3, <1>8 DEF BuildInv, Ahead, Behind
<1>11. FreshInv'
  <2>1. ASSUME NEW o \in Runs, Running(o, "dbt_build")', NEW m \in DbtMarts
        PROVE  NoOlder(Queried(o, m)', from[o])
    BY <1>3, <1>8, <2>1 DEF BuildInv, FreshInv
  <2>2. ASSUME NEW o \in Runs, ~overlapped[o], Running(o, "dbt_build")',
               NEW m \in DbtMarts, m \notin dbtRun'[o].todo
        PROVE  MartFresh(o, m)
    BY <1>3, <1>5, <2>2 DEF BuildInv, FreshInv
  <2>3. ASSUME NEW o \in Runs, ~overlapped[o], DbtBuilt(o)', NEW m \in DbtMarts
        PROVE  MartFresh(o, m)
    BY <1>4, <1>6, <2>3 DEF BuildInv, FreshInv
  <2>4. ASSUME NEW q \in Runs, ~overlapped[q], DbtBuilt(q)',
               NEW o \in Runs, Running(o, "dbt_build")', NEW t \in Tables
        PROVE  from[q][t] <= from[o][t]
    <3>1. o # r /\ Running(o, "dbt_build")
      BY <1>3, <2>4
    <3>2. CASE q = r
      BY <1>6, <2>4, <3>1, <3>2 DEF BuildInv, OverlapSeen
    <3>3. CASE q # r
      BY <1>4, <2>4, <3>1, <3>3 DEF BuildInv, FreshInv
    <3>4. QED
      BY <3>2, <3>3
  <2>5. \A o \in Runs, m \in DbtMarts : MartFresh(o, m)' <=> MartFresh(o, m)
    BY <1>2 DEF MartFresh, NoOlder
  <2>6. \A o \in Runs, m \in DbtMarts :
           NoOlder(Queried(o, m), from[o])' <=> NoOlder(Queried(o, m)', from[o])
    BY <1>2 DEF NoOlder
  <2>7. QED
    BY <1>2, <2>1, <2>2, <2>3, <2>4, <2>5, <2>6 DEF FreshInv
<1>12. QED
  BY <1>7, <1>9, <1>10, <1>11 DEF BuildInv

(* An attempt begins: it sees the runs that are in the same build, and they  *)
(* see it; a dbt build begins at the latest Silver, with every mart to do.   *)
LEMMA BuildStarts ==
    ASSUME TypeInv, TypeInv', BuildInv, NEW r \in Runs, StartTask(r)
    PROVE  BuildInv'
<1>1. /\ UNCHANGED <<silver, dbt, dbtRun>>
      /\ dag[r].state \in {"queued", "up_for_retry"}
      /\ dag'[r].state = "running" /\ dag'[r].task = dag[r].task
      /\ \A o \in Runs \ {r} : dag'[o] = dag[o] /\ from'[o] = from[o]
      /\ from'[r] = IF Task(r) \in Watched THEN silver ELSE from[r]
      /\ overlapped'[r] <=> \E o \in Runs \ {r} : Task(r) = "dbt_build" /\ Running(o, Task(r))
      /\ \A o \in Runs \ {r} :
            overlapped'[o] <=> \/ Task(r) = "dbt_build" /\ Running(o, Task(r))
                               \/ overlapped[o]
  BY StartStep
<1>2. /\ \A task : ~Running(r, task)
      /\ \A task : Running(r, task)' <=> Task(r) = task
      /\ ~DbtBuilt(r)'
      /\ \A o \in Runs \ {r} : /\ \A task : Running(o, task)' <=> Running(o, task)
                               /\ DbtBuilt(o)' <=> DbtBuilt(o)
  BY <1>1 DEF Running, DbtBuilt, In, Task
<1>3. dbtRun[r] = DbtStart
  BY <1>2 DEF TypeInv, NoProcess
<1>4. OverlapSeen'
  <2> SUFFICES ASSUME NEW q \in Runs, NEW o \in Runs, q # o,
                      Running(q, "dbt_build")', Running(o, "dbt_build")'
               PROVE  overlapped'[q]
    BY DEF OverlapSeen
  <2>1. CASE q = r
    <3>1. Task(r) = "dbt_build" /\ Running(o, "dbt_build")
      BY <1>2, <2>1
    <3>2. QED
      BY <1>1, <2>1, <3>1
  <2>2. CASE o = r
    <3>1. Task(r) = "dbt_build" /\ Running(q, "dbt_build")
      BY <1>2, <2>2
    <3>2. QED
      BY <1>1, <2>2, <3>1
  <2>3. CASE q # r /\ o # r
    <3>1. Running(q, "dbt_build") /\ Running(o, "dbt_build")
      BY <1>2, <2>3
    <3>2. overlapped[q]
      BY <2>3, <3>1 DEF BuildInv, OverlapSeen
    <3>3. QED
      BY <1>1, <2>3, <3>2
  <2>4. QED
    BY <2>1, <2>2, <2>3
<1>5. \A o \in Runs, m \in DbtMarts : Queried(o, m)' = Queried(o, m)
  BY <1>1 DEF Queried
<1>6. ReadsInv'
  <2>1. \A o \in Runs, m \in DbtMarts : \A t \in DOMAIN Queried(o, m)' : Queried(o, m)'[t] <= silver[t]
    BY <1>5 DEF BuildInv, ReadsInv
  <2>2. QED
    BY <1>1, <2>1 DEF BuildInv, ReadsInv
<1>7. \A o \in Runs \ {r} : ~overlapped'[o] => ~overlapped[o]
  BY <1>1
<1>8. dbtRun[r].todo = DbtMarts /\ \A m \in DbtMarts : DOMAIN Queried(r, m) = {}
  <2>1. dbtRun[r].todo = DbtMarts
    BY <1>3 DEF DbtStart
  <2>2. QED
    BY <1>3, <2>1, NothingIsQueried
<1>9. Ahead'
  <2>1. ASSUME NEW o \in Runs, ~overlapped'[o], Running(o, "dbt_build")',
               NEW m \in DbtMarts, dbt[m] # NULL
        PROVE  Behind(dbt[m], Queried(o, m))
    <3>1. CASE o = r
      BY <1>8, <3>1 DEF Behind
    <3>2. CASE o # r
      BY <1>2, <1>7, <2>1, <3>2 DEF BuildInv, Ahead
    <3>3. QED
      BY <3>1, <3>2
  <2>2. QED
    BY <1>1, <1>5, <2>1 DEF Ahead, Behind
<1>10. FreshInv'
  <2>1. ASSUME NEW o \in Runs, Running(o, "dbt_build")', NEW m \in DbtMarts
        PROVE  NoOlder(Queried(o, m), from'[o])
    <3>1. CASE o = r
      BY <1>8, <3>1 DEF NoOlder
    <3>2. CASE o # r
      BY <1>1, <1>2, <2>1, <3>2 DEF BuildInv, FreshInv
    <3>3. QED
      BY <3>1, <3>2
  <2>2. ASSUME NEW o \in Runs, ~overlapped'[o], Running(o, "dbt_build")',
               NEW m \in DbtMarts, m \notin dbtRun[o].todo
        PROVE  dbt[m] # NULL /\ NoOlder(dbt[m], from'[o])
    <3>1. CASE o = r
      BY <1>8, <2>2, <3>1
    <3>2. CASE o # r
      BY <1>1, <1>2, <1>7, <2>2, <3>2 DEF BuildInv, FreshInv, MartFresh
    <3>3. QED
      BY <3>1, <3>2
  <2>3. ASSUME NEW o \in Runs, ~overlapped'[o], DbtBuilt(o)', NEW m \in DbtMarts
        PROVE  dbt[m] # NULL /\ NoOlder(dbt[m], from'[o])
    BY <1>1, <1>2, <1>7, <2>3 DEF BuildInv, FreshInv, MartFresh
  <2>4. ASSUME NEW q \in Runs, ~overlapped'[q], DbtBuilt(q)',
               NEW o \in Runs, Running(o, "dbt_build")', NEW t \in Tables
        PROVE  from'[q][t] <= from'[o][t]
    <3>1. q # r /\ from'[q] = from[q] /\ DbtBuilt(q) /\ ~overlapped[q]
      BY <1>1, <1>2, <1>7, <2>4
    <3>2. CASE o = r
      <4>1. Task(r) \in Watched
        BY <1>2, <2>4, <3>2 DEF Watched
      <4>2. from'[r] = silver
        BY <1>1, <4>1
      <4>3. from[q][t] <= silver[t]
        BY DEF TypeInv, DagTyped
      <4>4. QED
        BY <3>1, <3>2, <4>2, <4>3
    <3>3. CASE o # r
      BY <1>1, <1>2, <2>4, <3>1, <3>3 DEF BuildInv, FreshInv
    <3>4. QED
      BY <3>2, <3>3
  <2>5. dbt' = dbt /\ dbtRun' = dbtRun
    BY <1>1
  <2>6. QED
    BY <1>5, <2>1, <2>2, <2>3, <2>4, <2>5 DEF FreshInv, MartFresh, NoOlder
<1>11. QED
  BY <1>4, <1>6, <1>9, <1>10 DEF BuildInv

(* A query reads Silver as it is now, and its model takes the place of a     *)
(* mart; whoever else is in the build knows that it is not alone.            *)
LEMMA BuildDbt ==
    ASSUME TypeInv, TypeInv', BuildInv, NEW r \in Runs, DbtWork(r)
    PROVE  BuildInv'
<1>1. /\ UNCHANGED <<silver, dag, from, overlapped>>
      /\ Running(r, "dbt_build")
  BY DbtWorkTyped DEF DbtWork
<1>2. OverlapSeen'
  BY <1>1 DEF BuildInv, OverlapSeen, Running, In, Task
<1>3. \A o \in Runs \ {r} : /\ dbtRun'[o] = dbtRun[o]
                            /\ \A m \in DbtMarts : Queried(o, m)' = Queried(o, m)
  BY DbtReads, DbtReplaces, DbtTests DEF DbtWork, Queried
<1>4. \A o \in Runs : /\ \A task : Running(o, task)' <=> Running(o, task)
                      /\ DbtBuilt(o)' <=> DbtBuilt(o)
  BY <1>1 DEF Running, DbtBuilt, In, Task
<1>5. \A m \in DbtMarts : dbt[m] # NULL =>
         \A t \in DOMAIN dbt[m] : t \in Tables /\ dbt[m][t] \in Nat /\ dbt[m][t] <= silver[t]
  BY MartsAreReads DEF BuildInv, ReadsInv, IsReads
<1>6. \A t \in Tables : silver[t] \in Nat /\ \A o \in Runs : from[o][t] \in Nat /\ from[o][t] <= silver[t]
  BY DEF TypeInv, SilverTyped, DagTyped
<1>7. \A m \in DbtMarts : /\ \A u \in DOMAIN Queried(r, m) : Queried(r, m)[u] <= silver[u]
                          /\ NoOlder(Queried(r, m), from[r])
                          /\ ~overlapped[r] /\ dbt[m] # NULL => Behind(dbt[m], Queried(r, m))
  BY <1>1 DEF BuildInv, FreshInv, ReadsInv, Ahead
<1>8. DOMAIN dbtRun[r].reads = DbtMarts
  BY DEF TypeInv, DbtTyped, IsDbtRun
\* What the queries have read, what has been built, and what is to build.
<1> DEFINE Kept == \A m \in DbtMarts :
                      /\ \A u \in DOMAIN Queried(r, m)' : Queried(r, m)'[u] <= silver[u]
                      /\ NoOlder(Queried(r, m)', from[r])
           Ready == \A m \in DbtMarts :
                       \/ dbt'[m] = dbt[m] /\ (m \notin dbtRun'[r].todo => m \notin dbtRun[r].todo)
                       \/ dbt'[m] = Queried(r, m)
           Newer == \A m \in DbtMarts : ~overlapped[r] /\ dbt'[m] # NULL => Behind(dbt'[m], Queried(r, m)')
<1>9. Kept /\ Ready /\ Newer
  <2>1. CASE ReadSource(r)
    <3>1. dbt' = dbt
      BY <2>1, DbtReads
    <3>2. PICK n \in DbtMarts, t \in Tables : \E more :
             /\ dbtRun'[r] = [todo |-> dbtRun[r].todo, untested |-> dbtRun[r].untested,
                              reads |-> [dbtRun[r].reads EXCEPT ![n] = more]]
             /\ more = [u \in DOMAIN dbtRun[r].reads[n] \cup {t} |->
                           IF u = t THEN silver[t] ELSE dbtRun[r].reads[n][u]]
             /\ IsReads(more)
      BY <2>1, DbtReads, Zenon
    <3>3. PICK more :
             /\ dbtRun'[r] = [todo |-> dbtRun[r].todo, untested |-> dbtRun[r].untested,
                              reads |-> [dbtRun[r].reads EXCEPT ![n] = more]]
             /\ more = [u \in DOMAIN dbtRun[r].reads[n] \cup {t} |->
                           IF u = t THEN silver[t] ELSE dbtRun[r].reads[n][u]]
      BY <3>2
    <3>4. /\ dbtRun'[r].todo = dbtRun[r].todo
          /\ dbtRun'[r].reads = [dbtRun[r].reads EXCEPT ![n] = more]
      BY <3>3
    <3>5. /\ Queried(r, n)' = more
          /\ \A m \in DbtMarts \ {n} : Queried(r, m)' = Queried(r, m)
      BY <1>8, <3>4 DEF Queried
    <3>6. \A u \in DOMAIN more : \/ u = t /\ more[u] = silver[t]
                                 \/ u \in DOMAIN Queried(r, n) /\ more[u] = Queried(r, n)[u]
      BY <3>3 DEF Queried
    <3>7. Kept
      <4>1. \A u \in DOMAIN more : more[u] <= silver[u]
        BY <1>6, <1>7, <3>6
      <4>2. NoOlder(more, from[r])
        BY <1>6, <1>7, <3>6 DEF NoOlder
      <4>3. QED
        BY <1>7, <3>5, <4>1, <4>2
    <3>8. Newer
      <4>1. ~overlapped[r] /\ dbt[n] # NULL => Behind(dbt[n], more)
        BY <1>5, <1>7, <3>6 DEF Behind
      <4>2. QED
        BY <1>7, <3>1, <3>5, <4>1
    <3>9. QED
      BY <3>1, <3>4, <3>7, <3>8
  <2>2. CASE ReplaceModel(r)
    <3>1. PICK n \in DbtMarts : Rebuilds(r, n)
      BY <2>2, DbtReplaces
    <3>2. /\ dbtRun'[r].todo = dbtRun[r].todo \ {n}
          /\ dbtRun'[r].reads = [dbtRun[r].reads EXCEPT ![n] = NothingQueried[n]]
      BY <3>1 DEF Rebuilds
    <3>3. /\ Queried(r, n)' = NothingQueried[n]
          /\ \A m \in DbtMarts \ {n} : Queried(r, m)' = Queried(r, m)
      BY <1>8, <3>2 DEF Queried
    <3>4. DOMAIN Queried(r, n)' = {}
      BY <3>3 DEF NothingQueried
    <3>5. dbt'[n] = Queried(r, n) /\ \A m \in DbtMarts \ {n} : dbt'[m] = dbt[m]
      BY <3>1 DEF Rebuilds, Queried
    <3>6. Ready
      BY <3>2, <3>5
    <3>7. Kept
      BY <1>7, <3>3, <3>4 DEF NoOlder
    <3>8. Newer
      BY <1>7, <3>3, <3>4, <3>5 DEF Behind
    <3>9. QED
      BY <3>6, <3>7, <3>8
  <2>3. CASE TestModel(r)
    <3>1. PICK n \in DbtMarts :
             dbtRun'[r] = [todo |-> dbtRun[r].todo, untested |-> dbtRun[r].untested \ {n},
                           reads |-> dbtRun[r].reads]
      BY <2>3, DbtTests
    <3>2. dbt' = dbt /\ dbtRun'[r].reads = dbtRun[r].reads /\ dbtRun'[r].todo = dbtRun[r].todo
      BY <2>3, <3>1, DbtTests
    <3>3. \A m \in DbtMarts : Queried(r, m)' = Queried(r, m)
      BY <3>2 DEF Queried
    <3>4. QED
      BY <1>7, <3>2, <3>3
  <2>4. QED
    BY <2>1, <2>2, <2>3 DEF DbtWork
<1> HIDE DEF Kept, Ready, Newer
<1>10. ReadsInv'
  <2>1. \A o \in Runs, m \in DbtMarts : \A u \in DOMAIN Queried(o, m)' : Queried(o, m)'[u] <= silver[u]
    BY <1>3, <1>9 DEF Kept, BuildInv, ReadsInv
  <2>2. \A m \in DbtMarts : dbt'[m] # NULL => \A t \in DOMAIN dbt'[m] : dbt'[m][t] <= silver[t]
    BY <1>7, <1>9 DEF Ready, BuildInv, ReadsInv
  <2>3. QED
    BY <1>1, <2>1, <2>2 DEF ReadsInv
<1>11. Ahead'
  <2>1. ASSUME NEW o \in Runs, ~overlapped[o], Running(o, "dbt_build"),
               NEW m \in DbtMarts, dbt'[m] # NULL
        PROVE  Behind(dbt'[m], Queried(o, m)')
    <3>1. CASE o = r
      BY <1>9, <2>1, <3>1 DEF Newer
    <3>2. CASE o # r
      BY <1>1, <2>1, <3>2 DEF BuildInv, OverlapSeen
    <3>3. QED
      BY <3>1, <3>2
  <2>2. QED
    BY <1>1, <1>4, <2>1 DEF Ahead, Behind
<1>12. FreshInv'
  <2>1. ASSUME NEW o \in Runs, Running(o, "dbt_build"), NEW m \in DbtMarts
        PROVE  NoOlder(Queried(o, m)', from[o])
    BY <1>3, <1>9, <2>1 DEF Kept, BuildInv, FreshInv
  <2>2. ASSUME NEW o \in Runs, ~overlapped[o], Running(o, "dbt_build"),
               NEW m \in DbtMarts, m \notin dbtRun'[o].todo
        PROVE  dbt'[m] # NULL /\ NoOlder(dbt'[m], from[o])
    <3>1. CASE o = r
      <4>1. CASE dbt'[m] = dbt[m] /\ m \notin dbtRun[r].todo
        BY <2>2, <3>1, <4>1 DEF BuildInv, FreshInv, MartFresh
      <4>2. CASE dbt'[m] = Queried(r, m)
        BY <1>7, <3>1, <4>2, QueriedTyped
      <4>3. QED
        BY <1>9, <2>2, <3>1, <4>1, <4>2 DEF Ready
    <3>2. CASE o # r
      BY <1>1, <2>2, <3>2 DEF BuildInv, OverlapSeen
    <3>3. QED
      BY <3>1, <3>2
  <2>3. ASSUME NEW q \in Runs, ~overlapped[q], DbtBuilt(q), NEW m \in DbtMarts
        PROVE  dbt'[m] # NULL /\ NoOlder(dbt'[m], from[q])
    <3>1. CASE dbt'[m] = dbt[m]
      BY <2>3, <3>1 DEF BuildInv, FreshInv, MartFresh
    <3>2. CASE dbt'[m] = Queried(r, m)
      <4>1. \A t \in Tables : from[q][t] <= from[r][t]
        BY <1>1, <2>3 DEF BuildInv, FreshInv
      <4>2. IsReads(Queried(r, m)) /\ Queried(r, m) # NULL
        BY QueriedTyped
      <4>3. ASSUME NEW t \in DOMAIN Queried(r, m)
            PROVE  Queried(r, m)[t] >= from[q][t]
        <5>1. t \in Tables /\ Queried(r, m)[t] \in Nat
          BY <4>2 DEF IsReads
        <5>2. Queried(r, m)[t] >= from[r][t]
          BY <1>7 DEF NoOlder
        <5>3. QED
          BY <1>6, <4>1, <5>1, <5>2
      <4>4. QED
        BY <3>2, <4>2, <4>3 DEF NoOlder
    <3>3. QED
      BY <1>9, <3>1, <3>2 DEF Ready
  <2>4. ASSUME NEW q \in Runs, ~overlapped[q], DbtBuilt(q),
               NEW o \in Runs, Running(o, "dbt_build"), NEW t \in Tables
        PROVE  from[q][t] <= from[o][t]
    BY <2>4 DEF BuildInv, FreshInv
  <2>5. QED
    BY <1>1, <1>4, <2>1, <2>2, <2>3, <2>4 DEF FreshInv, MartFresh, NoOlder
<1>13. QED
  BY <1>2, <1>10, <1>11, <1>12 DEF BuildInv

(* At the start no task runs and no mart is there.                           *)
LEMMA BuildInit ==
    ASSUME Init
    PROVE  BuildInv
<1>1. /\ \A r \in Runs : dag[r].state = "none" /\ dbtRun[r] = DbtStart
      /\ \A m \in DbtMarts : dbt[m] = NULL
  BY MedallionAssumption DEF Init, DbtInit
<1>2. OverlapSeen /\ Ahead /\ FreshInv
  BY <1>1 DEF OverlapSeen, Ahead, FreshInv, Running, DbtBuilt, In
<1>3. ReadsInv
  BY <1>1, NothingIsQueried DEF ReadsInv
<1>4. QED
  BY <1>2, <1>3 DEF BuildInv

(* Every step keeps it.                                                      *)
LEMMA BuildStep ==
    ASSUME TypeInv, TypeInv', BuildInv, [Next]_vars
    PROVE  BuildInv'
<1>1. CASE \E r \in Runs : Trigger(r) \/ TaskSucceeds(r) \/ TaskFails(r)
  BY <1>1, BuildSettles
<1>2. CASE \E r \in Runs : StartTask(r)
  BY <1>2, BuildStarts
<1>3. CASE \E r \in Runs : DbtWork(r)
  BY <1>3, BuildDbt
<1>4. CASE \/ (\E b \in Builders : GoldWork(b)) \/ (\E r \in Runs : GateWork(r))
           \/ (\E t \in Tables : Merge(t)) \/ UNCHANGED vars
  <2>1. /\ UNCHANGED <<dbt, dbtRun, dag, from, overlapped>>
        /\ silver' = silver \/ \A u \in Tables : silver[u] <= silver'[u]
    BY <1>4, GoldWorkTyped, GateWorkTyped, MergeStep DEF vars, silverVars, dbtVars, dagVars
  <2>2. \A u \in Tables : silver[u] \in Nat /\ silver[u] <= silver[u]
    BY DEF TypeInv, SilverTyped
  <2>3. \A u \in Tables : silver[u] <= silver'[u]
    BY <2>1, <2>2
  <2>4. QED
    BY <2>1, <2>3, BuildFrame
<1>5. QED
  BY <1>1, <1>2, <1>3, <1>4, StepCases

LEMMA BuildInvariant == Spec => []BuildInv
<1>1. TypeInv /\ TypeInv' /\ BuildInv /\ [Next]_vars => BuildInv'
  BY BuildStep
<1>2. QED
  BY <1>1, BuildInit, TypesInvariant, PTL DEF Spec

(* cdc_medallion_dag.py, dbt_build: when the task has succeeded and no other *)
(* run was in it, every dbt mart is there and none is older than Silver was  *)
(* when the attempt began, whatever the attempts before it left.             *)
THEOREM GreenMeansFresh == Spec => []GreenBuildLeavesFreshMarts
<1>1. BuildInv => GreenBuildLeavesFreshMarts
  BY DEF BuildInv, FreshInv, MartFresh, DbtBuilt, GreenBuildLeavesFreshMarts
<1>2. QED
  BY <1>1, BuildInvariant, PTL

(* GoldBuilder._replace and dbt's replacement of a model: a process that has *)
(* met no other in its build never replaces a mart by one of older contents, *)
(* whatever runs, attempts and orphans came before it.                       *)
THEOREM NoStaleReplacement == Spec => MartsGoBackOnlyWhenBuildsOverlap
<1> DEFINE GoldForward ==
               \A b \in Builders, m \in GoldMarts :
                  /\ ReplaceMart(b) /\ Mart(b) = m
                  /\ gold[m] # NULL /\ ~NoOlder(gold'[m], gold[m])
                  => builder[b].crossed
           DbtForward ==
               \A r \in Runs, m \in DbtMarts :
                  /\ Running(r, "dbt_build") /\ m \in dbtRun[r].todo \ dbtRun'[r].todo
                  /\ dbt[m] # NULL /\ dbt'[m] # NULL /\ ~NoOlder(dbt'[m], dbt[m])
                  => overlapped[r]
           Forward ==
               /\ \A b \in Builders, m \in GoldMarts :
                     /\ ReplaceMart(b) /\ Mart(b) = m
                     /\ gold[m] # NULL /\ ~NoOlder(gold'[m], gold[m])
                     => builder[b].crossed
               /\ \A r \in Runs, m \in DbtMarts :
                     /\ Running(r, "dbt_build") /\ m \in dbtRun[r].todo \ dbtRun'[r].todo
                     /\ dbt[m] # NULL /\ dbt'[m] # NULL /\ ~NoOlder(dbt'[m], dbt[m])
                     => overlapped[r]
<1>1. TypeInv /\ GoldInv => GoldForward
  <2> SUFFICES ASSUME TypeInv, GoldInv, NEW b \in Builders,
                      ReplaceMart(b), gold[Mart(b)] # NULL, ~builder[b].crossed
               PROVE  NoOlder(gold'[Mart(b)], gold[Mart(b)])
    OBVIOUS
  <2>1. /\ Mart(b) \in GoldMarts /\ ~GoldDone(b)
        /\ DOMAIN builder[b].reads = MartSources(Mart(b))
        /\ gold'[Mart(b)] = builder[b].reads
    BY GoldReplaces
  <2>2. Behind(gold[Mart(b)], builder[b].reads)
    BY <2>1 DEF GoldInv, GoldAhead
  <2>3. gold[Mart(b)] \in [MartSources(Mart(b)) -> Nat \ {0}]
    BY <2>1 DEF TypeInv, GoldTyped, MartsTyped
  <2>4. IsReads(builder[b].reads)
    BY DEF TypeInv, GoldTyped, BuildersTyped, IsBuilder
  <2>5. ASSUME NEW t \in DOMAIN builder[b].reads
        PROVE  builder[b].reads[t] >= gold[Mart(b)][t]
    <3>1. builder[b].reads[t] \in Nat /\ gold[Mart(b)][t] \in Nat
      BY <2>1, <2>3, <2>4 DEF IsReads
    <3>2. gold[Mart(b)][t] <= builder[b].reads[t]
      BY <2>1, <2>2, <2>3 DEF Behind
    <3>3. QED
      BY <3>1, <3>2
  <2>6. QED
    BY <2>1, <2>5 DEF NoOlder
<1>2. TypeInv /\ TypeInv' /\ BuildInv /\ [Next]_vars => DbtForward
  <2> SUFFICES ASSUME TypeInv, TypeInv', BuildInv, [Next]_vars, NEW r \in Runs, NEW m \in DbtMarts,
                      Running(r, "dbt_build"), m \in dbtRun[r].todo, m \notin dbtRun'[r].todo,
                      dbt[m] # NULL, ~overlapped[r]
               PROVE  NoOlder(dbt'[m], dbt[m])
    OBVIOUS
  <2>1. dbtRun'[r] # dbtRun[r] /\ dbtRun'[r] # DbtStart
    BY DEF DbtStart
  <2>2. ReplaceModel(r)
    <3>1. CASE \E o \in Runs : Trigger(o) \/ StartTask(o)
      BY <2>1, <3>1, TriggerStep, StartStep
    <3>2. CASE \E o \in Runs : TaskSucceeds(o) \/ TaskFails(o)
      <4>1. PICK o \in Runs : TaskSucceeds(o) \/ TaskFails(o)
        BY <3>2
      <4>2. ProcessExits(o) /\ dag[o].state = "running"
        BY <4>1, SucceedStep, FailStep
      <4>3. dbtRun'[r] = dbtRun[r] \/ dbtRun'[r] = DbtStart
        BY <4>2, ExitStep DEF TypeInv, DbtTyped
      <4>4. QED
        BY <2>1, <4>3
    <3>3. CASE \/ (\E b \in Builders : GoldWork(b)) \/ (\E o \in Runs : GateWork(o))
               \/ (\E t \in Tables : Merge(t)) \/ UNCHANGED vars
      BY <2>1, <3>3, GoldWorkTyped, GateWorkTyped, MergeStep DEF vars, dbtVars
    <3>4. CASE \E o \in Runs : DbtWork(o)
      <4>1. PICK o \in Runs : DbtWork(o)
        BY <3>4
      <4>2. o = r
        BY <2>1, <4>1, DbtReads, DbtReplaces, DbtTests DEF DbtWork
      <4>3. CASE ReadSource(r)
        <5>1. \E reads : dbtRun'[r] = [todo |-> dbtRun[r].todo, untested |-> dbtRun[r].untested,
                                       reads |-> reads]
          BY <4>3, DbtReads
        <5>2. QED
          BY <5>1
      <4>4. CASE TestModel(r)
        <5>1. \E untested : dbtRun'[r] = [todo |-> dbtRun[r].todo, untested |-> untested,
                                          reads |-> dbtRun[r].reads]
          BY <4>4, DbtTests
        <5>2. QED
          BY <5>1
      <4>5. QED
        BY <4>1, <4>2, <4>3, <4>4 DEF DbtWork
    <3>5. QED
      BY <3>1, <3>2, <3>3, <3>4, StepCases
  <2>3. PICK n \in DbtMarts : Rebuilds(r, n)
    BY <2>2, DbtReplaces
  <2>4. dbtRun'[r].todo = dbtRun[r].todo \ {n}
    BY <2>3 DEF Rebuilds
  <2>5. m = n
    BY <2>4
  <2>6. dbt'[m] = Queried(r, m) /\ DOMAIN Queried(r, m) = DbtSources(m)
    BY <2>3, <2>5 DEF Rebuilds, Queried
  <2>7. Behind(dbt[m], Queried(r, m))
    BY DEF BuildInv, Ahead
  <2>8. dbt[m] \in [DbtSources(m) -> Nat \ {0}] /\ IsReads(Queried(r, m))
    BY QueriedTyped DEF TypeInv, DbtTyped
  <2>9. ASSUME NEW t \in DOMAIN Queried(r, m)
        PROVE  Queried(r, m)[t] >= dbt[m][t]
    <3>1. Queried(r, m)[t] \in Nat /\ dbt[m][t] \in Nat
      BY <2>6, <2>8 DEF IsReads
    <3>2. dbt[m][t] <= Queried(r, m)[t]
      BY <2>6, <2>7, <2>8 DEF Behind
    <3>3. QED
      BY <3>1, <3>2
  <2>10. QED
    BY <2>6, <2>9 DEF NoOlder
<1>3. TypeInv /\ TypeInv' /\ GoldInv /\ BuildInv /\ [Next]_vars => [Forward]_vars
  BY <1>1, <1>2
<1>4. QED
  BY <1>3, TypesInvariant, GoldInvariant, BuildInvariant, PTL DEF Spec, MartsGoBackOnlyWhenBuildsOverlap

-----------------------------------------------------------------------------
(* The marts' tests.  A mart that fails its test is in the hands of a run    *)
(* that has not built or tested it yet, or whose attempt has failed.         *)
Answerable(r, m) ==
    \/ In(r, "dbt_build", {"up_for_retry", "failed"})
    \/ Running(r, "dbt_build") /\ (m \in dbtRun[r].todo \/ m \in dbtRun[r].untested)

BadInv ==
    \A m \in DbtMarts :
        dbt[m] # NULL /\ ~TestPasses(m, dbt[m]) => \E r \in Runs : Answerable(r, m)

(* A step that replaces no mart keeps the invariant if it leaves every mart  *)
(* somebody answers for with somebody who does.                              *)
LEMMA BadKept ==
    ASSUME BadInv, history' = history, dbt' = dbt,
           \A m \in DbtMarts : \A r \in Runs :
              ~TestPasses(m, dbt[m]) /\ Answerable(r, m) => Answerable(r, m)'
    PROVE  BadInv'
<1> SUFFICES ASSUME NEW m \in DbtMarts, dbt[m] # NULL, ~TestPasses(m, dbt[m])'
             PROVE  \E r \in Runs : Answerable(r, m)'
  BY DEF BadInv
<1>1. ~TestPasses(m, dbt[m])
  BY DEF TestPasses, Contents
<1>2. PICK r \in Runs : Answerable(r, m)
  BY <1>1 DEF BadInv
<1>3. QED
  BY <1>1, <1>2

LEMMA BadStep ==
    ASSUME TypeInv, TypeInv', BadInv, [Next]_vars
    PROVE  BadInv'
<1>1. CASE \E o \in Runs : Trigger(o) \/ StartTask(o)
  <2>1. PICK o \in Runs : Trigger(o) \/ StartTask(o)
    BY <1>1
  <2>2. /\ UNCHANGED <<history, dbt, dbtRun>>
        /\ dag[o].state \in {"none", "queued", "up_for_retry"}
        /\ \A r \in Runs \ {o} : dag'[r] = dag[r]
        /\ dag[o].state = "up_for_retry" => dag'[o].state = "running" /\ dag'[o].task = dag[o].task
    BY <2>1, TriggerStep, StartStep DEF Settles
  <2>3. ASSUME NEW m \in DbtMarts, NEW r \in Runs, Answerable(r, m)
        PROVE  Answerable(r, m)'
    <3>1. CASE r # o
      BY <2>2, <2>3, <3>1 DEF Answerable, Running, In, Task
    <3>2. CASE r = o
      <4>1. In(o, "dbt_build", {"up_for_retry", "failed"}) /\ dag[o].state = "up_for_retry"
        BY <2>2, <2>3, <3>2 DEF Answerable, Running, In
      <4>2. Running(o, "dbt_build")'
        BY <2>2, <4>1 DEF Running, In, Task
      <4>3. ~Running(o, "dbt_build")
        BY <4>1 DEF Running, In
      <4>4. dbtRun[o].todo = DbtMarts
        BY <4>3 DEF TypeInv, NoProcess, DbtStart
      <4>5. QED
        BY <2>2, <3>2, <4>2, <4>4 DEF Answerable
    <3>3. QED
      BY <3>1, <3>2
  <2>4. QED
    BY <2>2, <2>3, BadKept
<1>2. CASE \E o \in Runs : TaskSucceeds(o) \/ TaskFails(o)
  <2>1. PICK o \in Runs : TaskSucceeds(o) \/ TaskFails(o)
    BY <1>2
  <2>2. Settles(o) /\ ProcessExits(o) /\ dag[o].state = "running"
    BY <2>1, SucceedStep, FailStep
  <2>3. \A r \in Runs \ {o} : dag'[r] = dag[r] /\ dbtRun'[r] = dbtRun[r]
    BY <2>2, ExitStep DEF Settles, TypeInv, DbtTyped
  <2>4. ASSUME NEW m \in DbtMarts, NEW r \in Runs, Answerable(r, m)
        PROVE  Answerable(r, m)'
    <3>1. CASE r # o
      BY <2>3, <2>4, <3>1 DEF Answerable, Running, In, Task
    <3>2. CASE r = o
      <4>1. Running(o, "dbt_build") /\ (m \in dbtRun[o].todo \/ m \in dbtRun[o].untested)
        BY <2>2, <2>4, <3>2 DEF Answerable, Running, In
      <4>2. ~TaskSucceeds(o)
        BY <4>1, SucceedStep DEF Running, In, DbtDone
      <4>3. dag'[o].state \in {"up_for_retry", "failed"} /\ dag'[o].task = dag[o].task
        BY <2>1, <4>2, FailStep
      <4>4. In(o, "dbt_build", {"up_for_retry", "failed"})'
        BY <4>1, <4>3 DEF Running, In, Task
      <4>5. QED
        BY <3>2, <4>4 DEF Answerable
    <3>3. QED
      BY <3>1, <3>2
  <2>5. history' = history /\ dbt' = dbt
    BY <2>2 DEF Settles
  <2>6. QED
    BY <2>4, <2>5, BadKept
<1>3. CASE \E o \in Runs : DbtWork(o)
  <2>1. PICK o \in Runs : DbtWork(o)
    BY <1>3
  <2>2. UNCHANGED <<history, dag>> /\ Running(o, "dbt_build")
    BY <2>1, DbtWorkTyped DEF DbtWork
  <2>3. \A r \in Runs \ {o} : dbtRun'[r] = dbtRun[r]
    BY <2>1, DbtReads, DbtReplaces, DbtTests DEF DbtWork
  <2>4. \A m \in DbtMarts : \A r \in Runs \ {o} : Answerable(r, m) => Answerable(r, m)'
    BY <2>2, <2>3 DEF Answerable, Running, In, Task
  <2>5. /\ Running(o, "dbt_build")'
        /\ In(o, "dbt_build", {"up_for_retry", "failed"}) <=> In(o, "dbt_build", {"up_for_retry", "failed"})'
    BY <2>2 DEF Running, In, Task
  <2>6. CASE ReadSource(o)
    <3>1. \E reads : dbtRun'[o] = [todo |-> dbtRun[o].todo, untested |-> dbtRun[o].untested,
                                   reads |-> reads]
      BY <2>6, DbtReads
    <3>2. dbtRun'[o].todo = dbtRun[o].todo /\ dbtRun'[o].untested = dbtRun[o].untested
      BY <3>1
    <3>3. \A m \in DbtMarts : Answerable(o, m) => Answerable(o, m)'
      BY <2>5, <3>2 DEF Answerable
    <3>4. dbt' = dbt
      BY <2>6, DbtReads
    <3>5. QED
      BY <2>2, <2>4, <3>3, <3>4, BadKept
  <2>7. CASE ReplaceModel(o)
    <3>1. PICK n \in DbtMarts : Rebuilds(o, n)
      BY <2>7, DbtReplaces
    <3>2. /\ dbtRun'[o].todo = dbtRun[o].todo \ {n}
          /\ dbtRun'[o].untested = dbtRun[o].untested \cup {n}
          /\ \A m \in DbtMarts \ {n} : dbt'[m] = dbt[m]
      BY <3>1 DEF Rebuilds
    <3>3. SUFFICES ASSUME NEW m \in DbtMarts, dbt'[m] # NULL, ~TestPasses(m, dbt[m])'
                   PROVE  \E r \in Runs : Answerable(r, m)'
      BY DEF BadInv
    <3>4. CASE m = n
      <4>1. Answerable(o, n)'
        BY <2>5, <3>2 DEF Answerable
      <4>2. QED
        BY <3>4, <4>1
    <3>5. CASE m # n
      <4>1. dbt'[m] = dbt[m]
        BY <3>2, <3>5
      <4>2. ~TestPasses(m, dbt[m])
        BY <2>2, <3>3, <4>1 DEF TestPasses, Contents
      <4>3. PICK r \in Runs : Answerable(r, m)
        BY <3>3, <4>1, <4>2 DEF BadInv
      <4>4. CASE r # o
        BY <2>4, <4>3, <4>4
      <4>5. CASE r = o
        <5>1. Answerable(o, m)'
          BY <2>5, <3>2, <3>5, <4>3, <4>5 DEF Answerable
        <5>2. QED
          BY <5>1
      <4>6. QED
        BY <4>4, <4>5
    <3>6. QED
      BY <3>4, <3>5
  <2>8. CASE TestModel(o)
    <3>1. PICK n \in DbtMarts :
             /\ TestPasses(n, dbt[n])
             /\ dbtRun'[o] = [todo |-> dbtRun[o].todo, untested |-> dbtRun[o].untested \ {n},
                              reads |-> dbtRun[o].reads]
      BY <2>8, DbtTests
    <3>2. dbtRun'[o].todo = dbtRun[o].todo /\ dbtRun'[o].untested = dbtRun[o].untested \ {n}
      BY <3>1
    <3>3. \A m \in DbtMarts : m # n /\ Answerable(o, m) => Answerable(o, m)'
      BY <2>5, <3>2 DEF Answerable
    <3>4. dbt' = dbt
      BY <2>8, DbtTests
    <3>5. \A m \in DbtMarts : \A r \in Runs :
             ~TestPasses(m, dbt[m]) /\ Answerable(r, m) => Answerable(r, m)'
      BY <2>4, <3>1, <3>3
    <3>6. QED
      BY <2>2, <3>4, <3>5, BadKept
  <2>9. QED
    BY <2>1, <2>6, <2>7, <2>8 DEF DbtWork
<1>4. CASE \/ (\E b \in Builders : GoldWork(b)) \/ (\E o \in Runs : GateWork(o))
           \/ (\E t \in Tables : Merge(t)) \/ UNCHANGED vars
  <2>1. UNCHANGED <<history, dbt, dbtRun, dag>>
    BY <1>4, GoldWorkTyped, GateWorkTyped, MergeStep DEF vars, silverVars, dbtVars, dagVars
  <2>2. \A m \in DbtMarts : \A r \in Runs : Answerable(r, m) => Answerable(r, m)'
    BY <2>1 DEF Answerable, Running, In, Task
  <2>3. QED
    BY <2>1, <2>2, BadKept
<1>5. QED
  BY <1>1, <1>2, <1>3, <1>4, StepCases

(* dbt build --fail-fast: a mart that fails its own test is in place only    *)
(* while the dbt_build of some run has not succeeded, for any number of      *)
(* overlapping runs, retries and timeouts.                                   *)
THEOREM BadMartsAreReported == Spec => []BadMartIsReported
<1>1. Init => BadInv
  BY DEF Init, DbtInit, BadInv
<1>2. TypeInv /\ TypeInv' /\ BadInv /\ [Next]_vars => BadInv'
  BY BadStep
<1>3. BadInv => BadMartIsReported
  BY DEF BadInv, Answerable, BadMartIsReported, Running, In
<1>4. QED
  BY <1>1, <1>2, <1>3, TypesInvariant, PTL DEF Spec

-----------------------------------------------------------------------------
(* The gate.  What it has evaluated of its suites so far either has passed   *)
(* on contents Silver had during the attempt, or its suite is among the      *)
(* failures; and a failure is one of contents Silver had.                    *)
Checked(r, s, i) ==
    \/ s < gate[r].suite
    \/ s = gate[r].suite /\ i < gate[r].next

AllPassed(r) ==
    \A s \in DOMAIN Suites : \A i \in DOMAIN Suites[s] : PassedDuring(r, Suites[s][i])

Verdict(r) ==
    /\ dag[r].state = "success" => AllPassed(r)
    /\ \A s \in gate[r].failures : \E i \in DOMAIN Suites[s] : FailedDuring(r, Suites[s][i])
    /\ gate[r].suite <= Len(Suites) => gate[r].next <= Len(Suites[gate[r].suite])
    /\ \A s \in DOMAIN Suites : \A i \in DOMAIN Suites[s] :
          Checked(r, s, i) => s \in gate[r].failures \/ PassedDuring(r, Suites[s][i])

GateInv == \A r \in Runs : Verdict(r)

(* What Silver held during an attempt it still held during it later: Silver  *)
(* only goes forward.                                                        *)
SilverGrows ==
    /\ history' = history
    /\ \A t \in Tables : silver'[t] \in Nat /\ silver[t] <= silver'[t]

LEMMA WindowsWiden ==
    ASSUME TypeInv, SilverGrows, NEW r \in Runs, from'[r] = from[r], NEW e, e.table \in Tables
    PROVE  /\ PassedDuring(r, e) => PassedDuring(r, e)'
           /\ FailedDuring(r, e) => FailedDuring(r, e)'
<1>1. from[r][e.table] \in Nat /\ silver[e.table] \in Nat
  BY DEF TypeInv, DagTyped, SilverTyped
<1>2. \A s : s \in from[r][e.table]..silver[e.table] => s \in from'[r][e.table]..silver'[e.table]
  BY <1>1 DEF SilverGrows
<1>3. \A s : Contents(e.table, s)' = Contents(e.table, s)
  BY DEF Contents, SilverGrows
<1>4. \A rows : Check(e, rows)' = Check(e, rows)
  BY DEF Check, Violations
<1>5. ASSUME PassedDuring(r, e) PROVE PassedDuring(r, e)'
  <2>1. PICK s \in from[r][e.table]..silver[e.table] : s # 0 /\ Check(e, Contents(e.table, s))
    BY <1>5 DEF PassedDuring
  <2>2. Check(e, Contents(e.table, s))'
    BY <2>1 DEF Check, Violations, Contents, SilverGrows
  <2>3. QED
    BY <1>2, <2>1, <2>2 DEF PassedDuring
<1>6. ASSUME FailedDuring(r, e) PROVE FailedDuring(r, e)'
  <2>1. PICK s \in from[r][e.table]..silver[e.table] : s # 0 /\ ~Check(e, Contents(e.table, s))
    BY <1>6 DEF FailedDuring
  <2>2. ~Check(e, Contents(e.table, s))'
    BY <2>1 DEF Check, Violations, Contents, SilverGrows
  <2>3. QED
    BY <1>2, <2>1, <2>2 DEF FailedDuring
<1>7. QED
  BY <1>5, <1>6

(* A step that leaves a run's gate and attempt alone keeps its verdict.      *)
LEMMA VerdictKept ==
    ASSUME TypeInv, SilverGrows, NEW r \in Runs, Verdict(r),
           from'[r] = from[r], gate'[r] = gate[r],
           dag'[r].state = "success" => dag[r].state = "success"
    PROVE  Verdict(r)'
<1>1. \A s \in DOMAIN Suites : \A i \in DOMAIN Suites[s] :
         /\ PassedDuring(r, Suites[s][i]) => PassedDuring(r, Suites[s][i])'
         /\ FailedDuring(r, Suites[s][i]) => FailedDuring(r, Suites[s][i])'
  BY WindowsWiden, SuitesType
<1>2. gate[r].failures \subseteq DOMAIN Suites
  BY SuitesType, MedallionAssumption DEF TypeInv, GateTypeOK
<1>3. dag'[r].state = "success" => AllPassed(r)'
  BY <1>1 DEF Verdict, AllPassed
<1>4. \A s \in gate'[r].failures : \E i \in DOMAIN Suites[s] : FailedDuring(r, Suites[s][i])'
  BY <1>1, <1>2 DEF Verdict
<1>5. \A s \in DOMAIN Suites : \A i \in DOMAIN Suites[s] :
          Checked(r, s, i)' => s \in gate'[r].failures \/ PassedDuring(r, Suites[s][i])'
  BY <1>1 DEF Verdict, Checked
<1>6. QED
  BY <1>3, <1>4, <1>5 DEF Verdict

(* Before its first evaluation the gate has checked nothing.                 *)
LEMMA NothingChecked ==
    /\ 1 <= Len(Suites) => 1 <= Len(Suites[1])
    /\ \A s \in DOMAIN Suites : \A i \in DOMAIN Suites[s] : ~(s < 1) /\ ~(i < 1)
<1>1. 1 <= Len(Suites) => 1 <= Len(Suites[1])
  BY SuitesType
<1>2. ASSUME NEW s \in DOMAIN Suites, NEW i \in DOMAIN Suites[s]
      PROVE  ~(s < 1) /\ ~(i < 1)
  <2>1. s \in 1..Len(Suites) /\ i \in 1..Len(Suites[s])
    BY SuitesType
  <2>2. QED
    BY <2>1
<1>3. QED
  BY <1>1, <1>2

(* A run whose gate has not begun has a verdict only if it has succeeded.    *)
LEMMA VerdictStart ==
    ASSUME NEW r \in Runs, gate[r] = GateStart, dag[r].state = "success" => AllPassed(r)
    PROVE  Verdict(r)
<1>1. gate[r].failures = {} /\ gate[r].suite = 1 /\ gate[r].next = 1
  BY DEF GateStart
<1>2. QED
  BY <1>1, NothingChecked DEF Verdict, Checked

LEMMA VerdictStartsAgain ==
    ASSUME NEW r \in Runs, gate'[r] = GateStart, dag'[r].state = "success" => AllPassed(r)'
    PROVE  Verdict(r)'
<1>1. gate'[r].failures = {} /\ gate'[r].suite = 1 /\ gate'[r].next = 1
  BY DEF GateStart
<1>2. QED
  BY <1>1, NothingChecked DEF Verdict, Checked

(* A gate that finds its files and passes has checked every expectation and  *)
(* found no failure.                                                         *)
LEMMA PassedAll ==
    ASSUME SuiteDirFound, TypeInv, NEW r \in Runs, Verdict(r), GatePasses(r)
    PROVE  AllPassed(r)
<1>1. gate[r].failures = {} /\ gate[r].suite > Len(Suites)
  BY LoadedSuites DEF GatePasses, AllChecked
<1>2. gate[r].suite \in Int
  BY MedallionAssumption, SuitesType DEF TypeInv, GateTypeOK
<1>3. \A s \in DOMAIN Suites : \A i \in DOMAIN Suites[s] : Checked(r, s, i)
  <2> SUFFICES ASSUME NEW s \in DOMAIN Suites, NEW i \in DOMAIN Suites[s] PROVE Checked(r, s, i)
    OBVIOUS
  <2>1. s \in 1..Len(Suites) /\ Len(Suites) \in Nat
    BY SuitesType
  <2>2. s <= Len(Suites) /\ s \in Int
    BY <2>1
  <2>3. QED
    BY <1>1, <1>2, <2>1, <2>2 DEF Checked
<1>4. QED
  BY <1>1, <1>3 DEF Verdict, AllPassed

(* One evaluation extends the verdict by one expectation.                    *)
LEMMA VerdictEvaluates ==
    ASSUME TypeInv, TypeInv', NEW r \in Runs, Verdict(r), GateWork(r)
    PROVE  Verdict(r)'
<1>0. PICK s0, i0 : gate[r].suite = s0 /\ gate[r].next = i0
  OBVIOUS
<1> DEFINE e0 == Suites[s0][i0]
           v0 == silver[e0.table]
<1>1. Evaluate(r) /\ UNCHANGED <<dag, from, silver, history>> /\ dag[r].state = "running"
  BY GateWorkTyped DEF GateWork, Running, In
<1>2. /\ s0 \in 1..Len(Suites)
      /\ v0 # 0
      /\ gate'[r].failures = IF Check(e0, Contents(e0.table, v0))
                             THEN gate[r].failures ELSE gate[r].failures \cup {s0}
      /\ IF i0 = Len(Suites[s0]) THEN gate'[r].suite = s0 + 1 /\ gate'[r].next = 1
         ELSE gate'[r].suite = s0 /\ gate'[r].next = i0 + 1
  BY <1>0, <1>1, GateChecks
<1>3. i0 \in Nat \ {0} /\ i0 <= Len(Suites[s0])
  <2>1. i0 \in Nat \ {0}
    BY <1>0, MedallionAssumption DEF TypeInv, GateTypeOK
  <2>2. s0 <= Len(Suites)
    BY <1>2, SuitesType
  <2>3. QED
    BY <1>0, <2>1, <2>2 DEF Verdict
<1>4. /\ s0 \in DOMAIN Suites /\ Len(Suites[s0]) \in Nat \ {0}
      /\ i0 \in DOMAIN Suites[s0] /\ e0.table \in Tables
  BY <1>2, <1>3, SuitesType
<1>5. v0 \in from[r][e0.table]..silver[e0.table]
  BY <1>4 DEF TypeInv, DagTyped, SilverTyped
<1>6. IF Check(e0, Contents(e0.table, v0)) THEN PassedDuring(r, e0) ELSE FailedDuring(r, e0)
  BY <1>2, <1>5 DEF PassedDuring, FailedDuring
<1>7. SilverGrows
  BY <1>1 DEF SilverGrows, TypeInv, SilverTyped
<1>8. \A s \in DOMAIN Suites : \A i \in DOMAIN Suites[s] :
         /\ PassedDuring(r, Suites[s][i]) => PassedDuring(r, Suites[s][i])'
         /\ FailedDuring(r, Suites[s][i]) => FailedDuring(r, Suites[s][i])'
  BY <1>1, <1>7, WindowsWiden, SuitesType
<1>9. gate[r].failures \subseteq DOMAIN Suites
  BY SuitesType, MedallionAssumption DEF TypeInv, GateTypeOK
<1> HIDE DEF e0, v0
<1>10. \A s \in gate'[r].failures : \E i \in DOMAIN Suites[s] : FailedDuring(r, Suites[s][i])'
  <2>1. \A s \in gate[r].failures : \E i \in DOMAIN Suites[s] : FailedDuring(r, Suites[s][i])
    BY DEF Verdict
  <2>2. ASSUME NEW s \in gate[r].failures
        PROVE  \E i \in DOMAIN Suites[s] : FailedDuring(r, Suites[s][i])'
    <3>1. s \in DOMAIN Suites
      BY <1>9
    <3>2. PICK i \in DOMAIN Suites[s] : FailedDuring(r, Suites[s][i])
      BY <2>1
    <3>3. FailedDuring(r, Suites[s][i])'
      BY <1>8, <3>1, <3>2
    <3>4. QED
      BY <3>3
  <2>3. FailedDuring(r, e0) => FailedDuring(r, e0)'
    BY <1>4, <1>8 DEF e0
  <2>4. CASE Check(e0, Contents(e0.table, v0))
    BY <1>2, <2>2, <2>4
  <2>5. CASE ~Check(e0, Contents(e0.table, v0))
    <3>1. gate'[r].failures = gate[r].failures \cup {s0}
      BY <1>2, <2>5
    <3>2. FailedDuring(r, Suites[s0][i0])'
      BY <1>6, <2>3, <2>5 DEF e0
    <3>3. \E i \in DOMAIN Suites[s0] : FailedDuring(r, Suites[s0][i])'
      BY <1>4, <3>2
    <3>4. QED
      BY <2>2, <3>1, <3>3
  <2>6. QED
    BY <2>4, <2>5
<1>11. gate'[r].suite <= Len(Suites) => gate'[r].next <= Len(Suites[gate'[r].suite])
  <2>1. CASE i0 = Len(Suites[s0])
    <3>1. gate'[r].suite = s0 + 1 /\ gate'[r].next = 1
      BY <1>2, <2>1
    <3>2. s0 + 1 <= Len(Suites) => s0 + 1 \in DOMAIN Suites
      BY <1>2, SuitesType
    <3>3. QED
      BY <3>1, <3>2, SuitesType
  <2>2. CASE i0 # Len(Suites[s0])
    BY <1>2, <1>3, <1>4, <2>2
  <2>3. QED
    BY <2>1, <2>2
<1>12. ASSUME NEW s \in DOMAIN Suites, NEW i \in DOMAIN Suites[s], Checked(r, s, i)'
       PROVE  s \in gate'[r].failures \/ PassedDuring(r, Suites[s][i])'
  <2>1. s \in Nat /\ i \in 1..Len(Suites[s])
    BY SuitesType
  <2>2. CASE Checked(r, s, i)
    BY <1>2, <1>8, <2>2 DEF Verdict
  <2>3. CASE ~Checked(r, s, i)
    <3>1. s = s0 /\ i = i0
      <4>1. CASE i0 = Len(Suites[s0])
        <5>1. gate'[r].suite = s0 + 1 /\ gate'[r].next = 1
          BY <1>2, <4>1
        <5>2. s = s0
          BY <1>0, <1>2, <1>12, <2>1, <2>3, <5>1 DEF Checked
        <5>3. ~(i < i0)
          BY <1>0, <2>3, <5>2 DEF Checked
        <5>4. QED
          BY <1>3, <1>4, <2>1, <4>1, <5>2, <5>3
      <4>2. CASE i0 # Len(Suites[s0])
        <5>1. gate'[r].suite = s0 /\ gate'[r].next = i0 + 1
          BY <1>2, <4>2
        <5>2. s = s0 /\ i < i0 + 1
          BY <1>0, <1>12, <2>3, <5>1 DEF Checked
        <5>3. ~(i < i0)
          BY <1>0, <2>3, <5>2 DEF Checked
        <5>4. QED
          BY <1>3, <2>1, <5>2, <5>3
      <4>3. QED
        BY <4>1, <4>2
    <3>2. Suites[s][i] = e0
      BY <3>1 DEF e0
    <3>3. CASE Check(e0, Contents(e0.table, v0))
      BY <1>6, <1>8, <3>2, <3>3
    <3>4. CASE ~Check(e0, Contents(e0.table, v0))
      BY <1>2, <3>1, <3>4
    <3>5. QED
      BY <3>3, <3>4
  <2>4. QED
    BY <2>2, <2>3
<1>13. dag'[r].state # "success"
  BY <1>1
<1>14. QED
  BY <1>10, <1>11, <1>12, <1>13 DEF Verdict

LEMMA GateStep ==
    ASSUME SuiteDirFound, TypeInv, TypeInv', GateInv, [Next]_vars
    PROVE  GateInv'
<1> SUFFICES ASSUME NEW r \in Runs PROVE Verdict(r)'
  BY DEF GateInv
<1>1. Verdict(r) /\ silver \in [Tables -> Nat]
  BY DEF GateInv, TypeInv, SilverTyped
<1>2. DOMAIN gate = Runs
  BY MedallionAssumption DEF TypeInv, GateTypeOK
<1>3. UNCHANGED <<silver, history>> => SilverGrows
  BY <1>1 DEF SilverGrows
<1>4. CASE \E o \in Runs : Trigger(o)
  <2>1. PICK o \in Runs : Trigger(o)
    BY <1>4
  <2>2. Settles(o) /\ gate' = gate /\ dag'[o].state = "queued"
    BY <2>1, TriggerStep
  <2>3. /\ UNCHANGED <<silver, history, from, gate>>
        /\ dag'[r].state = "success" => dag[r].state = "success"
    BY <2>2 DEF Settles
  <2>4. QED
    BY <1>1, <1>3, <2>3, VerdictKept
<1>5. CASE \E o \in Runs : StartTask(o)
  <2>1. PICK o \in Runs : StartTask(o)
    BY <1>5
  <2>2. CASE r = o
    <3>1. dag[o].state # "running" /\ dag'[o].state = "running" /\ gate' = gate
      BY <2>1, StartStep
    <3>2. gate'[r] = GateStart
      BY <2>2, <3>1 DEF TypeInv, NoProcess, Running, In
    <3>3. gate'[r] = GateStart /\ dag'[r].state # "success"
      BY <2>2, <3>1, <3>2
    <3>4. QED
      BY <3>3, VerdictStartsAgain
  <2>3. CASE r # o
    <3>1. /\ UNCHANGED <<silver, history, gate>>
          /\ dag'[r] = dag[r] /\ from'[r] = from[r]
      BY <2>1, <2>3, StartStep
    <3>2. QED
      BY <1>1, <1>3, <3>1, VerdictKept
  <2>4. QED
    BY <2>2, <2>3
<1>6. CASE \E o \in Runs : TaskSucceeds(o) \/ TaskFails(o)
  <2>1. PICK o \in Runs : TaskSucceeds(o) \/ TaskFails(o)
    BY <1>6
  <2>2. Settles(o) /\ ProcessExits(o) /\ dag[o].state = "running"
    BY <2>1, SucceedStep, FailStep
  <2>3. /\ UNCHANGED <<silver, history, from>>
        /\ \A p \in Runs \ {o} : dag'[p] = dag[p]
    BY <2>2 DEF Settles
  <2>4. SilverGrows
    BY <1>3, <2>3
  <2>5. gate' = [gate EXCEPT ![o] = GateStart] \/ gate' = gate
    BY <2>2, ExitStep
  <2>6. CASE r # o
    <3>1. gate'[r] = gate[r]
      BY <1>2, <2>5, <2>6
    <3>2. dag'[r] = dag[r]
      BY <2>3, <2>6
    <3>3. QED
      BY <1>1, <2>3, <2>4, <3>1, <3>2, VerdictKept
  <2>7. CASE r = o
    <3>1. gate'[r] = GateStart
      BY <2>2, <2>7, ExitStep
    <3>2. ASSUME dag'[r].state = "success" PROVE AllPassed(r)'
      <4>1. TaskSucceeds(o) /\ dag[o].task = 4
        BY <2>1, <2>7, <3>2, SucceedStep, FailStep
      <4>2. DagTyped
        BY DEF TypeInv
      <4>3. Task(o) = "run_quality_gates"
        BY <4>1, <4>2, TaskNames
      <4>4. GatePasses(r)
        BY <2>7, <4>1, <4>3, SucceedStep DEF Running, In
      <4>5. AllPassed(r)
        BY <1>1, <4>4, PassedAll
      <4>6. \A s \in DOMAIN Suites : \A i \in DOMAIN Suites[s] :
               PassedDuring(r, Suites[s][i]) => PassedDuring(r, Suites[s][i])'
        BY <2>3, <2>4, WindowsWiden, SuitesType
      <4>7. QED
        BY <4>5, <4>6 DEF AllPassed
    <3>3. QED
      BY <3>1, <3>2, VerdictStartsAgain
  <2>8. QED
    BY <2>6, <2>7
<1>7. CASE \E o \in Runs : GateWork(o)
  <2>1. PICK o \in Runs : GateWork(o)
    BY <1>7
  <2>2. CASE r = o
    BY <1>1, <2>1, <2>2, VerdictEvaluates
  <2>3. CASE r # o
    <3>1. UNCHANGED <<silver, history, dag, from>> /\ gate'[r] = gate[r]
      BY <2>1, <2>3, GateWorkTyped
    <3>2. QED
      BY <1>1, <1>3, <3>1, VerdictKept
  <2>4. QED
    BY <2>2, <2>3
<1>8. CASE (\E b \in Builders : GoldWork(b)) \/ (\E o \in Runs : DbtWork(o)) \/ UNCHANGED vars
  <2>1. UNCHANGED <<silver, history, gate, dag, from>>
    BY <1>8, GoldWorkTyped, DbtWorkTyped DEF vars, silverVars, gateVars, dagVars
  <2>2. QED
    BY <1>1, <1>3, <2>1, VerdictKept
<1>9. CASE \E t \in Tables : Merge(t)
  <2>1. SilverGrows /\ UNCHANGED <<gate, dag, from>>
    BY <1>9, MergeStep DEF SilverGrows
  <2>2. QED
    BY <1>1, <2>1, VerdictKept
<1>10. QED
  BY <1>4, <1>5, <1>6, <1>7, <1>8, <1>9, StepCases

(* run_all and evaluate: whatever the streaming jobs merge while the gate    *)
(* runs, and however often it is retried, a run that ends green has found    *)
(* every expectation to hold of contents Silver had during the attempt, and  *)
(* no suite is reported as failed that Silver did not violate in that time.  *)
(* The gate has to find its suites: where load_suites looks in a directory   *)
(* that is not there, the gate passes without a query.                       *)
THEOREM VerdictsAreJustified ==
    ASSUME SuiteDirFound
    PROVE  Spec => []GateVerdictIsJustified
<1>1. Init => GateInv
  <2> SUFFICES ASSUME Init, NEW r \in Runs PROVE Verdict(r)
    BY DEF GateInv
  <2>1. dag[r].state = "none" /\ gate[r] = GateStart
    BY MedallionAssumption DEF Init, GateInit
  <2>2. QED
    BY <2>1, VerdictStart
<1>2. TypeInv /\ TypeInv' /\ GateInv /\ [Next]_vars => GateInv'
  BY GateStep
<1>3. GateInv => GateVerdictIsJustified
  BY DEF GateInv, Verdict, AllPassed, GateVerdictIsJustified
<1>4. QED
  BY <1>1, <1>2, <1>3, TypesInvariant, PTL DEF Spec
=============================================================================
