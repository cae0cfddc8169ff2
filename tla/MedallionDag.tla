----------------------------- MODULE MedallionDag -----------------------------
(* airflow/dags/cdc_medallion_dag.py: every half hour one DAG run takes its  *)
(* four tasks in order, each with retries, while the streaming jobs go on    *)
(* merging into Silver.  Nothing keeps a run from starting before the last   *)
(* one has ended (max_active_runs is Airflow's default), so two runs may     *)
(* build the same marts at the same time.  build_gold is a docker compose    *)
(* exec: when the attempt is killed, its spark-submit in the container need  *)
(* not be, and goes on building beside the next attempt.  dbt and the gate   *)
(* are children of the attempt and end with it.                              *)
EXTENDS GoldBuilder, DbtProject, QualityGate

CONSTANTS Runs,      \* the DAG runs
          Retries,   \* default_args["retries"]
          MaxOrphans \* bound: builds that outlive their attempt, at a time

\* Every attempt of build_gold is a process of its own.
ASSUME MedallionAssumption ==
    /\ Retries \in Nat /\ MaxOrphans \in Nat
    /\ Builders = Runs \X (1..Retries + 1) /\ DbtRuns = Runs /\ Gates = Runs

VARIABLES dag,        \* per run: its current task, that task's state, attempts made
          from,       \* Silver when the current attempt started
          overlapped  \* another run was in dbt_build during the attempt

dagVars == <<dag, from, overlapped>>
vars == <<silverVars, goldVars, dbtVars, gateVars, dagVars>>

-----------------------------------------------------------------------------
TaskOrder == <<"check_connectors", "build_gold", "dbt_build", "run_quality_gates">>

Task(r) == TaskOrder[dag[r].task]

In(r, task, states) == Task(r) = task /\ dag[r].state \in states

\* The tasks a property compares with what Silver held when they started.
Watched == {"dbt_build", "run_quality_gates"}

Running(r, task) == In(r, task, {"running"})

\* The spark-submit of the current attempt of build_gold.
Process(r) == <<r, dag[r].attempts>>

\* The attempt that started b is not running any more.
Orphan(b) == \A r \in Runs : ~(Running(r, "build_gold") /\ Process(r) = b)

TypeOK ==
    /\ SilverTypeOK /\ GoldTypeOK /\ DbtTypeOK /\ GateTypeOK
    /\ dag \in [Runs -> [task : 1..Len(TaskOrder), attempts : 0..Retries + 1,
                         state : {"none", "queued", "running", "up_for_retry",
                                  "success", "failed"}]]
    /\ \A r \in Runs, t \in Tables : from[r][t] \in 0..silver[t]
    /\ overlapped \in [Runs -> BOOLEAN]

Init ==
    /\ SilverInit /\ GoldInit /\ DbtInit /\ GateInit
    /\ dag = [r \in Runs |-> [task |-> 1, state |-> "none", attempts |-> 0]]
    /\ from = [r \in Runs |-> silver]
    /\ overlapped = [r \in Runs |-> FALSE]

-----------------------------------------------------------------------------
Trigger(r) ==
    /\ dag[r].state = "none"
    /\ dag' = [dag EXCEPT ![r].state = "queued"]
    /\ UNCHANGED <<silverVars, goldVars, dbtVars, gateVars, from, overlapped>>

\* The scheduler starts an attempt of the task: a process of its own.
StartTask(r) ==
    /\ dag[r].state \in {"queued", "up_for_retry"}
    /\ dag' = [dag EXCEPT ![r].state = "running", ![r].attempts = @ + 1]
    /\ from' = [from EXCEPT ![r] = IF Task(r) \in Watched THEN silver ELSE @]
    /\ LET others == {o \in Runs \ {r} : Task(r) = "dbt_build" /\ Running(o, Task(r))}
       IN  overlapped' = [o \in Runs |-> CASE o = r -> others # {}
                                           [] o \in others -> TRUE
                                           [] OTHER -> overlapped[o]]
    /\ IF Task(r) = "build_gold" THEN StartBuilder(<<r, dag[r].attempts + 1>>)
                                 ELSE UNCHANGED builder
    /\ UNCHANGED <<silverVars, gold, dbtVars, gateVars>>

\* What a process of dbt or the gate held is gone when it exits.
ProcessExits(r) ==
    /\ IF Running(r, "dbt_build") THEN ResetDbt(r) ELSE UNCHANGED dbtRun
    /\ IF Running(r, "run_quality_gates") THEN ResetGate(r) ELSE UNCHANGED gate
    /\ UNCHANGED <<silverVars, gold, dbt, from, overlapped>>

\* A build of the attempt dies with it, or is left to itself.
BuildIsGivenUp(r) ==
    \/ KillBuilder(Process(r))
    \/ /\ Cardinality({b \in Live : Orphan(b)}) < MaxOrphans
       /\ UNCHANGED builder

\* is_healthy may answer either way at any time (see ConnectorManager).
TaskSucceeds(r) ==
    /\ \/ Running(r, "check_connectors")
       \/ Running(r, "build_gold") /\ GoldDone(Process(r))
       \/ Running(r, "dbt_build") /\ DbtDone(r)
       \/ Running(r, "run_quality_gates") /\ GatePasses(r)
    /\ dag' = [dag EXCEPT ![r] =
          IF @.task = Len(TaskOrder) THEN [@ EXCEPT !.state = "success"]
          ELSE [task |-> @.task + 1, state |-> "queued", attempts |-> 0]]
    /\ ProcessExits(r)
    /\ UNCHANGED builder

AttemptFails(r) ==
    /\ ProcessExits(r)
    /\ IF Running(r, "build_gold") THEN BuildIsGivenUp(r) ELSE UNCHANGED builder

\* Mutant: one attempt too many.
TaskFailsOnceMore(r) ==
    /\ dag[r].state = "running"
    /\ dag' = [dag EXCEPT ![r].state =
          IF dag[r].attempts <= Retries + 1 THEN "up_for_retry" ELSE "failed"]
    /\ AttemptFails(r)

\* Mutant: the attempts are not counted.
TaskFailsUncounted(r) ==
    /\ dag[r].state = "running"
    /\ dag' = [dag EXCEPT ![r].state = "up_for_retry", ![r].attempts = 0]
    /\ AttemptFails(r)

\* An exception, a failed test or gate, or the execution timeout: the task is
\* retried, and after the last attempt the tasks after it never run.
TaskFails(r) ==
    /\ dag[r].state = "running"
    /\ dag' = [dag EXCEPT ![r].state =
          IF dag[r].attempts <= Retries THEN "up_for_retry" ELSE "failed"]
    /\ AttemptFails(r)

WorkOnTask(r) ==
    /\ \/ /\ Running(r, "build_gold")
          /\ BuildMarts(Process(r))
          /\ UNCHANGED <<dbtVars, gateVars>>
       \/ /\ Running(r, "dbt_build")
          /\ ReadSource(r) \/ ReplaceModel(r) \/ TestModel(r)
          /\ UNCHANGED <<goldVars, gateVars>>
       \/ /\ Running(r, "run_quality_gates")
          /\ Evaluate(r)
          /\ UNCHANGED <<goldVars, dbtVars>>
    /\ UNCHANGED dagVars

Advance(r) == StartTask(r) \/ WorkOnTask(r) \/ TaskSucceeds(r) \/ TaskFails(r)

\* A build nobody waits for; it may also die, which is to skip the marts left.
OrphanWorks(b) ==
    /\ Orphan(b)
    /\ BuildMarts(b)
    /\ UNCHANGED <<dbtVars, gateVars, dagVars>>

Merge(t) ==
    /\ CommitMerge(t)
    /\ UNCHANGED <<goldVars, dbtVars, gateVars, dagVars>>

Next ==
    \/ \E r \in Runs : Trigger(r) \/ Advance(r)
    \/ \E b \in Builders : OrphanWorks(b)
    \/ \E t \in Tables : Merge(t)

Spec == Init /\ [][Next]_vars

\* The scheduler starts what is due, and execution_timeout ends an attempt
\* that does not end by itself.
FairSpec == Spec /\ \A r \in Runs : WF_vars(Advance(r))

-----------------------------------------------------------------------------
\* Some contents e's table had while the current attempt of r was running
\* pass e (fail e).
PassedDuring(r, e) ==
    \E s \in from[r][e.table]..silver[e.table] : s # 0 /\ Check(e, Contents(e.table, s))

FailedDuring(r, e) ==
    \E s \in from[r][e.table]..silver[e.table] : s # 0 /\ ~Check(e, Contents(e.table, s))

\* The verdict of the gate means something although its queries see Silver at
\* different moments and Silver changes under them: a violation that was there
\* all the time the gate ran fails it, and a suite is reported as failed only
\* if Silver did violate it in that time.  (run_all, evaluate and check.)
GateVerdictIsJustified ==
    \A r \in Runs :
        /\ dag[r].state = "success" =>
               \A s \in DOMAIN Suites : \A i \in DOMAIN Suites[s] : PassedDuring(r, Suites[s][i])
        /\ \A s \in gate[r].failures : \E i \in DOMAIN Suites[s] : FailedDuring(r, Suites[s][i])

NoOlder(reads, than) == \A t \in DOMAIN reads : reads[t] >= than[t]

\* A mart never goes back to older contents of Silver unless two processes
\* were building it at the same time, of two runs or, in Gold, of an attempt
\* and one its run has given up on: then the slower one, which has read less,
\* may replace it last.
MartsGoBackOnlyWhenBuildsOverlap ==
    [][/\ \A b \in Builders, m \in GoldMarts :
             /\ ReplaceMart(b) /\ Mart(b) = m
             /\ gold[m] # NULL /\ ~NoOlder(gold'[m], gold[m])
             => builder[b].crossed
       /\ \A r \in Runs, m \in DbtMarts :
             /\ Running(r, "dbt_build") /\ m \in dbtRun[r].todo \ dbtRun'[r].todo
             /\ dbt[m] # NULL /\ dbt'[m] # NULL /\ ~NoOlder(dbt'[m], dbt[m])
             => overlapped[r]]_vars

\* When dbt_build has succeeded, every dbt mart is at least as new as Silver was
\* when that attempt started, unless runs overlapped.  It does not hold of
\* Gold: build_all skips a mart that fails, and its task succeeds.
GreenBuildLeavesFreshMarts ==
    \A r \in Runs :
        In(r, "run_quality_gates", {"queued"}) /\ ~overlapped[r] =>
            \A m \in DbtMarts : dbt[m] # NULL /\ NoOlder(dbt[m], from[r])

\* A dbt mart that fails its own test is in place only while the dbt_build of
\* some run has not succeeded: it is still to be tested, or was reported.
BadMartIsReported ==
    \A m \in DbtMarts :
        dbt[m] # NULL /\ ~TestPasses(m, dbt[m]) =>
            \E r \in Runs : In(r, "dbt_build", {"running", "up_for_retry", "failed"})

\* Every DAG run ends, in success or failure, however its tasks fail and
\* whatever Silver holds.
EveryRunEnds ==
    \A r \in Runs : dag[r].state = "queued" ~> dag[r].state \in {"success", "failed"}

-----------------------------------------------------------------------------
SuitesOf(t) == {s \in DOMAIN Suites : \E i \in DOMAIN Suites[s] : Suites[s][i].table = t}

PassedGate(reads) ==
    \A t \in DOMAIN reads : \A s \in SuitesOf(t) : \A i \in DOMAIN Suites[s] :
        Check(Suites[s][i], Contents(t, reads[t]))

\* What HOW_IT_WORKS.md says of the gate: data that violates a suite is blocked
\* from flowing to Gold.  The gate is the last task of the DAG.
PublishedDataPassedGate ==
    /\ \A m \in GoldMarts : gold[m] # NULL => PassedGate(gold[m])
    /\ \A m \in DbtMarts : dbt[m] # NULL => PassedGate(dbt[m])
=============================================================================
