# Verification of the CDC lakehouse platform

TLA+ models of the platform in this repository, the TLC configurations that
check them on small instances, and proofs that TLAPS checks for every value of
the constants. Paths are relative to the repository root.

## The system

| Part | State it keeps | Operations | Hard behaviour |
|---|---|---|---|
| Source database and workload (`src/cdc_platform/generators`, `infra/postgres/init`) | rows, WAL | insert, update, delete of one row, committed one by one | writes go on during the snapshot; the clock of a commit may go backwards, the LSN does not |
| Debezium connector (`infra/debezium/postgres-connector.json`) | replication slot, stored source offset | initial snapshot, emit the next change (and a tombstone), store the offset, restart | a restart emits again everything since the stored offset |
| CDC topic (Kafka) | records per partition, log start | append, read a range, retention | records can expire before they are read |
| Streaming engine (`streaming/engine.py`, Spark) | checkpoint: planned and committed offsets | plan a batch, call `process_batch`, commit, fail, start again | a crash between the Iceberg commit and the checkpoint commit; a deleted checkpoint |
| Silver job (`streaming/silver/job.py`) | `lakehouse.silver.<table>` | flatten, deduplicate, `ensure_table`, MERGE | replays, late changes, deletes that leave no trace, rows of NULLs from tombstones |
| Bronze job (`streaming/bronze/job.py`) | `lakehouse.bronze.<table>` | `ensure_table`, append | the append is not idempotent |
| Gold builder (`streaming/gold/job.py`), dbt project (`dbt/`) | marts | replace each mart, test it (dbt) | exceptions swallowed, sources read at different moments, a mart tested after it is published |
| Medallion DAG (`airflow/dags/cdc_medallion_dag.py`, `scripts/submit_spark.sh`), quality gate (`quality/`) | task states | check the connector, build Gold, dbt, gate; retries | runs overlap, a Gold build outlives the attempt that started it, the gate runs last and over a Silver that changes |
| Maintenance DAG (`airflow/dags/cdc_maintenance_dag.py`) | Iceberg snapshots and files | compact, expire, remove orphans | runs next to the streaming commits |
| Connector manager, retries (`ingestion/`, `common/retry.py`) | connector configuration in Kafka Connect | upsert, is_healthy, delete | a retry of a call that has succeeded, a request that arrives after its call was given up |
| Schema registry client (`common/schema_registry.py`) | a cached reader schema | latest schema of a subject | the schema evolves under a running driver |

The workload commits to Postgres; Debezium follows the WAL into one topic per
table; Bronze and Silver read that topic independently, each with a checkpoint
of its own; Gold, dbt and the quality gate read Silver on Airflow's schedule.

What makes each part correct:

- *capture*: nothing committed is lost, and what is redelivered is redelivered
  together with everything after it, in order;
- *engine*: no record is committed before it is processed; a failed batch is run
  again over the same range;
- *Silver*: it mirrors the source table once it has caught up; at any moment no
  row is older than it was, no two rows share a key, and no row was never written;
- *Bronze*: no committed record is missing, duplicates come from failures only,
  and Silver can be rebuilt from it;
- *Gold, dbt and orchestration*: marts follow Silver and do not go back, what a
  run reports about them is so, and every run ends;
- *connector manager*: a call that returned took effect, whatever the network does;
- *schema registry client*: what is in the topic can be decoded and merged, also
  after the source table has got a new column.

`PROJECT.json` lists every component with its status, and every hazard at its
line with the properties that would catch it.

## Modules

| Module | Models | How its parts correspond to the code |
|---|---|---|
| `KafkaTopic` | the topic as both sides see it | `topic[p]` is the records of a partition by offset, `logStart[p]` how many have expired; `Produce` appends under the partition of the key; `Decode` is `decode_cdc`, with the NULLs of a tombstone; `Poll` is the source of `read_kafka`, `failOnDataLoss=false` included |
| `CdcCapture` | table, WAL, connector | `InsertRow`, `UpdateRow`, `DeleteRow` are the writes of `ChangeSimulator.tick`; `SnapshotRow`, `Capture`, `FlushOffsets`, `ConnectorRestart` the connector as configured |
| `StreamingEngine` | `StreamingJob` as Spark runs it | `offsets` and `commits` are the checkpoint's two logs; `phase` is where `foreachBatch` is; `Fail` can happen in every phase |
| `SilverTransform` | `flatten`, `deduplicate`, `build_merge_sql` | operators on sets of rows, one per clause of the MERGE, with SQL's treatment of NULL; ties in `row_number()` are a nondeterministic choice |
| `SilverJob` | `SilverJob.process_batch` | `EnsureTable`, then `MergeBatch`: one atomic Iceberg commit |
| `SilverPipeline` | all of the above composed | every interleaving of workload, connector, retention and job; the properties of Silver |
| `ExactlyOnceReplica` | the abstract specification | a replica that applies each record of a log once, in order |
| `BronzeJob`, `BronzePipeline` | the Bronze job, composed with the same source, topic and engine | the table is a bag of decoded records |
| `SilverLayer` | the Silver tables as batch readers see them | `silver[t]` counts the commits of a table's `history`; a query reads the contents of one moment |
| `GoldBuilder` | `GoldBuilder.build_all` | `builder[b]` is the mart a process is building and the snapshots it has read, with a note (`crossed`) whether another process was alive in its time; `StartBuilder` is a spark-submit, `KillBuilder` its death; `ReplaceMart` is `_replace`, `SkipMart` the `except` |
| `DbtProject` | `dbt build --fail-fast` | each model of `todo` is queried (`ReadSource`) and replaced (`ReplaceModel`), and each of `untested` tested on the table as it is by then (`TestModel`), in any order, as on the threads of `profiles.yml`; `NetRevenue` and `TestPasses` are `revenue_daily.sql`, its singular test and the accepted range of `fct_sales` |
| `QualityGate` | `load_suites`, `run_all`, `evaluate`, `TrinoValidator.check`, the suites | `Loaded` is what `load_suites` finds, nothing at all when the process was started in another directory (`SuiteDirFound`); `Violations` is the COUNT of an expectation with SQL's NULLs; `Evaluate` is one query at a moment of its own |
| `MedallionDag` | the DAG, composed with the four above | `dag[r]` is the task, its state and its attempts; `StartTask`, `TaskSucceeds`, `TaskFails` are Airflow's, `WorkOnTask` a step of the process of the task, `OrphanWorks` a step of a `spark-submit` whose attempt has failed (`BuildIsGivenUp`) |
| `AtLeastOnceCalls` | the abstract specification of `ConnectorManager` | a call that returned took effect at least once; any call takes effect at most as often as it is attempted |
| `ConnectorManager` | `ConnectorManager`, `with_retries`, and the Kafka Connect they talk to | `request[c]` is the retry loop of `_request`; `wire` holds requests, those of abandoned attempts too; `CarryOut` and `Refuse` are Connect |
| `SchemaEvolution` | `value_schema`, `decode_cdc`, `ensure_table` and the MERGE over schemas | the engine of `StreamingEngine`, with the schema of each record (`writer`), the cached one (`reader`) and that of the table (`columns`) |
| `MCSilverPipeline`, `MCBronzePipeline`, `MCMedallionDag`, `MCSchemaEvolution` | instances for TLC | partitionings, the clock, the symmetry; rows, suites and histories of Silver |
| `PipelineProofs` | lemmas on topic, capture, engine, flattening, deduplication and MERGE | shared by the proofs of Silver and Bronze |
| `SilverPipelineProofs`, `SilverConvergenceProofs`, `SilverReplicaProofs` | theorems on `SilverPipeline` | below |
| `BronzePipelineProofs`, `MedallionDagProofs`, `ConnectorManagerProofs`, `SchemaEvolutionProofs` | theorems on the other modules | below |

A row image is reduced to its key and a version, the LSN of the write that
produced it: two images are equal exactly when they came from the same write, so
a property that compares versions compares rows column by column. A definition
preceded by "Mutant" is not part of a model: it is a plausible mistake, named
under `mutants` in `PROJECT.json`, that the property named there must detect.

Deliberate approximations:

- The workload may insert a key that was deleted before. `BIGSERIAL` keys are not
  handed out twice by the simulator, but the schema lets a client choose the key.
- One connector task, emission in WAL order, and a partition per key: a key's
  records are never reordered, only emitted again from an earlier position.
- The snapshot ends without a restart.
- An Iceberg commit is atomic, and there is one driver per table and layer.
- A mart is the snapshots its query read: equal snapshots give equal marts.
- Gold, dbt and the gate read Silver from `SilverLayer`, whose tables take given
  contents one after the other; how a MERGE computes them is `SilverPipeline`.
- dbt and the gate are children of the task attempt and end with it. A query of dbt
  that Trino has already accepted may finish, but no table takes the place of
  another without dbt, which is gone. `build_gold` is a `docker compose exec`: its
  `spark-submit` in the container may die with the attempt or live on, at most
  `MaxOrphans` of them at a time.
- Bytes decoded in a schema that did not write them raise, or happen to be read
  without an error; the second is counted as merged, in favour of the code.
- Metrics and logging, which swallow their own failures, are left out.
- `silver_updated_at` is a clock that ticks when the driver restarts, which is
  as often as a property here can tell two times apart.

## Runs

The Silver and Bronze instances have two keys. `SetBackClock` makes every commit earlier on the
wall clock than the one before, so that only the LSN orders changes. Batches
hold two records at most, fewer than the backlog, and a delete with its
tombstone fills one: every way of cutting a backlog into batches happens. Two or
three writes are enough for insert-update-delete of one key, or for a delete and
a re-insertion, next to a snapshot row.

| Run | Instance | Shows |
|---|---|---|
| `silver_redelivery` | one partition, 3 writes, 1 connector restart, 1 driver failure | convergence, unique key, no invented row, LSN order and idempotent replay with redelivery and retention |
| `silver_replay` | two partitions, 2 writes, 2 driver failures, no redelivery | the newest merged change always shows; the job implements `ExactlyOnceReplica`; every change eventually shows |
| `silver_reset` | one partition, 2 writes, 1 of each failure, 1 checkpoint deletion | convergence, and the invariant of the proof, when the topic is read again from the start |
| `bronze_landing` | one partition, 2 writes, 1 of each failure, 1 checkpoint deletion, retention that waits for the job's commits | nothing missing in Bronze, duplicates bounded by failures, Silver can be rebuilt |
| `silver_stale_wins` | 2 writes, 1 connector restart | *violation*: a create redelivered after its delete brings the row back |
| `silver_retention_loss` | retention ahead of the job | *violation*: a batch commits past records that expired |
| `bronze_exactly_once` | 1 driver failure | *violation*: a record lands in Bronze twice |
| `medallion_runs` | 2 DAG runs, 1 retry per task, 1 Gold build at a time that outlives its attempt, three histories of Silver, two suites | the gate's verdict is justified by what Silver held while it ran; a mart goes back only when two processes build it at the same time; after a green dbt build its marts are fresh; a dbt mart that fails its test is reported; every run ends |
| `medallion_gate_last` | the same | *violation*: data that fails a suite is in Gold and dbt's marts before the gate looks |
| `connector_admin` | 2 clients, 2 calls in all, 2 attempts each | the calls implement `AtLeastOnceCalls`; a health answer was true during the call; a delete that ended well, or in 404, did leave no connector; every call ends |
| `schema_narrow_table` | 2 keys, 2 partitions, 4 changes, 2 added columns, 2 driver failures | a batch that cannot be decoded or merged is never passed over; a job whose table is narrower than its schema never merges again |
| `schema_evolution` | 1 key, 3 changes, 1 added column, 1 driver failure | *violation*: a batch that holds both schemas fails after every restart, and what it holds is never merged |

The five violations are where the documentation promises more than the code
does; `PROJECT.json` quotes both under `findings`. The first of them is why
`OldChangeNeverWins` is checked only without redelivery, while convergence
(`CaughtUpMirrorsSource`) holds with it: the connector redelivers a *suffix*, so
the delete that was overruled comes again and removes the row again.

The three histories of Silver in `medallion_runs` are chosen for the judgements:
payments with an amount no suite allows and a refund on a day without captures,
both corrected later, while there is no inventory; good payments and a stock level
out of range, corrected later, while its product is missing; and no payments, but
inventory and products, so that a mart that joins two tables can go back. The orders
table is missing in all of them, so that Gold has a mart to skip. One retry is enough
for an attempt over marts that the last one left half rebuilt and, with one orphan,
for a retry that meets the build its run has given up on; two runs are enough for
every overlap of two runs. What `GreenBuildLeavesFreshMarts` says of dbt is false
of Gold, whose task is green when marts were skipped. In `connector_admin` two
calls are enough for a request of the first to arrive after the second returned,
which `AtLeastOnceCalls` allows and a caller has to expect; an upsert, a delete
and a health check of two clients meet in every order. With one schema version
(`MaxVersion = 1`) the property that `schema_evolution` refutes holds.

Deadlock is not checked: the workload, the failures, the DAG runs and the calls
are bounded, and when they are spent and the topic is drained the system rests.

Bounds: `MaxLsn` (writes), `MaxOffsetsPerTrigger` (batch size, a parameter of
the code), `MaxRewinds` (connector restarts), `MaxRestarts` (driver failures),
`MaxResets` (checkpoint deletions), `Runs` and the length of the `Histories`
(DAG runs, commits to Silver), `MaxCalls` (calls of all clients), `MaxVersion` and
`MaxChanges` (schemas, changes). `Retries` (3 in the code) and `Attempts` (5) are
parameters of the code, given small values; `MaxOrphans` bounds the Gold builds that
outlive their attempt at a time. `RetentionCoversLag` says whether retention
waits for what the job at hand, Silver or Bronze, has committed: nothing in the
repository makes it wait, and `failOnDataLoss=false` lets either job commit past
records that expired. `SuiteDirFound` says whether the gate is started where the
suites are; it is TRUE in the runs.

Fairness (`FairSpec`): the connector task and the driver keep running, because
Kafka Connect and the Kubernetes Deployment restart them, so emitting, starting,
planning, committing, `EnsureTable` and `MergeBatch` are weakly fair. Nothing is
assumed of the workload, of offset storage, of retention or of operators, and a
driver fails a bounded number of times. A batch that raises because of its
schemas is no such failure: it raises whenever it is run. For a DAG run, the
scheduler starts what is due and `execution_timeout` ends an attempt, so its
steps are weakly fair; Silver owes nothing. For a call of `ConnectorManager`,
every request has a timeout and every wait ends; Connect and the network owe
nothing.

## Proofs

All theorems hold for every value of the constants (keys, partitioning, clock,
batch size, bounds on failures; DAG runs, retries, histories, suites; clients,
calls, attempts), from the assumptions named in the modules: `NULL` is no other
value, the clock is defined, a batch holds at least one record, an expectation
is of a type the validator understands and a suite is not empty. Two hypotheses are
stated in the theorems that need them: `RetentionCoversLag` and `SuiteDirFound`. Each inductive
invariant was checked with TLC on the instances above before it was proved;
`ConvergenceInv` is kept as an invariant of `silver_reset`.

The invariants of the source, the topic and the checkpoint that the proofs of
Silver and Bronze share are stated in `CdcCapture` (from `Slots` on) and
`StreamingEngine` (`CheckpointInv`, `Done`); `SourceInv` and the lemmas are in
`PipelineProofs`.

**Silver** (`SilverPipelineProofs`, `SilverConvergenceProofs`, `SilverReplicaProofs`)

- `TypeCorrect`: `Spec => []TypeOK`. Inductive only together with what the topic
  holds: every record is a well-formed change of its own key (`TopicInv`,
  `WalNumbered`). The interesting case is the MERGE: a tombstone's row of NULLs
  is neither matched nor inserted.
- `KeyIsUnique`: `Spec => []OneRowPerKey`, from `MergeKeepsKey`, a lemma about
  MERGE on any target, and from what `deduplicate` leaves.
- `LsnMonotone`: `Spec => LsnNeverRegresses`, from the guard and `KeyIsUnique`.
- `RowsAreWrites`: `Spec => []RowsAreCommittedWrites`: a row is inserted or
  updated only from a winner with an after image, and that image is in the WAL
  or is a snapshot's.
- `ConvergenceInvariant`: `ConvergenceInv` holds in every state if retention
  waits for the job. It has a source side: the table is what the last change of
  each key left, what the connector has passed is in the topic and is not behind
  older events, and an unwritten row is read by the snapshot. And a job side:
  every Silver row is no newer than some event, and a key whose last event is
  also its newest, and has been merged, shows that event. Neither follows from
  the other properties: without "last and newest" the second part is false
  during a redelivery, which is the violation above.
- `Convergence`: `Spec => []CaughtUpMirrorsSource` under the same hypothesis:
  when everything is emitted, the newest change of a key is its last event, so
  the job side says that Silver shows it and the source side that the table does.
- `ReplayIsInvisible`: `Spec => ReplayChangesOnlyStamps`. `ReplayInv`: as long as
  the checkpoint is kept, what was merged is exactly what is committed or what is
  planned, and in the second case Silver has *absorbed* the planned batch: of each
  of its winners it shows that image or a newer one, or, for a delete, no older
  row. MERGE leaves all but the stamps of a target that has absorbed its source
  (`AbsorbedMergeIsIdempotent`), and two runs of `row_number()` over the same
  batch differ only between copies of one event (`SameWinners`).
- `SourceOrderDecides`: `Spec => []OldChangeNeverWins` when the connector
  redelivers nothing and the checkpoint is kept. `ReplicaInv`: the events of a key
  lie in LSN order, a tombstone directly follows its delete, nothing unmerged has
  expired, and a key shows the last event of the merged prefix.
- `ImplementsReplica`: `Spec => ImplementsExactlyOnce` under the same hypotheses.
  A source step grows the log; a merge applies the records of its batch, or, when
  the batch had been merged before the failure, stutters; every other step
  stutters. That a merged prefix has a last record of a key is the one
  fact about data here that needs induction: it comes from the library's theorem
  that the naturals are well-founded (`Largest`).

`RetentionCoversLag` is needed wherever it is a hypothesis: `silver_retention_loss`
refutes convergence without it, and a replay from which a delete has expired would
insert the row that the delete had kept out. `MaxRewinds = 0` and `MaxResets = 0`
are needed too: a connector restart is what `silver_stale_wins` uses, and a reset
reads old changes again in the same way. Both do happen in the real system; what
survives them is `KeyIsUnique`, `LsnMonotone`, `RowsAreWrites` and `Convergence`.

**Bronze** (`BronzePipelineProofs`)

- `BronzeTypeCorrect`, `KeptRecordsAreInBronze` (`KeptRecordsLanded`: what is committed
  and still in Kafka is in Bronze) and `DuplicatesAreFailures`
  (`CopiesBoundedByFailures`), whatever retention removes. Besides `CheckpointInv`:
  every row of the bag is a record of the topic, a record that counts as done and has
  not expired has landed, and it has landed at most once per life the driver has lost
  and once more if it is done in this one. `CopiesAreLandings` relates this to the sum
  in `Copies`.
- `NothingIsLost` (`CommittedRecordsLanded`), when retention waits for the job: then
  what has expired had landed before. Without the hypothesis it is false, as
  `silver_retention_loss` shows of Silver: a batch planned over expired records
  commits past them.
- `BronzeRebuildsSilver` (`RebuildMirrorsSource`) under the same hypothesis: the rebuild
  is one MERGE of the whole of Bronze, so `BatchShows`, the lemma about what a batch
  shows that convergence rests on, applies to it with `SourceInv`.

**DAG** (`MedallionDagProofs`), each from `TypeInv`, which says among other things that
only a running task has a process of dbt or of the gate, and a part of its own:

- `MedallionTypeCorrect`: `Spec => []TypeOK`.
- `GreenMeansFresh` (`GreenBuildLeavesFreshMarts`), from `BuildInv`: two runs in
  `dbt_build` both count as overlapped; what a process has read is no older than the
  beginning of its attempt and no newer than Silver; no mart is ahead of a process that
  is alone in the build; and a model that such a run has done is fresh.
- `NoStaleReplacement` (`MartsGoBackOnlyWhenBuildsOverlap`), of the dbt marts from
  `BuildInv` and of Gold from `GoldInv`, whose processes are not bound to a running
  task: of two that are alive both have noted it, and no mart is ahead of one that has
  noted nothing. It says of a single run only that its retries do not make a Gold mart
  go back unless the build of an attempt it has given up on is still alive; then they
  may, with no other run in sight.
- `BadMartsAreReported` (`BadMartIsReported`), from `BadInv`: a mart that fails its
  test is in the hands of a run that has yet to build or test it, or has failed.
- `VerdictsAreJustified` (`GateVerdictIsJustified`) when `SuiteDirFound`, from `GateInv`:
  of each expectation evaluated so far, its suite is among the failures or it held during
  the attempt, and the history of Silver only grows (`WindowsWiden`). Without the
  hypothesis it is false: `load_suites` looks in a relative directory, and a gate that
  finds no suites is green over any Silver. The `airflow` service of
  `docker-compose.yml` mounts the repository at `/opt/app` and sets no working directory,
  nor does its image or the task.

**Connector manager** (`ConnectorManagerProofs`), from one invariant, `IInv`:

- `ManagerTypeCorrect`, `HealthAnswerIsTrue` (`HealthAnswerWasSo`), `DeleteIsHonest`
  (`EndedDeleteLeftNoConnector`): a client that is in its request loop has seen what
  is so now (`SeenInv`), and an answer reports something seen since the call began
  (`AnswerInv`), also when it answers an attempt of the same call before the last.
- `KeepsPromise` (`Promise`): `Spec` implements `AtLeastOnceCalls`. The times a call
  took effect and its requests still underway are together no more than its
  attempts (`AttemptsInv`), which bounds the effect of a request that arrives after
  its call was given up; an answer of 200 was given after the call took effect.

**Schemas** (`SchemaEvolutionProofs`), from `IInv`: the versions are in order (table,
driver, registry, source), and what counts as written has been merged.

- `SchemaTypeCorrect`: `Spec => []TypeOK`.
- `NoChangeLost` (`NoChangeIsSkipped`): the failures that `schema_evolution` shows stop
  the job; they never make it commit past a record.
- `NarrowTableIsFinal` (`NarrowTableStopsTheJob`): they are also final. Once a driver
  has read a schema wider than the table, no restart and no further change of the
  source brings the job back, because nothing widens the table and the registry never
  goes back. It takes an operator, who is not modelled.

Only model-checked: liveness under fairness (`EventuallyMirrorsSource`,
`EveryRunEnds`, `EveryCallEnds`), which this prover does not handle. Every other
property of the passing runs is proved. The proofs know of `BatchEnds` only that a
batch lies between what is committed and the end of the topic; how its partial sums
split the limit over the partitions is left to the runs.

## Plan

Done: all modules above, and a theorem for every safety property and every refinement
of a passing run. Next: `SourceOrderDecides` and `ImplementsReplica` for a connector
that does restart, of the keys whose changes have not been redelivered (the invariant
`OrderInv` restricted to those keys, and `LogEntry` to their records); and
`DuplicatesAreFailures` refined to say which records can be duplicated, those of the
batch underway at a failure. `BatchAbsorbed`, `BatchShows` and `AppendCounts` are
the lemmas both would use.

## Not modelled

- *An interrupted snapshot.* What Debezium keeps of a snapshot that did not end is
  not in this repository; the rows deleted before it starts again have no delete
  event, and would stay in Silver.
- *Two drivers of one table*, as a rolling update of the Deployment starts them.
  What they may do to one checkpoint is decided by Spark's metadata log over S3.
- *The maintenance DAG.* Compaction keeps the contents of a table; a streaming
  commit that loses Iceberg's validation to it is `Fail`. As written, it expires
  only snapshots older than 1970, and in the gold layer it looks for tables with
  the names of the Silver ones.
- *The other marts of dbt, the customers and products suites*: they read Silver,
  and are judged, in the same way as those modelled.
- Configuration, logging, metrics, the row factories, the SparkSession builder and
  the manifests: no state that a property could be about, except as the source of
  failures and of fairness.

Three more observations, of which nothing here depends: dbt's default naming puts
marts with `+schema: gold` under the target schema `gold` into `gold_gold`
(`dbt/dbt_project.yml`, `dbt/profiles.yml`), so they are not the tables of the
Gold builder, which is why `DbtProject` has tables of its own; `with_retries`
speaks of transient failures and of jitter but retries every error, with
`wait_exponential`, which has none (`common/retry.py`); and a replayed batch leaves Silver the same except for `silver_updated_at`, which is
`current_timestamp()` and is rewritten because the guard of the MERGE admits an equal
LSN (`streaming/silver/job.py`), where `docs/HOW_IT_WORKS.md` has "identical" and
`docs/DESIGN_DECISIONS.md` a strict comparison.
