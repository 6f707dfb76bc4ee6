# Verification of the data lakehouse stack

TLA+ models of the parts of this repository that keep state and can lose, repeat
or wrongly delete data: the two Spark jobs in `data/glue/scripts` that are
present, with the job control tables they share and the monitor that polls
them, and in `data/test_scripts` the retention lambda, the schema registry with
the gate of the Glue job that uses it, and the job that maintains the Glue
catalog. The models are checked with TLC on small instances
(`MC*.tla`, `*.cfg`); the main safety properties are proved with TLAPS for all
values of the constants (`*_proofs.tla`). `PROJECT.json` lists runs, mutants,
the source lines behind every definition, findings, hazards and theorems.

## 1. The system

| component | state it keeps | operations |
|---|---|---|
| Ingest job, `ingest.py` | bronze parquet in MinIO; its watermarks; its row in `job_control_runs` | `main`: load watermarks, choose bootstrap or increment, check, maximum, count, write, move watermarks, report |
| Transform job | silver events | absent from the repository (`README.md:269`); only its output is known, from `aggregate.py:66` |
| Aggregate job, `aggregate.py` | two gold Iceberg tables; one watermark; its run row | `main`: list silver above the watermark, check, merge into product and customer metrics, move the watermark, report |
| Job state store, `state_store.py` | `job_control_runs`, `job_control_watermarks` (PostgreSQL) | `start_run`, `finish_run`, `load_watermarks`, `upsert_watermark`, `log_dq_metric` (never called) |
| Data quality, `data_quality.py` | none | assertions that raise `DQError` |
| DQ monitor, `monitor.py` | none that outlives a poll; polls the control tables | failed runs, freshness of each job, failed DQ metrics (of which there are none) |
| Retention lambda, `data_retention.py` | none; deletes S3 objects | range, listings, paged and batched deletion, a result per table |
| Schema registry, `schema_registry.py` | `vN.avsc` files in S3 | load the latest, compare, register the next |
| Glue MSSQL ingest, `ingest_glue_job.py`, `mssql_connector.py` | bronze files, error files | retrying read, schema gate, partitioned write |
| S3 client and Glue catalog, `store_to_s3.py` | parquet files, Glue tables and partitions | list, load and put files; register a table and its partitions |
| Orchestration, `Makefile`, `docker-compose.*.yml` | containers | `make ingest / transform / aggregate / jobs`; one container per job |
| Platform: MinIO, PostgreSQL, Hive Metastore, Trino, Superset | | external, configuration only |
| `generate_fake_data.py`, `move_files.py` | | one-off tools |

How they interact. The jobs call nothing of each other: they communicate through
storage. Ingest reads PostgreSQL tables that keep growing and appends to bronze;
transform turns bronze into silver; aggregate reads silver and merges into gold.
Each remembers how far it came in `job_control_watermarks`, which lives in
another system than the data, and no transaction spans the two. The monitor
reads the control tables. The lambda deletes under the feet of all writers.

What is hard, and what makes each component correct:

* *Ingest*. Its data frames are lazy JDBC queries: the checks, the maximum, the
  counts and the writes each see the source at another moment. Three writes and
  three watermarks are six separate commits. A watermark must never speak for a
  row that is not in bronze, because the strict `>` of `incremental_dbtable`
  never looks back; a run recorded as SUCCEEDED must have delivered what it saw.
* *Aggregate*. Its frame lists the files once, so it does have a snapshot; but
  two gold commits and a watermark are three commits, and the merge is additive,
  so a repeated batch is counted twice.
* *Retention*. No snapshot of the bucket, a clock that moves on, batches and
  pages, per-key errors, duplicate invocations: nothing that must be kept may
  go, and what has expired must go in the end.
* *Registry*. Listing, loading and putting a schema file are separate calls, and
  the put is unconditional: a version must never be reused, and what an object
  believes to be the contract must be one registered version.
* *Monitor*. It keeps nothing between polls: what it alerts depends on where a
  poll falls, and `ended_at` is stamped before it can be seen. A failed run must
  be alerted although polls fail or are cut short, and not without end; a job
  whose runs silently die must be noticed.
* *Catalog*. Several jobs define one table from a schema each read earlier; a
  job must not commit with less registered than it was there for, and the
  definition must not fall behind all of them.

## 2. Modules and plan

| module | what | status |
|---|---|---|
| `Replication`, `Replication_proofs` | what a replicating job promises: deliver, vouch, lose | done |
| `Ingest`, `MCIngest`, `Ingest_proofs` | the ingest job and its control tables; implements `Replication` | done |
| `Aggregate`, `MCAggregate`, `Aggregate_proofs` | the aggregate job; implements `Replication` | done |
| `Retention`, `MCRetention`, `Retention_proofs` | the retention lambda | done, except the counts in its results |
| `SchemaHistory`, `SchemaHistory_proofs` | what a registry promises: a log with an atomic append, opened by atomic snapshots | done |
| `Registry`, `MCRegistry`, `Registry_proofs` | versions of schema files, registration, the schema gate of the Glue job; implements `SchemaHistory` | done |
| `JobControl` | what `job_control_runs` promises of a run, whoever reads it | done |
| `Monitor`, `MCMonitor`, `Monitor_proofs` | polls, windows, alerts and time, against runs that behave as `JobControl` says | done |
| `Catalog`, `MCCatalog`, `Catalog_proofs` | registration of the Glue table by overlapping jobs | done |

Three abstract specifications connect the modules. `Replication` is what a job
promises about the layer it fills: `Ingest` implements it for bronze, `Aggregate`
for gold (silver is the source, and an event is delivered when both gold tables
count it). `JobControl` is what a job
promises about its row in `job_control_runs`: `Ingest` and `Aggregate` implement
it, and the jobs in `Monitor` are its steps, with the transaction of each update
spelt out. So what holds of the monitor holds whichever of the two jobs writes
the table. `SchemaHistory` is what the registry amounts to when its three calls
are not told apart, until an outdated session overwrites a version. What follows from an abstract specification alone is proved
once, about it: `ReplicationWatermarkTrue` (watermarks are true in every state,
and nothing is delivered that is not in the source), `HistorySnapshotsTrue`
(versions are numbered without a gap, each differs from the one before, and what
a user holds is what the log says) and `HistoryLogStays`.

What could follow is a composition of ingest, transform and aggregate through
storage; it has to wait for `transform.py`, which is not in the repository.

## 3. Ingest

`Ingest.tla` has one action per statement of `main()` that reads or writes
shared state; `pc` and `tbl` say where a run is.

| code (`ingest.py`) | action |
|---|---|
| `start_run`, 78 | `StartRun` |
| `load_watermarks`, 83 | `LoadWatermarks` |
| `path_exists` for all tables, `effective_watermark`, 84-120 | `CheckPaths` |
| quality checks, 122-133 | `Validate`, once per table |
| maxima, 135-137 | `ComputeMax`, once per table |
| counts, empty run, 155-164 | `CountRows`, once per table |
| the three writes, 166-183 | `OpenSave` (the directory appears), `Save` (the commit) |
| `upsert_watermark` unless the maximum is None, 185-190 | `Upsert` |
| `finish_run("SUCCEEDED")`, 162 and 192 | `FinishSucceeded` |
| the except branch, 198-200 | `FinishFailed` |

Around them: `Raise` (a statement raises before it had an effect), the second
disjunct of `Returns` (it raises after its effect), `Crash` (the process dies,
or `finish_run` in the except branch raises: the run stays STARTED), `Arrive`
(the source grows) and `WipeBronze` (the documented reset of MinIO,
`README.md:149-154`, which keeps PostgreSQL).

Some steps stand for several queries. `path_exists` is evaluated for one table
after the other, but directories only appear while a run is active, so the
result of `all()` is that at the moment of one of the calls: the first that
failed, or the last. The count and the assertions of one table are several
queries too, and the source only grows: the frame passes all of them only if
its rows at the time of the first query pass, and it fails only if a row that
is there at the last query is bad; a failure is found by the step at that time
or, for a pass, `Validate` at the time of the last query that looked at the
rows. The uniqueness check cannot fail, since the checked columns are primary
keys. A `start_run` that raises leaves no state at all and is left out.

The watermark 0 stands for an absent row, for the empty dictionary of a
bootstrap, and for the None of a maximum over no rows; the code treats the
three alike (`if not last_value`, `is not None`). Values are compared after a
round trip through `isoformat` with microseconds, which is exact for DATE and
for PostgreSQL's microsecond timestamps.

`Replication.tla` is the abstract promise. `ImplementsReplication` maps
`delivered` to the rows bronze holds (by any run) and `landed` to the existing
directories. The abstract `Vouch` demands that a watermark moves only over
delivered rows, and `Deliver` that a lost directory comes back only complete.

Runs:

* `ingest`: two tables, three runs one at a time, two rows per table, one
  failure or kill, and wipes of bronze at any time (each needs a directory that
  a run has written, so the runs bound them). Three runs are needed for "one
  fails, one repeats it, one relies on the result"; two tables for a run that
  stops between tables; two rows for one below and one above a watermark.
* `ingest_overlap`: two runs interleaved, with two failures or kills, on one
  table with two rows, good or bad. Make starts one container per job (fixed
  `container_name`), but the `glue` shell container can submit another. The
  watermark does move back here; the refinement shows that this only causes
  repeated delivery, never a gap. More tables under overlap are left to the
  theorems below, which need no bound. It also shows that the job implements
  `JobControl`, in particular that a run may go from SUCCEEDED to FAILED (an
  exception after `finish_run` committed) but nowhere else from there, and
  liveness: a run that
  keeps its process gets a final status. Fairness: weak fairness of a run's own
  steps, which `spark-submit` justifies; nothing is assumed of starts, arrivals,
  failures or kills. The leads-to excludes killed runs, which indeed stay STARTED
  for ever.
* `ingest_late_row`, `ingest_unchecked_row`, `ingest_torn_bootstrap`: three
  disagreements between code and text, see `findings`. They are why the safety
  properties are stated under `InOrder` (a new row is strictly later than those
  present, as the rows of `seed-incremental-data.sql` are) and not with
  `EagerDirs` and `Wipes` together.

Deadlock is checked in the run `monitor` only, whose system goes on for ever: in
the others, a system whose runs are all over and whose bounds are reached stops.

Proved in `Ingest_proofs.tla`: `TypeOK` for any constants, and under
`Orderly == InOrder /\ ~(EagerDirs /\ Wipes)` the invariants `WatermarkCovered`
and `SucceededReplicates` and the refinement `ImplementsReplication`, for any
number of tables, runs, rows and mishaps, overlapping or not. None of these is
inductive. The inductive invariant `Backing` says, per run and phase, what
bronze is known to hold: a maximum computed but not yet written is backed once
the save of its table is done, because every row at or below it was in the
source when it was computed and `InOrder` admits no further row there; a table
that is skipped is backed by the watermark the run loaded; and while a
bootstrap is under way, a missing directory belongs to a table whose save
will bring everything. A second invariant accounts for the rows a run has seen.

The other properties rest on invariants of their own. For any constants:
`ImplementsJobControl`, from `Reported` (what the status of a run is in each
phase), `RowsOutDelivered`, from `CountsKept` (a counted row is still in the
source above `eff`, so the later query of the write finds it again), and
`SucceededRunsWereClean`, from `SeenPassed` (a table that was validated had no bad
row the run had seen). For runs one at a time (`~Overlap`):
`WatermarkNeverRegresses`, from `Advancing` (the watermark a run loaded is still
the stored one, and its maximum lies above it), and `DeliveredOnce`, from `Once`
(what two runs have both written lies above the maximum of one of them).

`IngestRunsAreShort` is the part of `RunReported` that the prover reaches: for any
constants, what a run has left to do is at most `6 * NTables + 5` steps, each of
its steps lowers that number, and nothing else raises it, neither an overlapping
run nor an arriving row nor a wipe. What remains for liveness is that the
scheduler lets the run take its steps, which is checked.

## 4. Aggregate

`Aggregate.tla` follows `main()` of `aggregate.py` in the same style. A gold
table is the set of contributions `<<event, run>>` that its additive columns sum
up, which makes "lost" and "counted twice" visible. `ListSilver` fixes the batch
(Spark lists the files once); `MergeRead` is `table_exists` and the read of the
impacted partitions, `OverwritePartitions` and `CreateTable` the commits,
`Upsert` the watermark, from the same batch. The quality checks and the
reconciliation are `Check`; the latter compares sums over one snapshot and
cannot fail. A silver path that does not exist yet raises (`NoSilver`).

* `aggregate`: three runs one at a time, three events over two partitions, three
  mishaps: enough for a run that dies after either commit, one that repeats its
  batch and one that merges into the same partition later. What reaches gold has
  passed the checks, in contrast to ingest, and the job implements `JobControl`
  and `Replication`. The price of the checks is `BadEventStalls`: one bad event in
  silver stops the watermark below it, and no later event ever reaches gold.
  Overlapping runs are in the model but not in this run: lost updates and double
  counting are possible then, since a merge writes back what it read.
* `aggregate_rerun`: the finding: a failure between a gold commit and the
  watermark counts the batch twice in a later run that SUCCEEDED.

Proved in `Aggregate_proofs.tla`: `TypeOK`, `NothingBadInGold` and
`ImplementsJobControl` for any constants, overlapping or not; and under
`Lone == InOrder /\ ~Overlap`, for any number of runs, partitions, events and
mishaps, `WatermarkCounted`, `SucceededCounted`, `SucceededOnce`, `GoldOnlyGrows`,
`CustomerTrailsProduct`, `BadEventStalls` and `ImplementsReplication`.
`NothingBadInGold` rests on `Clean`: what
a merge read and what it is about to write has passed the checks. The others
rest on `Sound`, which says of each run what its place in `main()` has
established: from `list` on it holds the current watermark, because no other run
is active; what it read of the table before a write is what the table still
holds; after each write its batch is in that table; and what a SUCCEEDED run
counted lies at or below the watermark, so no later batch contains it. `InOrder`
is needed for a new event not to slip below a watermark that was already stored.

`BadEventStalls` follows from both: a batch that passed was listed before the bad
event was there, so all of it is earlier. The refinement maps the commit of the
second gold table of a batch to `Deliver` and the upsert to `Vouch`, whose
condition is what `Sound` says of a run that is about to store its watermark.

## 5. Retention

`Retention.tla` models the lambda's loop over the event: `ComputeRange` (the
clock is read once per table), `ListYears` and `ListMonths` (one listing per
call to S3), `Page`, `DeleteBatch`, `PartitionSwept`, `TableSwept`, and
`NextEntry` for entries that raise. `Fail`, `DeleteBatchErrors` and `Kill` are
the failures; `Put` and `Tick` the writers and the clock. Months are (year,
month) pairs and are compared as the code compares them. A file is put once:
Spark never reuses a file name. Partitions whose names are not numbers are
skipped by the code without effect and are left out.

`Expired` is the retention rule of the requirements document, stated without
reference to the code's cutoff: the calendar or fiscal year of the partition
ended at least the retention period ago.

* `retention`: three entries (a fiscal and a calendar policy, and one whose
  policy is invalid), four files around the cutoffs, March to April 2021, two
  mishaps, and liveness. Fairness: the lambda runtime keeps executing, and the
  EventBridge rule keeps invoking. Failures are bounded by `MaxMishaps`: if every
  invocation failed, nothing would ever be deleted.

`EachEntryHandled` says that an invocation that ends by itself has a result for
each entry up to the first malformed one. An entry of bad form (no object, or a
field is missing) raises out of the loop at line 208, loses the results so far
and keeps the entries after it from being handled; the event of the run has
none, the theorem below covers events with any.

Invocations that overlap (a duplicate event) are in the model but in none of
these runs: the safety theorems below cover them, for any number.

Proved in `Retention_proofs.tla`, for any event, objects, clock, batch and page
size, and any number of overlapping invocations: `RangeMeetsRule` (a month lies
before `range_start` exactly when it has expired by the rule), `TypeOK`,
`OnlyExpiredDeleted`, `PromisedGone` and `EachEntryHandled` (from `InTurn`: all
entries before the current one have a result). The first safety property follows from
`Aimed`: what is about to be deleted lies before the cutoff of the current
entry, and that cutoff never lies after the one the clock would give now. The
second follows from `Hunted`: an object that had expired when its entry was
begun is gone, or its year is still to be listed, or its month is to be swept,
and in the month being swept it is in the batch or on a later page. That step
rests on a lemma about pages (`LeastFirst`): all keys after a page are greater
than its last key.

`ExpiredObjectsGo` is liveness, and the prover only reaches what makes it true:
that an invocation cannot go on for ever. `RetentionEachStepDescends` states the
action property of the run `retention`. `RetentionMeasureFalls` puts it in seven
numbers (entries, phases, years, partitions, keys ahead, pages and listed keys
left, the first that differs counting): each step of an invocation lowers them,
and no step of a writer, the clock or another invocation changes them.
`RetentionDescentEnds` says that this order is well founded. The numbers are
finite because only years and months of objects are ever listed
(`RetentionListed`); a new object may lie ahead of a page, but `Object` is finite,
and files put behind the token of a page are not listed again. What the code
relies on for that, and the mutant breaks, is the token of the paginator.

## 6. Schema registry

`Registry.tla` models `schema_registry.py` with its callers: sessions, which
register the schema of a data frame, and runs of `ingest_glue_job.py`, which
hold an object of their own to check their source against.

| code | action |
|---|---|
| `_get_latest_avro_file`, 23-46 | `List`, or `NoVersions` when there is none |
| `_load_avro_definition`, 62-88 | `Load` |
| `register_schema`, 270-292 | `Register` (one put, that may raise after all), `SkipRegister` |
| `read_source_data` of the Glue job | `ReadSource` |
| `process_fail_fast` of the Glue job | `ProcessFailFast` |
| any call that raises without an effect | `Raise` |

A schema is a function from column names to types. Four Spark types and three
Avro types are enough to have a conversion that is not one to one: Avro has no
16-bit integer, so `smallint` comes back as `int`. `Compare` is the comparison
of the code and is what the files record as `changes`. The listing returns the
file with the highest number; an empty bucket cannot be given its first version
by this class, since the constructor raises.

Nothing in the code makes sessions take turns, or makes an object register only
once: of two sessions that listed before either put, the second overwrites the
version of the first, and a second `register_schema` on the same object computes
the same `version` again. Both are in the model: sessions overlap in any way,
and in phase `done`, when a registration has returned, the session may register
again with the object it has. Two history variables, which no action reads, say
what comes of that: `fresh`, who has listed the files since the last
registration, and `overwritten`, what versions said before another file was put
in their place. `Said(v, d)` is that version v says d, or has said it.

* `RegisteredStay`: no version disappears, and the one who changes a version is
  not in `fresh`. A fresh session makes a new version, also beyond v9, whose name
  is greater than that of v10: that the number it adds one to is the highest is
  what the listing must get right.
* `ChangesChain`: there is no gap, and each file records the changes, never none,
  from what the version before it says or has said. The second matters when that
  version is overwritten after the session has loaded it.
* `ContractConsistent`: the version and the definition of an object belong
  together, though others register between the call that lists and the call
  that loads.
* `RegisteredFound`: a schema whose registration returned, with or without a file
  written for it, is what some version says or has said.
* `ImplementsHistory`: as long as nothing is overwritten, each step is one of
  `SchemaHistory`. The listing of an object is its `Open`, though it loads the
  file by a later call, and `Register` is `Append`, though the put is
  unconditional and may raise after it took effect.

So what outdated sessions cost is the content of a version, never a number, and
`overwritten` has it.

* `registry`: two sessions and a job at any time; three schemas, so that a column
  is added and retyped; two calls that raise, enough for a put that took effect
  and a second mishap elsewhere. The oldest version is v9, so that v10 and v11 are
  later as numbers and earlier as names; two sessions reach no further. Two are
  enough for the hard cases: both list before one puts; one opens v10 and then
  sees it overwritten by the object that made it, before it registers v11.
* `registry_gate`: the finding: a frame equal to the contract is rejected.
  `validate_schema` returns nothing, so what follows the gate is dead code and
  not in this model. Nor does the read ever retry: the handler uses the name
  `error` after the except clause that bound it, which raises.

One more disagreement of the code with itself would show behind a repaired gate:
`register_schema` sees a frame with a `smallint` column as unchanged once it has
been registered (it compares what the Avro types come back as), while
`_has_schema_changes` compares the Spark types of the frame and calls it a
mismatch for ever.

Proved in `Registry_proofs.tla`, without a condition on the sessions, for any
sessions, jobs, columns, schemas, versions and mishaps: `TypeOK`,
`RegisteredStay`, `ChangesChain`, `ContractConsistent`, `RegisteredFound` and
`ImplementsHistory`. The inductive invariant is `Held`, which says that the
version of each object is a file, with `Chained`: the three that are invariants,
`Front`, that whoever is in `fresh` holds the highest version, and `Gapless`, that
no number below another is missing. `Front` is why a fresh session overwrites
nothing; `Gapless` is why a registration that overwrites nothing is made from the
highest version, which the refinement needs. `SaidStays` carries what was said
over a registration, and `CompareDecides`, that a comparison without changes
means equal schemas, covers those that write no file.

Two more theorems frame what overwriting can do. `RegistryTurns`: if whoever
registers has listed the files since the last registration (`TakeTurns`, which the
code leaves to its callers), nothing is ever overwritten, and `SchemaHistory` is
implemented for good, with all that follows from it. `RegistryOldestStays`: the
version that was there to begin with is not overwritten in any case.

## 7. The monitor

`Monitor.tla` is the daemon of `monitor.py` with the table it polls and the clock.

| code | action |
|---|---|
| `start_run` | `StartRun` |
| `finish_run`: its transaction begins, commits, or is rolled back | `FinishRun`, `Commit`, `Rollback` |
| `get_conn`, and the transaction of the first query, 123-125 | `Connect` |
| `check_failed_runs`: the query; an alert per row; the end of the loop | `FetchFailed`, `Alert`, `AllAlerted` |
| `check_job_freshness`, one iteration per job | `CheckFreshness` |
| `except psycopg2.OperationalError` | `DatabaseError` |
| any other exception, a stop of the container; `restart: unless-stopped` | `Crash`, `Restart` |
| `time.sleep`, the loop of `main` | `Sleep` (within the step before it), `WakeUp` |

Time is the point here, and it has no end: a timestamp is represented by its
*age*, `Tick` lets all ages grow, and from `Old` on they are not told apart
(`MonitorAssumption` makes `Old` larger than anything the code compares with). So
the state space is finite and liveness is about infinite time. `NOW()` is the
beginning of a transaction, in the update of `finish_run` as in the poll; a run
becomes visible up to `MaxLag` later than its `ended_at`, and a query is
executed up to `MaxDelay` after the `NOW()` it compares with. The freshness check
compares with the clock of the monitor, which is taken to agree with that of
the database. The third check of a poll reads `job_control_dq_metrics`, which
nothing fills, and is left out.

* `NoFailureMissed`: when a poll has gone through its rows, each run that had
  failed before the poll began has been alerted, by this poll or an earlier one.
  The exception is named: runs that had failed when a poll began more than
  `Window - MaxLag` after the last poll that completed. `due` and `risked`
  remember at the beginning of a poll which runs it owes.
* `AlertsBounded`: nothing remembers what was alerted, so each poll of the window
  repeats it; but a run is alerted at most `Window \div Interval + 1` times, and
  once more per error or crash.
* `StaleReported`: a job without a recent success is reported as stale, or
  succeeds again. This is what catches a run that was killed and stays STARTED.
  Fairness: time passes (`Tick`), the monitor executes (`MonitorStep`), its
  container is restarted (`Restart`), and the database decides each update
  (`Commit` or `Rollback`). Nothing is assumed of the jobs. Errors and crashes
  are bounded by `MaxMishaps`: a monitor that always fails reports nothing.

The run `monitor`: two runs of one job, so that alerts of one poll can be
interrupted between them, and a second job that never runs, as `transform`; a
poll per tick, a window of two intervals, so that a run can be alerted by three
polls or be missed by one; a lag and a delay of one; one mishap, in any phase.

Proved in `Monitor_proofs.tla` for all values of the constants: `TypeOK`,
`NoFailureMissed` and `AlertsBounded`. The first rests on `Promise`: a failed run
without an alert, unless exempt, ended at most `MaxLag` before the last complete
poll began, because that poll would have seen it otherwise. The second rests on
`Spaced`: the alerts of a run, less the mishaps, are an interval apart, so their
span is bounded by the age of the run. `MonitorWatchesJobControl` proves that the
runs in `Monitor` do what `JobControl` says, which closes the chain to both jobs.

## 8. The Glue catalog

`Catalog.tla` is `main()` of `store_to_s3.py` from the read of the source frame
on, with one action per call of the catalog, for jobs that overlap while the
schema of the source moves on (`Evolve`) and the database appears.

| code | action |
|---|---|
| `read_parquet`, 524 | `Begin`: schema and rows of the frame are fixed |
| `register_table`: the database; the partition columns | `FindDatabase` |
| `update_table`, or `create_table` when it is not found | `UpdateTable`, `CreateTable` |
| `register_partitions`: database, table, and the loop | `FindDatabaseAgain`, `FindTable`, `RegisterPartitions` |

`register_table` and `register_partitions` return as if all were well when the
database is missing, so a job may commit without having registered anything.
A frame without the partition columns raises where they are selected, in
`register_partitions` too, also when it has no rows: a job gets there when
database and table appear after `register_table` looked for them.
And no partition is ever registered: `_register_partition` calls `path_exists`
of `self.s3_client`, which is a boto3 client; the method belongs to the class
`S3Client`. The first partition therefore ends the job, after the table was
defined, and what follows line 404 is dead code.

* `DefinitionNotOutdated`: of overlapping jobs the last to store its definition
  wins, though it may have read the source first. But once one of them has
  stored its definition, the table is at least as new as the source was when
  the first of them began. It fails for a job that leaves an existing table alone.
* `CommitMeansRegistered`: a job that commits, and began when the database was
  there, has the table defined and no partition left out.

The run `catalog`: three jobs, interchangeable, three versions of the schema of
which the second lacks the partition columns, two failed calls or kills. Three
jobs are needed for a chain of overlaps in which the first is over before the
last begins. Proved in `Catalog_proofs.tla` for any jobs, versions and mishaps:
`TypeOK` and both properties; the first from `Recent` (the frame of a job under
way is at least as new as the floor), the second from `Settles` (where the
database was there, a job past `register_table` has the table defined).

## 9. What is only model-checked, and what is left out

Liveness is beyond the prover and only checked: `RunReported`,
`ExpiredObjectsGo` and `StaleReported`, which need weak fairness, and with it
ENABLED. Of the first two the safety half is proved (`IngestRunsAreShort`,
`RetentionMeasureFalls` with `RetentionDescentEnds`): a run or an invocation has
only finitely many steps to take. For `ExpiredObjectsGo` that is not all: that
invocations are started again and that mishaps end is fairness and a bound. The
third is about a loop without end and has no such measure. Every other property
of the passing runs is proved, for all values of the constants, under the
conditions named above; and a few theorems (`ShortRuns`, `MeasureFalls`, the
consequences of the abstract specifications, `RegistryTurns` and
`RegistryOldestStays`) state more than any run checks.

Bounds, all of them constants: `MaxRows`, `MaxTs`, `MaxEvents`, `MaxMishaps`,
the sets of runs, invocations, objects, sessions, jobs and schemas, `MaxNow`,
and `MaxVersion`. They bound TLC only; the proofs hold for every value. Of the
constants of `Monitor`, `MaxLag` and `MaxDelay` are assumptions about the
database, not bounds. Runs, invocations and jobs are interchangeable, so safety
runs use symmetry; the liveness runs do not.

### Not modelled

* The transform job, which is not in the repository, and so the chain through
  all three jobs. `Aggregate` has its effect as an external action.
* The orchestration: sequential shell commands. One job at a time, which the
  fixed container names bring about, is the constant `Overlap`.
* Dead code: the Glue ingest job after its gate (`ingest_glue_job.py:87`, with the
  new watermark that would never be stored), its retry, partition registration
  after `store_to_s3.py:404`, the partitioned writes, `log_dq_metric`, and with it the
  monitor's third check.
* The counts in the results of the retention lambda (a table that fails half way
  reports none of what it deleted), and `rows_in` of the runs.
* The derived columns of the gold tables, and the distinct-count columns, which
  sum the distinct counts of batches.
* The re-run of the mock seed, which truncates the source under the watermarks:
  rows with older timestamps are then skipped, as in `ingest_late_row`.
* The wipe of MinIO under existing Hive tables (every later aggregate run raises).
* The uniqueness check and the checks nothing calls; the configuration of the
  platform services; `generate_fake_data.py` and `move_files.py`, which keep no
  state.

To check: `tlc -config MCIngest.cfg MCIngest`, likewise for the other
configurations, and `tlapm Ingest_proofs.tla` and its like. Each property has a mutant: a
definition named after the one it replaces (`Save_UpToMax` for `Save`) with a
plausible bug, under which TLC must find the property violated.
