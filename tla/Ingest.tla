------------------------------- MODULE Ingest -------------------------------
(***************************************************************************)
(* The incremental ingest job (src/data/glue/scripts/ingest.py) with the   *)
(* two tables of JobStateStore it writes, job_control_runs and             *)
(* job_control_watermarks (src/data/glue/scripts/state_store.py).          *)
(*                                                                         *)
(* The source tables keep growing while a run executes, and the run holds  *)
(* no snapshot: customers_df, products_df and orders_df are lazy JDBC      *)
(* frames, so every count, max and write queries the source again.  Every  *)
(* such query is a step of its own here, and so is every statement on the  *)
(* state store, each of which commits on a connection of its own.  A run   *)
(* may be killed between any two steps, and any statement of the try block *)
(* may raise, before or after it took effect.                              *)
(*                                                                         *)
(* A timestamp is a number; 0 is "no watermark" (and the maximum of no     *)
(* rows), which incremental_dbtable treats as "select everything".         *)
(***************************************************************************)
EXTENDS Naturals, FiniteSets

CONSTANTS NTables,    \* the tables, in the order of the code: customers, ...
          DirtyTable, \* the tables whose rows can fail the quality checks
          Runs,       \* the run ids that start_run can draw
          MaxRows,    \* bound: rows per source table
          MaxTs,      \* bound: timestamps
          MaxMishaps, \* bound: kills and exceptions in a behaviour
          InOrder,    \* TRUE: a new row is later than all rows of its table
          Overlap,    \* TRUE: a job may start while another one runs
          EagerDirs,  \* TRUE: a write creates its directory before it commits
          Wipes       \* TRUE: the object store may be emptied

Table == 1 .. NTables

ASSUME IngestAssumption ==
    /\ NTables \in Nat \ {0} /\ MaxRows \in Nat /\ MaxTs \in Nat
    /\ MaxMishaps \in Nat
    /\ DirtyTable \subseteq Table
    /\ {InOrder, Overlap, EagerDirs, Wipes} \subseteq BOOLEAN

VARIABLES
    source,    \* source[t]: the rows of the PostgreSQL table t
    bronze,    \* bronze[t]: pairs <<row, run that appended it>>
    paths,     \* the tables t for which path_exists(bronze/t)
    watermark, \* job_control_watermarks for job "ingest"; 0 when absent
    status,    \* job_control_runs.status; "none" before start_run
    pc,        \* where the run is in main()
    tbl,       \* the table its current statement is about
    eff,       \* watermark, then effective_watermark, of the run
    maxv,      \* max_customers_ts, max_products_ts, max_orders_ts
    counted,   \* the rows counted by lines 155-157; rows_in is their number
    seen,      \* history: the source when the run started
    mishaps    \* how many kills and exceptions happened

stores == <<bronze, paths, watermark, status>>
locals == <<eff, maxv, counted, seen>>
vars == <<source, stores, pc, tbl, locals, mishaps>>

Row == [id : 1 .. MaxRows, ts : 1 .. MaxTs, ok : BOOLEAN]
Stamp == 0 .. MaxTs

\* The statements of the try block, each of which may raise.
TryPhase == {"load", "paths", "validate", "max", "count", "save", "upsert",
             "finish"}
ActivePhase == TryPhase \cup {"except"}
Phase == ActivePhase \cup {"idle", "done", "dead"}

Active(r) == pc[r] \in ActivePhase
EmptyTables == [t \in Table |-> {}]
NoStamps == [t \in Table |-> 0]

TypeOK ==
    /\ source \in [Table -> SUBSET Row]
    /\ bronze \in [Table -> SUBSET (Row \X Runs)]
    /\ paths \subseteq Table
    /\ watermark \in [Table -> Stamp]
    /\ status \in [Runs -> {"none", "STARTED", "SUCCEEDED", "FAILED"}]
    /\ pc \in [Runs -> Phase]
    /\ tbl \in [Runs -> Table]
    /\ eff \in [Runs -> [Table -> Stamp]]
    /\ maxv \in [Runs -> [Table -> Stamp]]
    /\ counted \in [Runs -> [Table -> SUBSET Row]]
    /\ seen \in [Runs -> [Table -> SUBSET Row]]
    /\ mishaps \in 0 .. MaxMishaps

Init ==
    /\ source = EmptyTables /\ bronze = EmptyTables
    /\ paths = {} /\ watermark = NoStamps
    /\ status = [r \in Runs |-> "none"]
    /\ pc = [r \in Runs |-> "idle"] /\ tbl = [r \in Runs |-> 1]
    /\ eff = [r \in Runs |-> NoStamps] /\ maxv = [r \in Runs |-> NoStamps]
    /\ counted = [r \in Runs |-> EmptyTables]
    /\ seen = [r \in Runs |-> EmptyTables]
    /\ mishaps = 0

-----------------------------------------------------------------------------
\* Control flow of one run.

Goto(r, phase) == pc' = [pc EXCEPT ![r] = phase] /\ UNCHANGED tbl

\* Fault: the loop over the tables runs one too far.
NextTable_Overrun(r, phase) ==
    IF tbl[r] > NTables
    THEN pc' = [pc EXCEPT ![r] = phase] /\ tbl' = [tbl EXCEPT ![r] = 1]
    ELSE tbl' = [tbl EXCEPT ![r] = @ + 1] /\ UNCHANGED pc

\* The next table of the same phase, or the first table of the next one.
NextTable(r, phase) ==
    IF tbl[r] = NTables
    THEN pc' = [pc EXCEPT ![r] = phase] /\ tbl' = [tbl EXCEPT ![r] = 1]
    ELSE tbl' = [tbl EXCEPT ![r] = @ + 1] /\ UNCHANGED pc

Mishap == mishaps < MaxMishaps /\ mishaps' = mishaps + 1

\* The statement took effect: it returns, or it raises after all.
Returns(r, phase) ==
    \/ NextTable(r, phase) /\ UNCHANGED mishaps
    \/ Goto(r, "except") /\ Mishap

\* Fault: ">=" in incremental_dbtable.
Batch_Inclusive(r, t) == {row \in source[t] : row.ts >= eff[r][t]}

\* What the frame of table t yields when it is evaluated now.
Batch(r, t) == {row \in source[t] : row.ts > eff[r][t]}

StartRun(r) ==
    /\ pc[r] = "idle"
    /\ Overlap \/ \A q \in Runs : ~Active(q)
    /\ Goto(r, "load")
    /\ status' = [status EXCEPT ![r] = "STARTED"]
    /\ seen' = [seen EXCEPT ![r] = source]
    /\ UNCHANGED <<source, bronze, paths, watermark, eff, maxv, counted, mishaps>>

LoadWatermarks(r) ==
    /\ pc[r] = "load"
    /\ Goto(r, "paths")
    /\ eff' = [eff EXCEPT ![r] = watermark]
    /\ UNCHANGED <<source, stores, maxv, counted, seen, mishaps>>

\* Fault: any() in place of all() around path_exists.
CheckPaths_Any(r) ==
    /\ pc[r] = "paths"
    /\ Goto(r, "validate")
    /\ eff' = [eff EXCEPT ![r] = IF paths # {} THEN @ ELSE NoStamps]
    /\ UNCHANGED <<source, stores, maxv, counted, seen, mishaps>>

\* One missing directory is enough to reload every table from scratch.
CheckPaths(r) ==
    /\ pc[r] = "paths"
    /\ Goto(r, "validate")
    /\ eff' = [eff EXCEPT ![r] = IF paths = Table THEN @ ELSE NoStamps]
    /\ UNCHANGED <<source, stores, maxv, counted, seen, mishaps>>

\* Fault: only the first table is checked.
Validate_FirstOnly(r) ==
    /\ pc[r] = "validate"
    /\ Goto(r, IF \A row \in Batch(r, tbl[r]) : row.ok THEN "max" ELSE "except")
    /\ UNCHANGED <<source, stores, locals, mishaps>>

\* An empty frame has nothing to check; a bad row raises DQError.
Validate(r) ==
    /\ pc[r] = "validate"
    /\ IF \A row \in Batch(r, tbl[r]) : row.ok
       THEN NextTable(r, "max")
       ELSE Goto(r, "except")
    /\ UNCHANGED <<source, stores, locals, mishaps>>

IsLatest(m, S) ==
    \/ S = {} /\ m = 0
    \/ \E row \in S : row.ts = m /\ \A other \in S : other.ts <= m

ComputeMax(r) ==
    /\ pc[r] = "max"
    /\ NextTable(r, "count")
    /\ \E m \in Stamp :
          /\ IsLatest(m, Batch(r, tbl[r]))
          /\ maxv' = [maxv EXCEPT ![r][tbl[r]] = m]
    /\ UNCHANGED <<source, stores, eff, counted, seen, mishaps>>

\* Fault: rows_in is the count of the last table, not the sum.
CountRows_Last(r) ==
    /\ pc[r] = "count"
    /\ counted' = [counted EXCEPT ![r][tbl[r]] = Batch(r, tbl[r])]
    /\ NextTable(r, IF counted'[r][tbl[r]] = {} THEN "finish" ELSE "save")
    /\ UNCHANGED <<source, stores, eff, maxv, seen, mishaps>>

\* Fault: the early return forgets finish_run.
CountRows_Silent(r) ==
    /\ pc[r] = "count"
    /\ counted' = [counted EXCEPT ![r][tbl[r]] = Batch(r, tbl[r])]
    /\ NextTable(r, IF counted'[r] = EmptyTables THEN "done" ELSE "save")
    /\ UNCHANGED <<source, stores, eff, maxv, seen, mishaps>>

\* With nothing counted in any table the run ends without writing.
CountRows(r) ==
    /\ pc[r] = "count"
    /\ counted' = [counted EXCEPT ![r][tbl[r]] = Batch(r, tbl[r])]
    /\ NextTable(r, IF counted'[r] = EmptyTables THEN "finish" ELSE "save")
    /\ UNCHANGED <<source, stores, eff, maxv, seen, mishaps>>

\* The output committer may create bronze/t, with its _temporary directory,
\* long before a row is in it; path_exists sees that as well.
OpenSave(r) ==
    /\ EagerDirs /\ pc[r] = "save" /\ tbl[r] \notin paths
    /\ paths' = paths \cup {tbl[r]}
    /\ UNCHANGED <<source, bronze, watermark, status, pc, tbl, locals, mishaps>>

\* Fault: the write is cut off at the maximum that was computed before.
Save_UpToMax(r) ==
    /\ pc[r] = "save"
    /\ bronze' = [bronze EXCEPT ![tbl[r]] =
          @ \cup ({row \in Batch(r, tbl[r]) : row.ts <= maxv[r][tbl[r]]} \X {r})]
    /\ paths' = paths \cup {tbl[r]}
    /\ Returns(r, "upsert")
    /\ UNCHANGED <<source, watermark, status, locals>>

\* The frame is evaluated once more, for the write itself.
Save(r) ==
    /\ pc[r] = "save"
    /\ bronze' = [bronze EXCEPT ![tbl[r]] = @ \cup (Batch(r, tbl[r]) \X {r})]
    /\ paths' = paths \cup {tbl[r]}
    /\ Returns(r, "upsert")
    /\ UNCHANGED <<source, watermark, status, locals>>

\* Fault: the None guard is missing.
Upsert_NoGuard(r) ==
    /\ pc[r] = "upsert"
    /\ watermark' = [watermark EXCEPT ![tbl[r]] = maxv[r][tbl[r]]]
    /\ Returns(r, "finish")
    /\ UNCHANGED <<source, bronze, paths, status, locals>>

\* Fault: the maximum is taken when the watermark is stored.
Upsert_Late(r) ==
    /\ pc[r] = "upsert"
    /\ \E m \in Stamp : /\ IsLatest(m, source[tbl[r]])
                        /\ watermark' = [watermark EXCEPT ![tbl[r]] = m]
    /\ Returns(r, "finish")
    /\ UNCHANGED <<source, bronze, paths, status, locals>>

Upsert(r) ==
    /\ pc[r] = "upsert"
    /\ watermark' = IF maxv[r][tbl[r]] = 0 THEN watermark
                    ELSE [watermark EXCEPT ![tbl[r]] = maxv[r][tbl[r]]]
    /\ Returns(r, "finish")
    /\ UNCHANGED <<source, bronze, paths, status, locals>>

\* The success update is inside the try block: when it raises after it took
\* effect, the except branch still turns the run into a failed one.
FinishSucceeded(r) ==
    /\ pc[r] = "finish"
    /\ status' = [status EXCEPT ![r] = "SUCCEEDED"]
    /\ \/ Goto(r, "done") /\ UNCHANGED mishaps
       \/ Goto(r, "except") /\ Mishap
    /\ UNCHANGED <<source, bronze, paths, watermark, locals>>

\* The variables of main() go with the process; those of a run that
\* succeeded are kept as history.
Forget(r) ==
    /\ eff' = [eff EXCEPT ![r] = NoStamps]
    /\ maxv' = [maxv EXCEPT ![r] = NoStamps]
    /\ counted' = [counted EXCEPT ![r] = EmptyTables]
    /\ seen' = [seen EXCEPT ![r] = EmptyTables]

\* The run's process is over.
End(r, phase) == /\ pc' = [pc EXCEPT ![r] = phase]
                 /\ tbl' = [tbl EXCEPT ![r] = 1]

\* Fault: a failed run is retried under its own run id.
FinishFailed_Retry(r) ==
    /\ pc[r] = "except"
    /\ status' = [status EXCEPT ![r] = "FAILED"]
    /\ pc' = [pc EXCEPT ![r] = "load"] /\ tbl' = [tbl EXCEPT ![r] = 1]
    /\ Forget(r)
    /\ UNCHANGED <<source, bronze, paths, watermark, mishaps>>

FinishFailed(r) ==
    /\ pc[r] = "except"
    /\ status' = [status EXCEPT ![r] = "FAILED"]
    /\ End(r, "done") /\ Forget(r)
    /\ UNCHANGED <<source, bronze, paths, watermark, mishaps>>

-----------------------------------------------------------------------------
\* What can go wrong, and the world around the job.

\* A statement of the try block raises without having had any effect.
Raise(r) ==
    /\ pc[r] \in TryPhase
    /\ Goto(r, "except") /\ Mishap
    /\ UNCHANGED <<source, stores, locals>>

\* The process is killed, or the update of the except branch raises too:
\* the run stays STARTED in job_control_runs.
Crash(r) ==
    /\ Active(r)
    /\ End(r, "dead") /\ Mishap /\ Forget(r)
    /\ UNCHANGED <<source, stores>>

\* A row is committed to the source; ids are drawn from an identity column.
Arrive(t) ==
    /\ \E row \in Row :
          /\ {old.id : old \in source[t]} = 1 .. (row.id - 1)
          /\ row.ok \/ t \in DirtyTable
          /\ InOrder => \A old \in source[t] : old.ts < row.ts
          /\ source' = [source EXCEPT ![t] = @ \cup {row}]
    /\ UNCHANGED <<stores, pc, tbl, locals, mishaps>>

\* The containers are taken down and the MinIO data directory is removed;
\* PostgreSQL, and with it the watermarks, is kept.
WipeBronze ==
    /\ Wipes /\ \A r \in Runs : ~Active(r)
    /\ paths # {}
    /\ bronze' = EmptyTables /\ paths' = {}
    /\ seen' = [r \in Runs |-> EmptyTables]
    /\ UNCHANGED <<source, watermark, status, pc, tbl, eff, maxv, counted, mishaps>>

RunStep(r) ==
    \/ LoadWatermarks(r) \/ CheckPaths(r) \/ Validate(r) \/ ComputeMax(r)
    \/ CountRows(r) \/ OpenSave(r) \/ Save(r) \/ Upsert(r)
    \/ FinishSucceeded(r) \/ FinishFailed(r)

Next ==
    \/ \E r \in Runs : StartRun(r) \/ RunStep(r)
    \/ \E r \in Runs : Raise(r) \/ Crash(r)
    \/ \E t \in Table : Arrive(t)
    \/ WipeBronze

Spec == Init /\ [][Next]_vars

\* spark-submit keeps executing the script: a run that can take its next
\* step takes it.  Nothing is assumed of starts, arrivals or failures.
FairSpec == Spec /\ \A r \in Runs : WF_vars(RunStep(r))

-----------------------------------------------------------------------------
\* Properties.

Delivered(t) == {row \in Row : \E r \in Runs : <<row, r>> \in bronze[t]}
Covered(t, m) == \A row \in source[t] : row.ts <= m => row \in Delivered(t)

\* A stored watermark is a true statement about bronze: as long as the
\* directory of a table exists, every source row at or below its watermark
\* is in it, whatever runs overlapped, died, raised or were repeated.  The
\* strict ">" of incremental_dbtable never looks at those rows again.
WatermarkCovered == \A t \in paths : Covered(t, watermark[t])

\* A run recorded as SUCCEEDED has replicated every row that was in the
\* source when it started, also when it counted no new rows and wrote
\* nothing (lines 161-164): the rows it skipped were delivered before.
SucceededReplicates ==
    \A r \in Runs : status[r] = "SUCCEEDED" =>
        \A t \in Table : seen[r][t] \subseteq Delivered(t)

\* One bad row holds back the whole job: no run succeeds while its batch
\* has a bad row, in any of the tables, that was there when it started.
SucceededRunsWereClean ==
    \A r \in Runs : status[r] = "SUCCEEDED" =>
        \A t \in Table : \A row \in seen[r][t] : row.ts > eff[r][t] => row.ok

\* Jobs that run one at a time deliver exactly once below their maxima: two
\* successful runs have a row in common only if it arrived after one of
\* them had computed its maximum (line 135).
DeliveredOnce ==
    \A t \in Table : \A r, q \in Runs : \A row \in source[t] :
        /\ r # q /\ status[r] = "SUCCEEDED" /\ status[q] = "SUCCEEDED"
        /\ <<row, r>> \in bronze[t] /\ <<row, q>> \in bronze[t]
        => row.ts > maxv[r][t] \/ row.ts > maxv[q][t]

\* Jobs that run one at a time never move a watermark back, although
\* upsert_watermark overwrites it unconditionally; not even the full reload
\* after the object store was emptied does.
WatermarkNeverRegresses ==
    [][\A t \in Table : watermark[t] <= watermark'[t]]_vars

\* The rows_out of a run, which finish_run stores, was counted before the
\* writes and is not exact: rows that arrive in between are written as well.
\* But it never promises too much: when a run is recorded as SUCCEEDED,
\* every row it counted has been appended, under its own run.
RowsOutDelivered ==
    [][\A r \in Runs : status[r] # "SUCCEEDED" /\ status'[r] = "SUCCEEDED" =>
          \A t \in Table : counted[r][t] \X {r} \subseteq bronze'[t]]_vars

\* A run whose process is not killed gets a final status.
RunReported ==
    \A r \in Runs : status[r] = "STARTED" ~> \/ status[r] # "STARTED"
                                             \/ pc[r] = "dead"

\* The job implements the promise: bronze is a replica that only ever grows
\* by source rows, and watermarks move only over delivered rows.
Replica == INSTANCE Replication WITH
    delivered <- [t \in Table |-> Delivered(t)], landed <- paths
ImplementsReplication == Replica!Spec

\* To whoever reads job_control_runs, the monitor for one, the job's runs
\* behave as JobControl says.
Control == INSTANCE JobControl
ImplementsJobControl == Control!Spec

\* The quality checks guard the watermark: a row at or below the watermark
\* passed them ("bronze_products", "bronze_orders").
WatermarkVouches ==
    \A t \in Table : \A row \in source[t] : row.ts <= watermark[t] => row.ok
=============================================================================
