----------------------------- MODULE Aggregate -----------------------------
(***************************************************************************)
(* The aggregate job (src/data/glue/scripts/aggregate.py): it merges the   *)
(* silver events above its watermark into two gold Iceberg tables and then *)
(* moves the watermark.                                                    *)
(*                                                                         *)
(* Unlike ingest, a run works on a snapshot: spark.read.parquet lists the  *)
(* silver files once, so every later use of silver_df sees the same        *)
(* events.  The two gold tables and the watermark are three separate       *)
(* commits.  overwritePartitions is atomic, but what it writes was read    *)
(* from the table before, so reading and writing are two steps.            *)
(*                                                                         *)
(* A gold table is the set of contributions <<event, run>> that its        *)
(* additive columns (event_count, units, gross_revenue) sum up: an event   *)
(* that two runs contributed is counted twice.                             *)
(***************************************************************************)
EXTENDS Naturals, FiniteSets

CONSTANTS Runs,       \* the run ids that start_run can draw
          Parts,      \* the year/month partitions
          BadEvents,  \* TRUE: silver may hold events that fail the checks
          MaxEvents,  \* bound: silver events
          MaxMishaps, \* bound: kills and exceptions in a behaviour
          InOrder,    \* TRUE: new events are later than all events present
          Overlap     \* TRUE: a job may start while another one runs

ASSUME AggregateAssumption ==
    /\ MaxEvents \in Nat /\ MaxMishaps \in Nat
    /\ {BadEvents, InOrder, Overlap} \subseteq BOOLEAN

VARIABLES
    silver,    \* the events under silver/events
    gold,      \* gold[g]: the contributions in gold table g
    created,   \* the gold tables for which table_exists
    watermark, \* job_control_watermarks for "aggregate"; 0 when absent
    status,    \* job_control_runs.status; "none" before start_run
    pc,        \* where the run is in main()
    tab,       \* the gold table the run is merging into
    last,      \* last_silver_transform_ts, 0 when absent
    batch,     \* silver_df: the listed events above last
    exists,    \* what table_exists returned for tab
    base,      \* the existing rows of the impacted partitions, as read
    mishaps    \* how many kills and exceptions happened

stores == <<gold, created, watermark, status>>
locals == <<tab, last, batch, exists, base>>
vars == <<silver, stores, pc, locals, mishaps>>

\* gold.product_metrics is merged first, then gold.customer_metrics.
Product == 1
Customer == 2
GoldTable == {Product, Customer}

Event == [id : 1 .. MaxEvents, ts : 1 .. MaxEvents, part : Parts, ok : BOOLEAN]
Stamp == 0 .. MaxEvents

TryPhase == {"load", "list", "check", "merge", "write", "upsert", "finish"}
ActivePhase == TryPhase \cup {"except"}
Phase == ActivePhase \cup {"idle", "done", "dead"}
Active(r) == pc[r] \in ActivePhase

TypeOK ==
    /\ silver \subseteq Event
    /\ gold \in [GoldTable -> SUBSET (Event \X Runs)]
    /\ created \subseteq GoldTable
    /\ watermark \in Stamp
    /\ status \in [Runs -> {"none", "STARTED", "SUCCEEDED", "FAILED"}]
    /\ pc \in [Runs -> Phase]
    /\ tab \in [Runs -> GoldTable]
    /\ last \in [Runs -> Stamp]
    /\ batch \in [Runs -> SUBSET Event]
    /\ exists \in [Runs -> BOOLEAN]
    /\ base \in [Runs -> SUBSET (Event \X Runs)]
    /\ mishaps \in 0 .. MaxMishaps

Init ==
    /\ silver = {}
    /\ gold = [g \in GoldTable |-> {}] /\ created = {}
    /\ watermark = 0
    /\ status = [r \in Runs |-> "none"]
    /\ pc = [r \in Runs |-> "idle"] /\ tab = [r \in Runs |-> Product]
    /\ last = [r \in Runs |-> 0]
    /\ batch = [r \in Runs |-> {}]
    /\ exists = [r \in Runs |-> FALSE] /\ base = [r \in Runs |-> {}]
    /\ mishaps = 0

-----------------------------------------------------------------------------
Goto(r, phase) == pc' = [pc EXCEPT ![r] = phase]

Mishap == mishaps < MaxMishaps /\ mishaps' = mishaps + 1

\* The statement took effect: it returns, or it raises after all.
Returns(r, phase) == \/ Goto(r, phase) /\ UNCHANGED mishaps
                     \/ Goto(r, "except") /\ Mishap

Above(ts) == {e \in silver : e.ts > ts}
Impacted(r) == {e.part : e \in batch[r]}

StartRun(r) ==
    /\ pc[r] = "idle"
    /\ Overlap \/ \A q \in Runs : ~Active(q)
    /\ Goto(r, "load")
    /\ status' = [status EXCEPT ![r] = "STARTED"]
    /\ UNCHANGED <<silver, gold, created, watermark, locals, mishaps>>

LoadWatermark(r) ==
    /\ pc[r] = "load"
    /\ Goto(r, "list")
    /\ last' = [last EXCEPT ![r] = watermark]
    /\ UNCHANGED <<silver, stores, tab, batch, exists, base, mishaps>>

\* Fault: ">=" on transform_ts.
ListSilver_Inclusive(r) ==
    /\ pc[r] = "list"
    /\ batch' = [batch EXCEPT ![r] = {e \in silver : e.ts >= last[r]}]
    /\ Goto(r, IF batch'[r] = {} THEN "finish" ELSE "check")
    /\ UNCHANGED <<silver, stores, tab, last, exists, base, mishaps>>

\* Without new events the run ends here, as succeeded.
ListSilver(r) ==
    /\ pc[r] = "list"
    /\ batch' = [batch EXCEPT ![r] = Above(last[r])]
    /\ Goto(r, IF batch'[r] = {} THEN "finish" ELSE "check")
    /\ UNCHANGED <<silver, stores, tab, last, exists, base, mishaps>>

\* Before transform ever ran there is no silver/events to read.
NoSilver(r) ==
    /\ pc[r] = "list" /\ silver = {}
    /\ Goto(r, "except")
    /\ UNCHANGED <<silver, stores, locals, mishaps>>

\* Fault: events that fail the checks are left out instead.
Check_Drops(r) ==
    /\ pc[r] = "check"
    /\ Goto(r, "merge")
    /\ batch' = [batch EXCEPT ![r] = {e \in @ : e.ok}]
    /\ UNCHANGED <<silver, stores, tab, last, exists, base, mishaps>>

\* The quality checks.  The reconciliation of lines 159-180 compares sums
\* over the same snapshot and cannot fail.
Check(r) ==
    /\ pc[r] = "check"
    /\ Goto(r, IF \A e \in batch[r] : e.ok THEN "merge" ELSE "except")
    /\ UNCHANGED <<silver, stores, locals, mishaps>>

\* table_exists, and what the merge reads of the impacted partitions.
MergeRead(r) ==
    /\ pc[r] = "merge"
    /\ Goto(r, "write")
    /\ exists' = [exists EXCEPT ![r] = tab[r] \in created]
    /\ base' = [base EXCEPT ![r] = {c \in gold[tab[r]] : c[1].part \in Impacted(r)}]
    /\ UNCHANGED <<silver, stores, tab, last, batch, mishaps>>

\* Fault: the position in the list of tables runs one too far.
AfterWrite_Overrun(r) ==
    Returns(r, IF tab[r] = Product THEN "merge" ELSE "upsert")
      /\ tab' = [tab EXCEPT ![r] = @ + 1]

\* Fault: both tables are not written before the watermark is stored.
AfterWrite_ProductOnly(r) == Returns(r, "upsert") /\ UNCHANGED tab

\* The next table, or on to the watermark.
AfterWrite(r) ==
    IF tab[r] = Product
    THEN Returns(r, "merge") /\ tab' = [tab EXCEPT ![r] = Customer]
    ELSE Returns(r, "upsert") /\ UNCHANGED tab

\* Fault: the delta alone is written over the impacted partitions.
Overwritten_Delta(r) ==
    {c \in gold[tab[r]] : c[1].part \notin Impacted(r)} \cup (batch[r] \X {r})

\* Fault: silver is read again for the write, as a lazy query would.
Overwritten_Requery(r) ==
    {c \in gold[tab[r]] : c[1].part \notin Impacted(r)}
      \cup base[r] \cup (Above(last[r]) \X {r})

\* overwritePartitions replaces the impacted partitions by the sums of what
\* was read and of the new events; the other partitions stay.
Overwritten(r) ==
    {c \in gold[tab[r]] : c[1].part \notin Impacted(r)}
      \cup base[r] \cup (batch[r] \X {r})

OverwritePartitions(r) ==
    /\ pc[r] = "write" /\ exists[r]
    /\ gold' = [gold EXCEPT ![tab[r]] = Overwritten(r)]
    /\ AfterWrite(r)
    /\ UNCHANGED <<silver, created, watermark, status, last, batch, exists, base>>

\* create() raises when another run has created the table meanwhile.
CreateTable(r) ==
    /\ pc[r] = "write" /\ ~exists[r]
    /\ IF tab[r] \in created
       THEN Goto(r, "except") /\ UNCHANGED <<gold, created, tab, mishaps>>
       ELSE /\ gold' = [gold EXCEPT ![tab[r]] = batch[r] \X {r}]
            /\ created' = created \cup {tab[r]}
            /\ AfterWrite(r)
    /\ UNCHANGED <<silver, watermark, status, last, batch, exists, base>>

IsLatest(m, S) == \E e \in S : e.ts = m /\ \A other \in S : other.ts <= m

\* Fault: the maximum is taken from silver as it is now.
Upsert_Late(r) ==
    /\ pc[r] = "upsert"
    /\ \E m \in Stamp : IsLatest(m, silver) /\ watermark' = m
    /\ Returns(r, "finish")
    /\ UNCHANGED <<silver, gold, created, status, locals>>

\* Only now, after both tables, is the batch marked as done.
Upsert(r) ==
    /\ pc[r] = "upsert"
    /\ \E m \in Stamp : IsLatest(m, batch[r]) /\ watermark' = m
    /\ Returns(r, "finish")
    /\ UNCHANGED <<silver, gold, created, status, locals>>

FinishSucceeded(r) ==
    /\ pc[r] = "finish"
    /\ status' = [status EXCEPT ![r] = "SUCCEEDED"]
    /\ Returns(r, "done")
    /\ UNCHANGED <<silver, gold, created, watermark, locals>>

\* The run's process is over; so are the variables of main().
End(r, phase) ==
    /\ Goto(r, phase)
    /\ tab' = [tab EXCEPT ![r] = Product] /\ last' = [last EXCEPT ![r] = 0]
    /\ batch' = [batch EXCEPT ![r] = {}]
    /\ exists' = [exists EXCEPT ![r] = FALSE] /\ base' = [base EXCEPT ![r] = {}]

\* Fault: a failed run is retried under its own run id.
FinishFailed_Retry(r) ==
    /\ pc[r] = "except"
    /\ status' = [status EXCEPT ![r] = "FAILED"]
    /\ End(r, "load")
    /\ UNCHANGED <<silver, gold, created, watermark, mishaps>>

FinishFailed(r) ==
    /\ pc[r] = "except"
    /\ status' = [status EXCEPT ![r] = "FAILED"]
    /\ End(r, "done")
    /\ UNCHANGED <<silver, gold, created, watermark, mishaps>>

\* A statement of the try block raises without having had any effect.
Raise(r) ==
    /\ pc[r] \in TryPhase
    /\ Goto(r, "except") /\ Mishap
    /\ UNCHANGED <<silver, stores, locals>>

\* The process is killed, or the update of the except branch raises too.
Crash(r) ==
    /\ Active(r)
    /\ End(r, "dead") /\ Mishap
    /\ UNCHANGED <<silver, stores>>

\* The transform job appends an event.
Arrive ==
    /\ \E e \in Event :
          /\ {old.id : old \in silver} = 1 .. (e.id - 1)
          /\ e.ok \/ BadEvents
          /\ InOrder => \A old \in silver : old.ts < e.ts
          /\ silver' = silver \cup {e}
    /\ UNCHANGED <<stores, pc, locals, mishaps>>

RunStep(r) ==
    \/ LoadWatermark(r) \/ ListSilver(r) \/ NoSilver(r) \/ Check(r)
    \/ MergeRead(r) \/ OverwritePartitions(r) \/ CreateTable(r)
    \/ Upsert(r) \/ FinishSucceeded(r) \/ FinishFailed(r)

Next ==
    \/ \E r \in Runs : StartRun(r) \/ RunStep(r) \/ Raise(r) \/ Crash(r)
    \/ Arrive

Spec == Init /\ [][Next]_vars

-----------------------------------------------------------------------------
\* Properties.

Contributed(g, e) == \E r \in Runs : <<e, r>> \in gold[g]

\* Jobs that run one at a time lose no event: what the watermark excludes
\* from later runs is counted in both gold tables, whatever runs died or
\* raised between the three commits.
WatermarkCounted ==
    \A e \in silver : e.ts <= watermark => \A g \in GoldTable : Contributed(g, e)

\* What a run recorded as SUCCEEDED listed stays in both gold tables: later
\* merges into the same partitions keep it.
SucceededCounted ==
    \A r \in Runs : status[r] = "SUCCEEDED" =>
        \A g \in GoldTable : batch[r] \X {r} \subseteq gold[g]

\* An event is counted twice only by a run that did not succeed: no two
\* SUCCEEDED runs contribute the same event to a gold table.
SucceededOnce ==
    \A r, q \in Runs : \A g \in GoldTable : \A e \in silver :
        /\ r # q /\ status[r] = "SUCCEEDED" /\ status[q] = "SUCCEEDED"
        => ~(<<e, r>> \in gold[g] /\ <<e, q>> \in gold[g])

\* The customer metrics never count what the product metrics do not, which
\* are merged first.
CustomerTrailsProduct == gold[Customer] \subseteq gold[Product]

\* Whatever is in a gold table passed the checks, even when runs overlap and
\* silver grows meanwhile: checks and merges use the same snapshot.
NothingBadInGold == \A g \in GoldTable : \A c \in gold[g] : c[1].ok

\* One event that fails the checks holds the job up for good: the watermark
\* never passes it, and nothing later than it ever reaches a gold table.
BadEventStalls ==
    \A bad \in silver : ~bad.ok =>
        /\ watermark < bad.ts
        /\ \A g \in GoldTable : \A c \in gold[g] : c[1].ts < bad.ts

\* A merge never loses what is in a gold table, and the watermark never
\* moves back, as long as jobs run one at a time.
GoldOnlyGrows ==
    [][/\ \A g \in GoldTable : gold[g] \subseteq gold'[g]
       /\ watermark <= watermark']_vars

\* To whoever reads job_control_runs, the monitor for one, the job's runs
\* behave as JobControl says.
Control == INSTANCE JobControl
ImplementsJobControl == Control!Spec

\* The job replicates silver to gold as ingest replicates the source: an
\* event is delivered when both gold tables count it, and the watermark is
\* moved only over delivered events, though the three are separate commits.
Counted == {e \in Event : \A g \in GoldTable : Contributed(g, e)}

Replica == INSTANCE Replication
             WITH Table <- {"gold"}, Row <- Event,
                  source <- [t \in {"gold"} |-> silver],
                  delivered <- [t \in {"gold"} |-> Counted],
                  landed <- IF created = GoldTable THEN {"gold"} ELSE {},
                  watermark <- [t \in {"gold"} |-> watermark]
ImplementsReplication == Replica!Spec

\* Gold reconciles with silver ("gold_product_metrics.event_count"): the
\* events of a run recorded as SUCCEEDED are counted once, by that run.
GoldReconciled ==
    \A r \in Runs : status[r] = "SUCCEEDED" =>
        \A g \in GoldTable : \A c \in gold[g] : c[1] \in batch[r] => c[2] = r
=============================================================================
