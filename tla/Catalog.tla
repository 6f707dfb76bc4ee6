------------------------------- MODULE Catalog -------------------------------
(***************************************************************************)
(* The job that registers a dataset in the Glue Data Catalog (main() and   *)
(* GlueCatalogManager of src/data/test_scripts/store_to_s3.py).  It reads  *)
(* the source frame once, stores the frame's schema as the definition of   *)
(* one table, creating the table if it is missing, and goes on to the      *)
(* partitions.  Jobs share the table, each call of the catalog is a step,  *)
(* and the schema of the source moves on while they run.                   *)
(*                                                                         *)
(* No partition gets registered: _register_partition first asks its boto3  *)
(* S3 client for path_exists, which is a method of S3Client and not of     *)
(* that object, so that the first partition ends the job.                  *)
(***************************************************************************)
EXTENDS Naturals

CONSTANTS Jobs,        \* the executions of the job
          MaxVersion,  \* bound: versions of the source schema
          Keyed,       \* the versions that have the columns year and month
          MaxMishaps   \* bound: calls of the catalog that raise, kills

ASSUME CatalogAssumption ==
    /\ MaxVersion \in Nat \ {0} /\ Keyed \subseteq 1 .. MaxVersion
    /\ MaxMishaps \in Nat

VARIABLES
    schema,    \* the version of the source schema
    empty,     \* whether the source has no rows yet
    database,  \* whether the Glue database exists
    table,     \* the version that defines the Glue table; 0 when it is absent
    pc,        \* where the job is in main()
    frame,     \* the schema version of df
    vacant,    \* whether df has no rows, hence no partitions
    expected,  \* history: whether the database existed when the job began
    floor,     \* history: the schema when a job last began alone
    renewed,   \* history: whether a job has stored its definition since
    mishaps    \* how many calls raised and jobs were killed

world == <<schema, empty, database>>
local == <<frame, vacant, expected>>
vars == <<world, table, pc, local, floor, renewed, mishaps>>

Version == 1 .. MaxVersion
ActivePhase == {"register", "update", "create", "partitions", "lookup", "list"}
Phase == ActivePhase \cup {"idle", "committed", "failed"}
Active(j) == pc[j] \in ActivePhase

TypeOK ==
    /\ schema \in Version /\ table \in 0 .. MaxVersion /\ floor \in Version
    /\ {empty, database, renewed} \subseteq BOOLEAN
    /\ pc \in [Jobs -> Phase]
    /\ frame \in [Jobs -> Version]
    /\ vacant \in [Jobs -> BOOLEAN] /\ expected \in [Jobs -> BOOLEAN]
    /\ mishaps \in 0 .. MaxMishaps

Init ==
    /\ schema = 1 /\ empty = TRUE /\ database = FALSE /\ table = 0
    /\ pc = [j \in Jobs |-> "idle"]
    /\ frame = [j \in Jobs |-> 1]
    /\ vacant = [j \in Jobs |-> FALSE] /\ expected = [j \in Jobs |-> FALSE]
    /\ floor = 1 /\ renewed = FALSE
    /\ mishaps = 0

-----------------------------------------------------------------------------
Goto(j, phase) == pc' = [pc EXCEPT ![j] = phase]

Mishap == mishaps < MaxMishaps /\ mishaps' = mishaps + 1

\* The call took effect: it returns, or it raises after all.
Returns(j, phase) == \/ Goto(j, phase) /\ UNCHANGED mishaps
                     \/ Goto(j, "failed") /\ Mishap

\* Fault: the schema is taken from the table, which may be absent.
Begin_FromTable(j) ==
    /\ pc[j] = "idle"
    /\ Goto(j, "register")
    /\ frame' = [frame EXCEPT ![j] = table]
    /\ vacant' = [vacant EXCEPT ![j] = empty]
    /\ expected' = [expected EXCEPT ![j] = database]
    /\ IF \E k \in Jobs : Active(k)
       THEN UNCHANGED <<floor, renewed>>
       ELSE floor' = schema /\ renewed' = FALSE
    /\ UNCHANGED <<world, table, mishaps>>

\* read_parquet lists the files and takes the schema once; the later
\* distinct() sees the same rows.
Begin(j) ==
    /\ pc[j] = "idle"
    /\ Goto(j, "register")
    /\ frame' = [frame EXCEPT ![j] = schema]
    /\ vacant' = [vacant EXCEPT ![j] = empty]
    /\ expected' = [expected EXCEPT ![j] = database]
    /\ IF \E k \in Jobs : Active(k)
       THEN UNCHANGED <<floor, renewed>>
       ELSE floor' = schema /\ renewed' = FALSE
    /\ UNCHANGED <<world, table, mishaps>>

Step(j, from) == pc[j] = from /\ UNCHANGED <<world, local, floor>>

\* register_table: without the database it returns as if all were well.
FindDatabase(j) ==
    /\ Step(j, "register")
    /\ Goto(j, IF ~database THEN "partitions"
               ELSE IF frame[j] \in Keyed THEN "update" ELSE "failed")
    /\ UNCHANGED <<table, renewed, mishaps>>

Define(j) == /\ table' = frame[j]
             /\ renewed' = TRUE
             /\ Returns(j, "partitions")

\* Fault: a table that exists is left alone.
UpdateTable_KeepOld(j) ==
    /\ Step(j, "update")
    /\ IF table = 0
       THEN Goto(j, "create") /\ UNCHANGED <<table, renewed, mishaps>>
       ELSE /\ renewed' = TRUE /\ Returns(j, "partitions")
            /\ UNCHANGED table

UpdateTable(j) ==
    /\ Step(j, "update")
    /\ IF table = 0
       THEN Goto(j, "create") /\ UNCHANGED <<table, renewed, mishaps>>
       ELSE Define(j)

\* Another job may have created the table meanwhile: then this one fails.
CreateTable(j) ==
    /\ Step(j, "create")
    /\ IF table = 0
       THEN Define(j)
       ELSE Goto(j, "failed") /\ UNCHANGED <<table, renewed, mishaps>>

\* register_partitions: the database, then the table, or it returns.
FindDatabaseAgain(j) ==
    /\ Step(j, "partitions")
    /\ Goto(j, IF database THEN "lookup" ELSE "committed")
    /\ UNCHANGED <<table, renewed, mishaps>>

FindTable(j) ==
    /\ Step(j, "lookup")
    /\ Goto(j, IF table # 0 THEN "list" ELSE "committed")
    /\ UNCHANGED <<table, renewed, mishaps>>

\* Fault: the error of the first partition is caught and logged.
RegisterPartitions_Caught(j) ==
    /\ Step(j, "list")
    /\ Goto(j, "committed")
    /\ UNCHANGED <<table, renewed, mishaps>>

\* Selecting the partition columns raises where they are missing, also of a
\* frame without rows.  The first partition raises AttributeError; without
\* any, job.commit().
RegisterPartitions(j) ==
    /\ Step(j, "list")
    /\ Goto(j, IF frame[j] \in Keyed /\ vacant[j] THEN "committed" ELSE "failed")
    /\ UNCHANGED <<table, renewed, mishaps>>

\* A call raises without effect, or the job is killed.
Raise(j) ==
    /\ Active(j)
    /\ Goto(j, "failed") /\ Mishap
    /\ UNCHANGED <<world, table, local, floor, renewed>>

-----------------------------------------------------------------------------
\* The world around the jobs.

\* The source is rewritten with another schema, or gets its first rows.
Evolve ==
    /\ \/ schema < MaxVersion /\ schema' = schema + 1 /\ UNCHANGED empty
       \/ empty /\ empty' = FALSE /\ UNCHANGED schema
    /\ UNCHANGED <<database, table, pc, local, floor, renewed, mishaps>>

CreateDatabase ==
    /\ ~database /\ database' = TRUE
    /\ UNCHANGED <<schema, empty, table, pc, local, floor, renewed, mishaps>>

Next ==
    \/ \E j \in Jobs :
          \/ Begin(j) \/ FindDatabase(j) \/ UpdateTable(j) \/ CreateTable(j)
          \/ FindDatabaseAgain(j) \/ FindTable(j) \/ RegisterPartitions(j)
          \/ Raise(j)
    \/ Evolve \/ CreateDatabase

Spec == Init /\ [][Next]_vars

-----------------------------------------------------------------------------
\* Properties.

\* Jobs that overlap may store their definitions in any order, and the last
\* one to do so need not be the one that read the source last.  But the table
\* never falls back by more than they overlap: once one of them has stored
\* its definition, the table is at least as new as the source was when the
\* first of them began.
DefinitionNotOutdated == renewed => table >= floor

\* A job that commits has registered what it was there for, provided the
\* database existed when it began: the table is defined, and no partition is
\* left out.  (The second half holds because a job with partitions fails.)
CommitMeansRegistered ==
    \A j \in Jobs : pc[j] = "committed" /\ expected[j] => table # 0 /\ vacant[j]
=============================================================================
