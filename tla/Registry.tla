------------------------------ MODULE Registry ------------------------------
(***************************************************************************)
(* The schema registry (src/data/test_scripts/schema_registry.py): the     *)
(* versions of a table's Avro schema are files v1.avsc, v2.avsc, ... under *)
(* one S3 prefix.  A SchemaRegistry object finds the latest file by        *)
(* listing the prefix, loads it, and can register the schema of a data     *)
(* frame as the next version.  The Glue ingest job (ingest_glue_job.py)    *)
(* builds such an object, reads its source, and compares the two schemas.  *)
(*                                                                         *)
(* The listing, the download and the upload are three calls, and the       *)
(* upload is an unconditional put: what other sessions do in between is    *)
(* seen by none of them.  Sessions overlap in any way, and may register    *)
(* with one object again and again: what that breaks is recorded in two    *)
(* history variables, which no action reads.                               *)
(***************************************************************************)
EXTENDS Naturals, FiniteSets

CONSTANTS Sessions,     \* the programs that register schemas
          Jobs,         \* the runs of the Glue ingest job
          Names,        \* the column names
          Frames,       \* the schemas that data frames may have
          FirstVersion, \* the oldest version in the bucket
          MaxVersion,   \* bound: the versions that are registered
          MaxMishaps    \* bound: calls that raise

\* A schema gives each of its columns a type.  A definition needs a column,
\* or it cannot be loaded.
Schema(Type) == UNION {[names -> Type] : names \in SUBSET Names}

SparkType == {"smallint", "int", "bigint", "string"}
AvroType == {"int", "long", "string"}

ASSUME RegistryAssumption ==
    /\ Frames \subseteq Schema(SparkType)
    /\ \A fr \in Frames : DOMAIN fr # {}
    /\ FirstVersion \in Nat /\ MaxVersion \in Nat /\ FirstVersion <= MaxVersion
    /\ MaxMishaps \in Nat

VARIABLES
    files,      \* files[v]: the schema file of version v
    errors,     \* <<job, frame>>: what lies under the error prefix
    pc,         \* where a session or a job is
    version,    \* schema_version
    definition, \* the fields of the loaded definition
    frame,      \* the data frame at hand
    mishaps,    \* how many calls have raised
    fresh,      \* who has listed the files since the last registration
    overwritten \* <<v, d>>: version v said d until another was put in its place

locals == <<version, definition, frame>>
observed == <<fresh, overwritten>>
vars == <<files, errors, pc, locals, mishaps, observed>>

User == Sessions \cup Jobs
NoFields == [name \in {} |-> "int"]

Version == FirstVersion .. MaxVersion
Change == [added : SUBSET (Names \X SparkType), removed : SUBSET (Names \X SparkType),
           modified : SUBSET (Names \X SparkType \X SparkType)]
File == [fields : Schema(AvroType), changes : Change]

TypeOK ==
    /\ DOMAIN files \subseteq Version
    /\ \A v \in DOMAIN files : files[v] \in File
    /\ errors \subseteq Jobs \X Schema(SparkType)
    /\ pc \in [User -> {"idle", "listed", "ready", "validate", "done", "rejected", "raised"}]
    /\ version \in [User -> Version]
    /\ definition \in [User -> Schema(AvroType)]
    /\ frame \in [User -> Schema(SparkType)]
    /\ mishaps \in 0 .. MaxMishaps
    /\ fresh \subseteq User
    /\ overwritten \subseteq Version \X Schema(AvroType)

-----------------------------------------------------------------------------
\* Types and changes.

\* Spark's toAvroType: Avro has no 16-bit integer.
ToAvroType(fr) ==
    [name \in DOMAIN fr |-> CASE fr[name] \in {"smallint", "int"} -> "int"
                              [] fr[name] = "bigint" -> "long"
                              [] fr[name] = "string" -> "string"]

\* Fault: the Avro types are compared as they are.
TypeMap_Raw(fields) == fields

\* The Spark types of a definition's fields.
TypeMap(fields) ==
    [name \in DOMAIN fields |-> CASE fields[name] = "int" -> "int"
                                  [] fields[name] = "long" -> "bigint"
                                  [] fields[name] = "string" -> "string"]

Columns(u) == TypeMap(definition[u])

\* What is new, what is gone, and what has another type.
Compare(old, new) ==
    [added    |-> {<<name, new[name]>> : name \in DOMAIN new \ DOMAIN old},
     removed  |-> {<<name, old[name]>> : name \in DOMAIN old \ DOMAIN new},
     modified |-> {<<name, old[name], new[name]>> : name \in
                     {same \in DOMAIN old \cap DOMAIN new : old[same] # new[same]}}]

\* Fault: a changed type is no change.
Unchanged_Names(changes) == changes.added = {} /\ changes.removed = {}

Unchanged(changes) ==
    changes.added = {} /\ changes.removed = {} /\ changes.modified = {}

-----------------------------------------------------------------------------
\* The registry object.

NoChanges == [added |-> {}, removed |-> {}, modified |-> {}]

\* The bucket may be empty; otherwise someone has put the first version there.
Init ==
    /\ files \in {[v \in {} |-> NoFields]} \cup
         {[v \in {FirstVersion} |-> [fields |-> ToAvroType(fr), changes |-> NoChanges]]
            : fr \in Frames}
    /\ errors = {}
    /\ pc = [u \in User |-> "idle"]
    /\ version = [u \in User |-> FirstVersion]
    /\ definition = [u \in User |-> NoFields]
    /\ frame = [u \in User |-> NoFields]
    /\ mishaps = 0
    /\ fresh = {}
    /\ overwritten = {}

Goto(u, phase) == pc' = [pc EXCEPT ![u] = phase]
Mishap == mishaps < MaxMishaps /\ mishaps' = mishaps + 1

\* Fault: the greatest name is taken; "v9.avsc" is greater than "v10.avsc".
Latest_ByName(v) ==
    LET Rank(n) == IF n < 10 THEN 20 * n - 1 ELSE 2 * n
    IN v \in DOMAIN files /\ \A other \in DOMAIN files : Rank(other) <= Rank(v)

Latest(v) == v \in DOMAIN files /\ \A other \in DOMAIN files : other <= v

\* The file with the highest version number, found by listing the prefix.
List(u) ==
    /\ pc[u] = "idle"
    /\ \E v \in Version : Latest(v) /\ version' = [version EXCEPT ![u] = v]
    /\ Goto(u, "listed")
    /\ fresh' = fresh \cup {u}
    /\ UNCHANGED <<files, errors, definition, frame, mishaps, overwritten>>

\* Without a file the constructor raises: nothing can register a first one.
NoVersions(u) ==
    /\ pc[u] = "idle" /\ DOMAIN files = {}
    /\ Goto(u, "raised")
    /\ UNCHANGED <<files, errors, locals, mishaps, observed>>

\* Fault: the file is looked up again for the download.
Load_Latest(u) ==
    /\ pc[u] = "listed"
    /\ \E v \in Version : /\ Latest(v)
                          /\ definition' = [definition EXCEPT ![u] = files[v].fields]
    /\ Goto(u, "ready")
    /\ UNCHANGED <<files, errors, version, frame, mishaps, observed>>

Load(u) ==
    /\ pc[u] = "listed"
    /\ definition' = [definition EXCEPT ![u] = files[version[u]].fields]
    /\ Goto(u, "ready")
    /\ UNCHANGED <<files, errors, version, frame, mishaps, observed>>

\* Fault: versions are numbered by how many there are.
NextVersion_Count(u) == Cardinality(DOMAIN files) + 1

NextVersion(u) == version[u] + 1

\* Fault: the old and the new fields are swapped.
NewFile_Swapped(u, fr) ==
    [fields  |-> ToAvroType(fr),
     changes |-> Compare(TypeMap(ToAvroType(fr)), Columns(u))]

\* The schema of frame fr as the next version, with its changes against the
\* definition that was loaded.
NewFile(u, fr) == [fields  |-> ToAvroType(fr),
                   changes |-> Compare(Columns(u), TypeMap(ToAvroType(fr)))]

\* The upload overwrites whatever is there, and may raise all the same.  The
\* object keeps the version and the definition it was built with, also for
\* the next registration.
Register(u) ==
    /\ u \in Sessions /\ pc[u] \in {"ready", "done"} /\ NextVersion(u) <= MaxVersion
    /\ \E fr \in Frames :
          /\ frame' = [frame EXCEPT ![u] = fr]
          /\ ~Unchanged(NewFile(u, fr).changes)
          /\ files' = [v \in DOMAIN files \cup {NextVersion(u)} |->
                         IF v = NextVersion(u) THEN NewFile(u, fr) ELSE files[v]]
    /\ \/ Goto(u, "done") /\ UNCHANGED mishaps
       \/ Goto(u, "raised") /\ Mishap
    /\ fresh' = {}
    /\ overwritten' = overwritten \cup
         {<<v, files[v].fields>> : v \in DOMAIN files \cap {NextVersion(u)}}
    /\ UNCHANGED <<errors, version, definition>>

SkipRegister(u) ==
    /\ u \in Sessions /\ pc[u] \in {"ready", "done"}
    /\ \E fr \in Frames : /\ frame' = [frame EXCEPT ![u] = fr]
                          /\ Unchanged(NewFile(u, fr).changes)
    /\ Goto(u, "done")
    /\ UNCHANGED <<files, errors, version, definition, mishaps, observed>>

\* A call raises without an effect, and the exception ends the program.
Raise(u) ==
    /\ pc[u] \in {"idle", "listed", "ready", "validate", "done"}
    /\ Goto(u, "raised") /\ Mishap
    /\ UNCHANGED <<files, errors, locals, observed>>

-----------------------------------------------------------------------------
\* The Glue ingest job, once it has its registry object.

\* The first error ends the job: the handler that would wait and retry uses
\* the name "error" after its except clause has deleted it, and raises.
ReadSource(j) ==
    /\ j \in Jobs /\ pc[j] = "ready"
    /\ \/ /\ \E fr \in Frames : frame' = [frame EXCEPT ![j] = fr]
          /\ Goto(j, "validate") /\ UNCHANGED mishaps
       \/ Goto(j, "raised") /\ Mishap /\ UNCHANGED frame
    /\ UNCHANGED <<files, errors, version, definition, observed>>

\* Missing, extra or retyped columns, in any order.
HasSchemaChanges(u) == frame[u] # Columns(u)

\* validate_schema logs the result of HasSchemaChanges and returns None.
ValidateSchema(u) == FALSE

\* The frame goes to the error prefix, and the job fails.  What main() does
\* after a validated schema is never reached.
ProcessFailFast(j) ==
    /\ pc[j] = "validate" /\ ~ValidateSchema(j)
    /\ errors' = errors \cup {<<j, frame[j]>>}
    /\ Goto(j, "rejected")
    /\ UNCHANGED <<files, locals, mishaps, observed>>

Next ==
    \/ \E u \in User : List(u) \/ NoVersions(u) \/ Load(u) \/ Raise(u)
    \/ \E u \in Sessions : Register(u) \/ SkipRegister(u)
    \/ \E j \in Jobs : ReadSource(j) \/ ProcessFailFast(j)

Spec == Init /\ [][Next]_vars

-----------------------------------------------------------------------------
\* Properties.

\* Version v says d, or has said it.
Said(v, d) == d = files[v].fields \/ <<v, d>> \in overwritten

\* No version disappears, and what it says is changed only by a session that
\* has not listed the files since the last registration, be it another's or
\* its own: a fresh one makes "the next Avro schema version", also when it
\* and the calls before it may raise.
RegisteredStay ==
    [][\A v \in DOMAIN files :
          /\ v \in DOMAIN files'
          /\ files'[v] # files[v] => \E u \in Sessions \ fresh : Register(u)]_files

\* The versions form a chain without gaps.  The changes that each file
\* records lead to it from what the version before it says, or has said
\* before it was overwritten; there are always some.
ChangesChain ==
    \A v \in DOMAIN files \ {FirstVersion} :
        /\ v - 1 \in DOMAIN files
        /\ ~Unchanged(files[v].changes)
        /\ \E d \in Schema(AvroType) :
              /\ Said(v - 1, d)
              /\ files[v].changes = Compare(TypeMap(d), TypeMap(files[v].fields))

\* The version and the definition that an object holds belong together,
\* though they come from two calls between which others register: that
\* version says so, or has said it before it was overwritten.
ContractConsistent ==
    \A u \in User : pc[u] \in {"ready", "validate", "done", "rejected"} =>
        version[u] \in DOMAIN files /\ Said(version[u], definition[u])

\* A schema whose registration returned is in the registry, whether a file
\* was written for it or not, unless its version has been overwritten since.
RegisteredFound ==
    \A u \in Sessions : pc[u] = "done" =>
        \E v \in DOMAIN files, d \in Schema(AvroType) :
            Said(v, d) /\ TypeMap(d) = TypeMap(ToAvroType(frame[u]))

\* Until a version is overwritten, the files are a log that only grows at its
\* end.  Opening it is atomic, though an object lists and downloads in two
\* calls; so is registering, by whoever holds the newest version.
Contents == [v \in DOMAIN files |-> files[v].fields]
Snapshot(u) ==
    [version    |-> version[u],
     definition |-> IF pc[u] = "listed" THEN files[version[u]].fields ELSE definition[u]]
Snapshots == [u \in User |-> IF pc[u] \in {"idle", "raised"} THEN {} ELSE {Snapshot(u)}]

History == INSTANCE SchemaHistory
             WITH Definition <- Schema(AvroType), First <- FirstVersion,
                  log <- Contents, held <- Snapshots
ImplementsHistory ==
    History!Init /\ [][overwritten' = {} => History!Next]_(History!vars)

\* Only what differs from the contract is rejected ("Source schema does not
\* match the configured definition").
MatchingPasses == \A j \in Jobs : pc[j] = "rejected" => HasSchemaChanges(j)
=============================================================================
