--------------------------- MODULE Catalog_proofs ---------------------------
(***************************************************************************)
(* Proofs about the catalog job: type correctness, that the table's        *)
(* definition falls back no further than jobs overlap, and that a job that *)
(* commits has left nothing out.                                           *)
(***************************************************************************)
EXTENDS Catalog, TLAPS

\* The bounds are numbers.
LEMMA Numbers == MaxVersion \in Nat /\ MaxVersion >= 1 /\ MaxMishaps \in Nat
BY CatalogAssumption

\* A call that returns, or raises after it took effect, leaves a typed state.
LEMMA ReturnsTyped ==
    ASSUME TypeOK, NEW j \in Jobs, NEW phase \in Phase, Returns(j, phase)
    PROVE  pc' \in [Jobs -> Phase] /\ mishaps' \in 0 .. MaxMishaps
<1>1. "failed" \in Phase
  BY DEF Phase
<1>2. pc' \in [Jobs -> Phase]
  BY <1>1 DEF TypeOK, Returns, Goto
<1>3. mishaps' \in 0 .. MaxMishaps
  BY Numbers DEF TypeOK, Returns, Mishap
<1> QED
  BY <1>2, <1>3

\* The phases, listed.
LEMMA PhaseNames ==
    {"register", "update", "create", "partitions", "lookup", "list", "idle",
     "committed", "failed"} = Phase
BY DEF Phase, ActivePhase

\* Define stores a version that exists and moves on or fails.
LEMMA DefineTyped ==
    ASSUME TypeOK, NEW j \in Jobs, Define(j)
    PROVE  /\ table' \in Version /\ renewed' = TRUE
           /\ pc' \in [Jobs -> Phase] /\ mishaps' \in 0 .. MaxMishaps
BY ReturnsTyped, PhaseNames DEF TypeOK, Define

\* The versions, the phases and the histories stay what they are declared to be.
THEOREM CatalogTyped == Spec => []TypeOK
<1>1. Init => TypeOK
  <2> SUFFICES ASSUME Init PROVE TypeOK
    OBVIOUS
  <2>1. 1 \in Version /\ 0 \in 0 .. MaxVersion /\ 0 \in 0 .. MaxMishaps
    BY Numbers DEF Version
  <2>2. /\ {empty, database, renewed} \subseteq BOOLEAN
        /\ vacant \in [Jobs -> BOOLEAN] /\ expected \in [Jobs -> BOOLEAN]
    BY DEF Init
  <2>3. pc \in [Jobs -> Phase]
    BY PhaseNames DEF Init
  <2>4. frame \in [Jobs -> Version]
    BY <2>1 DEF Init
  <2> QED
    BY <2>1, <2>2, <2>3, <2>4 DEF Init, TypeOK
<1>2. TypeOK /\ [Next]_vars => TypeOK'
  <2> SUFFICES ASSUME TypeOK, [Next]_vars PROVE TypeOK'
    OBVIOUS
  <2>0. Version \subseteq 0 .. MaxVersion
    BY Numbers DEF Version
  <2>1. ASSUME NEW j \in Jobs, Begin(j) PROVE TypeOK'
    <3>1. /\ frame' \in [Jobs -> Version] /\ vacant' \in [Jobs -> BOOLEAN]
          /\ expected' \in [Jobs -> BOOLEAN]
      BY <2>1 DEF TypeOK, Begin, world
    <3>2. floor' \in Version /\ renewed' \in BOOLEAN
      BY <2>1 DEF TypeOK, Begin
    <3> QED
      BY <2>1, <3>1, <3>2, PhaseNames DEF TypeOK, Begin, Goto, world
  <2>2. ASSUME NEW j \in Jobs, FindDatabase(j) PROVE TypeOK'
    BY <2>2, PhaseNames DEF TypeOK, FindDatabase, Step, Goto, world, local
  <2>3. ASSUME NEW j \in Jobs, UpdateTable(j) PROVE TypeOK'
    <3>1. CASE table = 0
      BY <2>3, <3>1, PhaseNames DEF TypeOK, UpdateTable, Step, Goto, world, local
    <3>2. CASE table # 0
      BY <2>0, <2>3, <3>2, DefineTyped DEF TypeOK, UpdateTable, Step, world, local
    <3> QED
      BY <3>1, <3>2
  <2>4. ASSUME NEW j \in Jobs, CreateTable(j) PROVE TypeOK'
    <3>1. CASE table # 0
      BY <2>4, <3>1, PhaseNames DEF TypeOK, CreateTable, Step, Goto, world, local
    <3>2. CASE table = 0
      BY <2>0, <2>4, <3>2, DefineTyped DEF TypeOK, CreateTable, Step, world, local
    <3> QED
      BY <3>1, <3>2
  <2>5. ASSUME NEW j \in Jobs, FindDatabaseAgain(j) PROVE TypeOK'
    BY <2>5, PhaseNames DEF TypeOK, FindDatabaseAgain, Step, Goto, world, local
  <2>6. ASSUME NEW j \in Jobs, FindTable(j) PROVE TypeOK'
    BY <2>6, PhaseNames DEF TypeOK, FindTable, Step, Goto, world, local
  <2>7. ASSUME NEW j \in Jobs, RegisterPartitions(j) PROVE TypeOK'
    BY <2>7, PhaseNames DEF TypeOK, RegisterPartitions, Step, Goto, world, local
  <2>8. ASSUME NEW j \in Jobs, Raise(j) PROVE TypeOK'
    <3>1. mishaps' \in 0 .. MaxMishaps
      BY <2>8, Numbers DEF TypeOK, Raise, Mishap
    <3> QED
      BY <2>8, <3>1, PhaseNames DEF TypeOK, Raise, Goto, world, local
  <2>9. CASE Evolve
    <3>1. schema' \in Version
      BY <2>9, Numbers DEF TypeOK, Evolve, Version
    <3> QED
      BY <2>9, <3>1 DEF TypeOK, Evolve, local
  <2>10. CASE CreateDatabase
    BY <2>10 DEF TypeOK, CreateDatabase, local
  <2>11. CASE UNCHANGED vars
    BY <2>11 DEF TypeOK, vars, world, local
  <2> QED
    BY <2>1, <2>2, <2>3, <2>4, <2>5, <2>6, <2>7, <2>8, <2>9, <2>10, <2>11 DEF Next
<1> QED
  BY <1>1, <1>2, PTL DEF Spec

-----------------------------------------------------------------------------
(***************************************************************************)
(* The definition.  Whatever an active job may still store was read since  *)
(* a job last began alone, so it is no older than the source was then.     *)
(***************************************************************************)

Recent == /\ floor <= schema
          /\ \A j \in Jobs : Active(j) => floor <= frame[j]
          /\ DefinitionNotOutdated

\* All schema versions can be compared.
LEMMA VersionsAreNumbers == TypeOK =>
    /\ schema \in Nat /\ floor \in Nat /\ table \in Nat
    /\ \A j \in Jobs : frame[j] \in Nat
BY Numbers DEF TypeOK, Version

\* Steps of a job after its frame is read, which store nothing.
LEMMA RecentQuiet ==
    ASSUME TypeOK, Recent, NEW j \in Jobs, Active(j),
           UNCHANGED <<schema, floor, frame, table, renewed>>,
           \A k \in Jobs : k # j => pc'[k] = pc[k]
    PROVE  Recent'
BY DEF Recent, Active, DefinitionNotOutdated

\* What a step of a job leaves alone once its frame is read.
LEMMA StepFrame ==
    ASSUME TypeOK, NEW j \in Jobs, NEW from \in ActivePhase, Step(j, from)
    PROVE  Active(j) /\ UNCHANGED <<schema, floor, frame, database, vacant, expected>>
BY DEF Step, Active, world, local

\* A job that moves on does not move the others.
LEMMA GotoOthers ==
    ASSUME TypeOK, NEW j \in Jobs, NEW phase, Goto(j, phase)
    PROVE  pc'[j] = phase /\ \A k \in Jobs : k # j => pc'[k] = pc[k]
BY DEF TypeOK, Goto

\* A definition that is stored is as new as the floor.
LEMMA DefineRecent ==
    ASSUME TypeOK, Recent, NEW j \in Jobs, Active(j), Define(j),
           UNCHANGED <<schema, floor, frame>>
    PROVE  Recent'
<1>1. \A k \in Jobs : k # j => pc'[k] = pc[k]
  BY GotoOthers DEF Define, Returns
<1>2. table' >= floor'
  BY VersionsAreNumbers DEF Define, Recent
<1> QED
  BY <1>1, <1>2 DEF Recent, Active, DefinitionNotOutdated

\* In every state, the table and what may still be stored are recent.
THEOREM CatalogNotOutdated == Spec => []DefinitionNotOutdated
<1>1. Init => Recent
  BY DEF Init, Recent, Active, ActivePhase, DefinitionNotOutdated
<1>2. TypeOK /\ Recent /\ [Next]_vars => Recent'
  <2> SUFFICES ASSUME TypeOK, Recent, [Next]_vars PROVE Recent'
    OBVIOUS
  <2>1. ASSUME NEW j \in Jobs, Begin(j) PROVE Recent'
    <3>1. /\ UNCHANGED <<schema, table>> /\ frame'[j] = schema
          /\ \A k \in Jobs : k # j => pc'[k] = pc[k] /\ frame'[k] = frame[k]
      BY <2>1 DEF Begin, Goto, TypeOK, world
    <3>2. CASE \E k \in Jobs : Active(k)
      <4>1. UNCHANGED <<floor, renewed>>
        BY <2>1, <3>2 DEF Begin
      <4>2. \A k \in Jobs : Active(k)' => floor <= frame'[k]
        BY <3>1 DEF Recent, Active
      <4> QED
        BY <3>1, <4>1, <4>2 DEF Recent, DefinitionNotOutdated
    <3>3. CASE ~ \E k \in Jobs : Active(k)
      <4>1. floor' = schema /\ renewed' = FALSE
        BY <2>1, <3>3 DEF Begin
      <4>2. \A k \in Jobs : Active(k)' => schema <= frame'[k]
        BY <3>1, <3>3, VersionsAreNumbers DEF Active
      <4> QED
        BY <3>1, <4>1, <4>2, VersionsAreNumbers DEF Recent, DefinitionNotOutdated
    <3> QED
      BY <3>2, <3>3
  <2>2. ASSUME NEW j \in Jobs, FindDatabase(j) PROVE Recent'
    BY <2>2, StepFrame, GotoOthers, RecentQuiet DEF FindDatabase, ActivePhase
  <2>3. ASSUME NEW j \in Jobs, UpdateTable(j) PROVE Recent'
    <3>1. Active(j) /\ UNCHANGED <<schema, floor, frame>>
      BY <2>3, StepFrame DEF UpdateTable, ActivePhase
    <3>2. CASE table = 0
      BY <2>3, <3>1, <3>2, GotoOthers, RecentQuiet DEF UpdateTable
    <3>3. CASE table # 0
      BY <2>3, <3>1, <3>3, DefineRecent DEF UpdateTable
    <3> QED
      BY <3>2, <3>3
  <2>4. ASSUME NEW j \in Jobs, CreateTable(j) PROVE Recent'
    <3>1. Active(j) /\ UNCHANGED <<schema, floor, frame>>
      BY <2>4, StepFrame DEF CreateTable, ActivePhase
    <3>2. CASE table # 0
      BY <2>4, <3>1, <3>2, GotoOthers, RecentQuiet DEF CreateTable
    <3>3. CASE table = 0
      BY <2>4, <3>1, <3>3, DefineRecent DEF CreateTable
    <3> QED
      BY <3>2, <3>3
  <2>5. ASSUME NEW j \in Jobs, FindDatabaseAgain(j) PROVE Recent'
    BY <2>5, StepFrame, GotoOthers, RecentQuiet DEF FindDatabaseAgain, ActivePhase
  <2>6. ASSUME NEW j \in Jobs, FindTable(j) PROVE Recent'
    BY <2>6, StepFrame, GotoOthers, RecentQuiet DEF FindTable, ActivePhase
  <2>7. ASSUME NEW j \in Jobs, RegisterPartitions(j) PROVE Recent'
    BY <2>7, StepFrame, GotoOthers, RecentQuiet DEF RegisterPartitions, ActivePhase
  <2>8. ASSUME NEW j \in Jobs, Raise(j) PROVE Recent'
    BY <2>8, GotoOthers, RecentQuiet DEF Raise, world, local
  <2>9. CASE Evolve
    BY <2>9, VersionsAreNumbers DEF Evolve, local, Recent, Active, DefinitionNotOutdated
  <2>10. CASE CreateDatabase
    BY <2>10 DEF CreateDatabase, local, Recent, Active, DefinitionNotOutdated
  <2>11. CASE UNCHANGED vars
    BY <2>11 DEF vars, world, local, Recent, Active, DefinitionNotOutdated
  <2> QED
    BY <2>1, <2>2, <2>3, <2>4, <2>5, <2>6, <2>7, <2>8, <2>9, <2>10, <2>11 DEF Next
<1>3. Recent => DefinitionNotOutdated
  BY DEF Recent
<1> QED
  BY <1>1, <1>2, <1>3, CatalogTyped, PTL DEF Spec

-----------------------------------------------------------------------------
(***************************************************************************)
(* What a committed job has done.  The database stays once it exists, and  *)
(* so does the table; a job that found the database gets past              *)
(* register_table only by storing its definition.                          *)
(***************************************************************************)

Settles(j) ==
    /\ expected[j] => database
    /\ pc[j] \in {"partitions", "lookup", "list"} /\ expected[j] => table # 0
    /\ pc[j] = "committed" /\ expected[j] => table # 0 /\ vacant[j]

\* What a job knows of the catalog survives the steps of the others.
LEMMA SettlesQuiet ==
    ASSUME TypeOK, NEW j \in Jobs, Settles(j),
           UNCHANGED <<pc[j], expected[j], vacant[j]>>,
           database => database', table # 0 => table' # 0
    PROVE  Settles(j)'
BY DEF Settles

\* A job that commits has a table and had no partition.
THEOREM CatalogCommitMeansRegistered == Spec => []CommitMeansRegistered
<1> DEFINE Settled == \A j \in Jobs : Settles(j)
<1>1. Init => Settled
  BY DEF Init, Settles
<1>2. TypeOK /\ TypeOK' /\ Settled /\ [Next]_vars => Settled'
  <2> SUFFICES ASSUME TypeOK, TypeOK', Settled, [Next]_vars, NEW k \in Jobs
               PROVE  Settles(k)'
    OBVIOUS
  <2>0. Settles(k) /\ ~(0 \in Version)
    BY Numbers DEF Version
  <2>1. ASSUME NEW j \in Jobs, Begin(j) PROVE Settles(k)'
    <3>1. CASE k = j
      BY <2>1, <3>1, GotoOthers DEF Begin, Settles, TypeOK, world
    <3>2. CASE k # j
      BY <2>0, <2>1, <3>2, GotoOthers, SettlesQuiet DEF Begin, TypeOK, world
    <3> QED
      BY <3>1, <3>2
  <2>2. ASSUME NEW j \in Jobs, FindDatabase(j) PROVE Settles(k)'
    <3>1. UNCHANGED <<database, vacant, expected, table>>
      BY <2>2, StepFrame DEF FindDatabase, ActivePhase
    <3>2. pc'[j] = "partitions" => ~database
      BY <2>2, GotoOthers DEF FindDatabase
    <3>3. pc'[j] \in {"partitions", "update", "failed"}
      BY <2>2, GotoOthers DEF FindDatabase
    <3>4. k # j => pc'[k] = pc[k]
      BY <2>2, GotoOthers DEF FindDatabase
    <3> QED
      BY <2>0, <3>1, <3>2, <3>3, <3>4 DEF Settles
  <2>3. ASSUME NEW j \in Jobs, UpdateTable(j) \/ CreateTable(j) PROVE Settles(k)'
    <3>1. UNCHANGED <<database, vacant, expected>>
      BY <2>3, StepFrame DEF UpdateTable, CreateTable, ActivePhase
    <3>2. CASE Define(j)
      <4>1. table' # 0
        BY <2>0, <3>2 DEF Define, TypeOK
      <4>2. pc'[j] \in {"partitions", "failed"} /\ (k # j => pc'[k] = pc[k])
        BY <3>2, GotoOthers DEF Define, Returns
      <4> QED
        BY <2>0, <3>1, <4>1, <4>2 DEF Settles
    <3>3. CASE /\ table' = table
               /\ Goto(j, "create") \/ Goto(j, "failed")
      <4>1. pc'[j] \in {"create", "failed"} /\ (k # j => pc'[k] = pc[k])
        BY <3>3, GotoOthers
      <4> QED
        BY <2>0, <3>1, <3>3, <4>1 DEF Settles
    <3> QED
      BY <2>3, <3>2, <3>3 DEF UpdateTable, CreateTable
  <2>4. ASSUME NEW j \in Jobs, FindDatabaseAgain(j) PROVE Settles(k)'
    <3>1. UNCHANGED <<database, vacant, expected, table>> /\ pc[j] = "partitions"
      BY <2>4, StepFrame DEF FindDatabaseAgain, ActivePhase, Step
    <3>2. pc'[j] = IF database THEN "lookup" ELSE "committed"
      BY <2>4, GotoOthers DEF FindDatabaseAgain
    <3>3. k # j => pc'[k] = pc[k]
      BY <2>4, GotoOthers DEF FindDatabaseAgain
    <3> QED
      BY <2>0, <3>1, <3>2, <3>3 DEF Settles
  <2>5. ASSUME NEW j \in Jobs, FindTable(j) PROVE Settles(k)'
    <3>1. UNCHANGED <<database, vacant, expected, table>> /\ pc[j] = "lookup"
      BY <2>5, StepFrame DEF FindTable, ActivePhase, Step
    <3>2. pc'[j] = IF table # 0 THEN "list" ELSE "committed"
      BY <2>5, GotoOthers DEF FindTable
    <3>3. k # j => pc'[k] = pc[k]
      BY <2>5, GotoOthers DEF FindTable
    <3> QED
      BY <2>0, <3>1, <3>2, <3>3 DEF Settles
  <2>6. ASSUME NEW j \in Jobs, RegisterPartitions(j) PROVE Settles(k)'
    <3>1. UNCHANGED <<database, vacant, expected, table>> /\ pc[j] = "list"
      BY <2>6, StepFrame DEF RegisterPartitions, ActivePhase, Step
    <3>2. pc'[j] \in {"committed", "failed"} /\ (pc'[j] = "committed" => vacant[j])
      BY <2>6, GotoOthers DEF RegisterPartitions
    <3>3. k # j => pc'[k] = pc[k]
      BY <2>6, GotoOthers DEF RegisterPartitions
    <3> QED
      BY <2>0, <3>1, <3>2, <3>3 DEF Settles
  <2>7. ASSUME NEW j \in Jobs, Raise(j) PROVE Settles(k)'
    <3>1. UNCHANGED <<database, vacant, expected, table>>
      BY <2>7 DEF Raise, world, local
    <3>2. pc'[j] = "failed" /\ (k # j => pc'[k] = pc[k])
      BY <2>7, GotoOthers DEF Raise
    <3> QED
      BY <2>0, <3>1, <3>2 DEF Settles
  <2>8. CASE Evolve \/ CreateDatabase \/ UNCHANGED vars
    <3>1. UNCHANGED <<pc, vacant, expected, table>> /\ (database => database')
      BY <2>8 DEF Evolve, CreateDatabase, vars, world, local
    <3> QED
      BY <2>0, <3>1 DEF Settles
  <2> QED
    BY <2>1, <2>2, <2>3, <2>4, <2>5, <2>6, <2>7, <2>8 DEF Next
<1>3. Settled => CommitMeansRegistered
  BY DEF Settles, CommitMeansRegistered
<1> QED
  BY <1>1, <1>2, <1>3, CatalogTyped, PTL DEF Spec
=============================================================================
