---------------------------- MODULE Ingest_proofs ----------------------------
(***************************************************************************)
(* Proofs about the ingest job, for any number of tables, runs, rows,      *)
(* timestamps and mishaps.                                                 *)
(***************************************************************************)
EXTENDS Ingest, TLAPS

-----------------------------------------------------------------------------
\* Types.

\* The names of the phases, which later proofs need not look into.
LEMMA PhaseNames ==
    {"idle", "load", "paths", "validate", "max", "count", "save", "upsert",
     "finish", "except", "done", "dead"} \subseteq Phase
  BY DEF Phase, ActivePhase, TryPhase

\* The initial values of the local variables are of their types.
LEMMA Blanks == /\ NoStamps \in [Table -> Stamp]
                /\ EmptyTables \in [Table -> SUBSET Row]
                /\ EmptyTables \in [Table -> SUBSET (Row \X Runs)]
                /\ 1 \in Table
  BY IngestAssumption DEF NoStamps, EmptyTables, Stamp, Table

\* Going on to the next table, or to the end, is well typed.
LEMMA NextTableTyped ==
  ASSUME TypeOK, NEW r \in Runs, NEW phase \in Phase, NextTable(r, phase)
  PROVE  pc' \in [Runs -> Phase] /\ tbl' \in [Runs -> Table]
<1>1. tbl[r] \in Table /\ pc \in [Runs -> Phase] /\ tbl \in [Runs -> Table]
  BY DEF TypeOK
<1>2. CASE tbl[r] = NTables
  BY <1>1, <1>2, Blanks DEF NextTable
<1>3. CASE tbl[r] # NTables
  <2>1. tbl[r] + 1 \in Table
    BY <1>1, <1>3, IngestAssumption DEF Table
  <2> QED
    BY <1>1, <1>3, <2>1 DEF NextTable
<1> QED
  BY <1>2, <1>3

\* A kill or an exception stays within the bound.
LEMMA MishapTyped == ASSUME TypeOK, Mishap PROVE mishaps' \in 0 .. MaxMishaps
  BY IngestAssumption DEF TypeOK, Mishap

\* A statement that returns or raises moves the run to a phase.
LEMMA ReturnsTyped ==
  ASSUME TypeOK, NEW r \in Runs, NEW phase \in Phase, Returns(r, phase)
  PROVE  /\ pc' \in [Runs -> Phase] /\ tbl' \in [Runs -> Table]
         /\ mishaps' \in 0 .. MaxMishaps
<1>1. CASE NextTable(r, phase) /\ UNCHANGED mishaps
  BY <1>1, NextTableTyped DEF TypeOK
<1>2. CASE Goto(r, "except") /\ Mishap
  BY <1>2, PhaseNames, MishapTyped DEF TypeOK, Goto
<1> QED
  BY <1>1, <1>2 DEF Returns

\* The end of a run resets its local variables.
LEMMA ForgetTyped ==
  ASSUME TypeOK, NEW r \in Runs, Forget(r)
  PROVE  /\ eff' \in [Runs -> [Table -> Stamp]]
         /\ maxv' \in [Runs -> [Table -> Stamp]]
         /\ counted' \in [Runs -> [Table -> SUBSET Row]]
         /\ seen' \in [Runs -> [Table -> SUBSET Row]]
  BY Blanks DEF TypeOK, Forget

\* The store and the local variables of the job keep their types.
THEOREM IngestTyped == Spec => []TypeOK
<1>1. Init => TypeOK
  BY Blanks, PhaseNames, IngestAssumption DEF Init, TypeOK
<1>2. TypeOK /\ [Next]_vars => TypeOK'
  <2> SUFFICES ASSUME TypeOK, [Next]_vars PROVE TypeOK'
    OBVIOUS
  <2> USE PhaseNames DEF stores, locals
  <2>1. ASSUME NEW r \in Runs, StartRun(r) PROVE TypeOK'
    BY <2>1 DEF StartRun, Goto, TypeOK
  <2>2. ASSUME NEW r \in Runs, LoadWatermarks(r) PROVE TypeOK'
    BY <2>2 DEF LoadWatermarks, Goto, TypeOK
  <2>3. ASSUME NEW r \in Runs, CheckPaths(r) PROVE TypeOK'
    BY <2>3, Blanks DEF CheckPaths, Goto, TypeOK
  <2>4. ASSUME NEW r \in Runs, Validate(r) PROVE TypeOK'
    <3>1. pc' \in [Runs -> Phase] /\ tbl' \in [Runs -> Table]
      BY <2>4, NextTableTyped DEF Validate, Goto, TypeOK
    <3> QED
      BY <2>4, <3>1 DEF Validate, TypeOK
  <2>5. ASSUME NEW r \in Runs, ComputeMax(r) PROVE TypeOK'
    <3>1. pc' \in [Runs -> Phase] /\ tbl' \in [Runs -> Table]
      BY <2>5, NextTableTyped DEF ComputeMax
    <3>2. maxv' \in [Runs -> [Table -> Stamp]]
      BY <2>5 DEF ComputeMax, TypeOK
    <3> QED
      BY <2>5, <3>1, <3>2 DEF ComputeMax, TypeOK
  <2>6. ASSUME NEW r \in Runs, CountRows(r) PROVE TypeOK'
    <3>1. pc' \in [Runs -> Phase] /\ tbl' \in [Runs -> Table]
      BY <2>6, NextTableTyped DEF CountRows
    <3>2. Batch(r, tbl[r]) \subseteq Row
      BY DEF Batch, TypeOK
    <3>3. counted' \in [Runs -> [Table -> SUBSET Row]]
      BY <2>6, <3>2 DEF CountRows, TypeOK
    <3> QED
      BY <2>6, <3>1, <3>3 DEF CountRows, TypeOK
  <2>7. ASSUME NEW r \in Runs, OpenSave(r) PROVE TypeOK'
    BY <2>7 DEF OpenSave, TypeOK
  <2>8. ASSUME NEW r \in Runs, Save(r) PROVE TypeOK'
    <3>1. Batch(r, tbl[r]) \X {r} \subseteq Row \X Runs
      BY DEF Batch, TypeOK
    <3>2. bronze' \in [Table -> SUBSET (Row \X Runs)] /\ paths' \subseteq Table
      BY <2>8, <3>1 DEF Save, TypeOK
    <3> QED
      BY <2>8, <3>2, ReturnsTyped DEF Save, TypeOK
  <2>9. ASSUME NEW r \in Runs, Upsert(r) PROVE TypeOK'
    <3>1. watermark' \in [Table -> Stamp]
      BY <2>9 DEF Upsert, TypeOK
    <3> QED
      BY <2>9, <3>1, ReturnsTyped DEF Upsert, TypeOK
  <2>10. ASSUME NEW r \in Runs, FinishSucceeded(r) PROVE TypeOK'
    <3>1. pc' \in [Runs -> Phase] /\ tbl' \in [Runs -> Table]
      BY <2>10 DEF FinishSucceeded, Goto, TypeOK
    <3>2. mishaps' \in 0 .. MaxMishaps
      BY <2>10, MishapTyped DEF FinishSucceeded, TypeOK
    <3> QED
      BY <2>10, <3>1, <3>2 DEF FinishSucceeded, TypeOK
  <2>11. ASSUME NEW r \in Runs, FinishFailed(r) PROVE TypeOK'
    BY <2>11, ForgetTyped, Blanks DEF FinishFailed, End, TypeOK
  <2>12. ASSUME NEW r \in Runs, Raise(r) PROVE TypeOK'
    BY <2>12, MishapTyped DEF Raise, Goto, TypeOK
  <2>13. ASSUME NEW r \in Runs, Crash(r) PROVE TypeOK'
    BY <2>13, ForgetTyped, MishapTyped, Blanks DEF Crash, End, TypeOK
  <2>14. ASSUME NEW t \in Table, Arrive(t) PROVE TypeOK'
    BY <2>14 DEF Arrive, TypeOK
  <2>15. CASE WipeBronze
    BY <2>15, MishapTyped, Blanks DEF WipeBronze, TypeOK
  <2>16. CASE UNCHANGED vars
    BY <2>16 DEF vars, TypeOK
  <2> QED
    BY <2>1, <2>2, <2>3, <2>4, <2>5, <2>6, <2>7, <2>8, <2>9, <2>10, <2>11,
       <2>12, <2>13, <2>14, <2>15, <2>16 DEF Next, RunStep
<1>3. QED
  BY <1>1, <1>2, PTL DEF Spec

-----------------------------------------------------------------------------
\* Why a watermark can be believed.

\* The argument needs that rows never arrive below rows that are already
\* there, and that a directory which path_exists can see either holds its
\* rows or has never been lost.
Orderly == InOrder /\ ~(EagerDirs /\ Wipes)

\* Tables about which the stored watermark makes a claim.
Trusted(t) == EagerDirs \/ t \in paths

\* S: the rows of a source table, B: the content of its bronze table.
Stamped(S, m) == m = 0 \/ \E row \in S : row.ts = m
Backs(B, S, m) == \A row \in S : row.ts <= m => \E r \in Runs : <<row, r>> \in B

\* Every timestamp in a watermark or in a run is that of a source row.
StampsKnown ==
    \A t \in Table :
        /\ Stamped(source[t], watermark[t])
        /\ \A r \in Runs : /\ Stamped(source[t], eff[r][t])
                           /\ Stamped(source[t], maxv[r][t])

LoadedPhase == {"paths", "validate", "max", "count", "save", "upsert", "finish"}
ReadPhase == LoadedPhase \ {"paths"}

\* The rows a run leaves out of its frames are in bronze.
FramesBacked ==
    \A r \in Runs : pc[r] \in LoadedPhase =>
        \A t \in Table :
            Trusted(t) => Backs(bronze[t], source[t], eff[r][t])

\* While a directory is missing, every run under way reloads everything.
Reloading ==
    \A r \in Runs : pc[r] \in ReadPhase =>
        \A t \in Table : Trusted(t) \/ eff[r][t] = 0

\* The tables that a run has written already.
HasSaved(r, t) == \/ pc[r] = "upsert"
                  \/ pc[r] = "save" /\ t < tbl[r]

SavedBacked ==
    \A r \in Runs, t \in Table :
        HasSaved(r, t) => t \in paths /\ Backs(bronze[t], source[t], maxv[r][t])

StoreBacked ==
    \A t \in Table : Trusted(t) => Backs(bronze[t], source[t], watermark[t])

Backing == /\ StampsKnown /\ StoreBacked /\ FramesBacked
           /\ Reloading /\ SavedBacked

\* What a run has found out about the rows that were there when it started.
Got(B, S) == \A row \in S : \E r \in Runs : <<row, r>> \in B

SeenCounted(r, t) == (pc[r] = "count" /\ t < tbl[r]) =>
    \A row \in seen[r][t] : row.ts > eff[r][t] => row \in counted[r][t]

SeenWritten(r, t) ==
    HasSaved(r, t) \/ pc[r] = "finish" \/ status[r] = "SUCCEEDED"
        => Got(bronze[t], seen[r][t])

SeenAccounted == \A r \in Runs, t \in Table : /\ seen[r][t] \subseteq source[t]
                                              /\ SeenCounted(r, t)
                                              /\ SeenWritten(r, t)

\* What backs a watermark still does when bronze grows.
LEMMA BacksGrow ==
  ASSUME NEW S, NEW B, NEW C, B \subseteq C, NEW m, Backs(B, S, m)
  PROVE  Backs(C, S, m)
  BY DEF Backs

\* A watermark of 0 needs no backing.
LEMMA BacksZero == ASSUME NEW S \in SUBSET Row, NEW B PROVE Backs(B, S, 0)
  BY IngestAssumption DEF Backs, Row

\* A row that arrives later than the watermark needs no backing.
LEMMA BacksArrival ==
  ASSUME NEW S \in SUBSET Row, NEW B, NEW m \in Stamp, NEW new \in Row,
         \A old \in S : old.ts < new.ts, Stamped(S, m)
  PROVE  /\ Stamped(S \cup {new}, m)
         /\ Backs(B, S, m) => Backs(B, S \cup {new}, m)
  BY IngestAssumption DEF Backs, Stamped, Row, Stamp

\* Appending the rows above e completes what the rows up to e began.
LEMMA BacksSave ==
  ASSUME NEW S \in SUBSET Row, NEW B, NEW e \in Stamp, NEW m \in Stamp,
         NEW r \in Runs, Backs(B, S, e)
  PROVE  Backs(B \cup ({row \in S : row.ts > e} \X {r}), S, m)
<1>1. SUFFICES ASSUME NEW row \in S
      PROVE  \E q \in Runs : <<row, q>> \in B \cup ({x \in S : x.ts > e} \X {r})
  BY DEF Backs
<1>2. row.ts <= e \/ row.ts > e
  BY IngestAssumption DEF Row, Stamp
<1>3. CASE row.ts <= e
  BY <1>3 DEF Backs
<1>4. CASE row.ts > e
  BY <1>4
<1> QED
  BY <1>2, <1>3, <1>4

\* Tables compare as numbers.
LEMMA Tables == \A t \in Table : t \in Nat /\ 1 <= t /\ t <= NTables
  BY IngestAssumption DEF Table

\* Where a run goes after a table.
LEMMA NextTablePhase ==
  ASSUME TypeOK, NEW r \in Runs, NEW phase \in Phase, NextTable(r, phase)
  PROVE  /\ \A q \in Runs \ {r} : pc'[q] = pc[q] /\ tbl'[q] = tbl[q]
         /\ \/ pc'[r] = phase /\ tbl'[r] = 1 /\ tbl[r] = NTables
            \/ pc'[r] = pc[r] /\ tbl'[r] = tbl[r] + 1
  BY DEF TypeOK, NextTable

\* Where a run goes after a statement.
LEMMA ReturnsPhase ==
  ASSUME TypeOK, NEW r \in Runs, NEW phase \in Phase, Returns(r, phase)
  PROVE  /\ \A q \in Runs \ {r} : pc'[q] = pc[q] /\ tbl'[q] = tbl[q]
         /\ \/ pc'[r] = phase /\ tbl'[r] = 1 /\ tbl[r] = NTables
            \/ pc'[r] = pc[r] /\ tbl'[r] = tbl[r] + 1
            \/ pc'[r] = "except"
  BY NextTablePhase DEF TypeOK, Returns, Goto

\* A step that writes nothing keeps the claims of runs that read on.
LEMMA QuietStep ==
  ASSUME Backing, StampsKnown',
         UNCHANGED <<source, bronze, paths, watermark, eff>>,
         \A q \in Runs : /\ pc'[q] \in LoadedPhase => pc[q] \in LoadedPhase
                         /\ pc'[q] \in ReadPhase => pc[q] \in ReadPhase,
         \A q \in Runs, t \in Table :
            HasSaved(q, t)' => HasSaved(q, t) /\ maxv'[q][t] = maxv[q][t]
  PROVE  Backing'
  BY DEF Backing, StoreBacked, FramesBacked, Reloading, SavedBacked, Trusted

\* What a frame leaves out is in bronze, also when its directory is missing.
LEMMA FrameComplete ==
  ASSUME TypeOK, Backing, NEW r \in Runs, pc[r] \in ReadPhase, NEW t \in Table
  PROVE  Backs(bronze[t], source[t], eff[r][t])
<1>1. CASE Trusted(t)
  BY <1>1 DEF Backing, FramesBacked, ReadPhase
<1>2. CASE eff[r][t] = 0
  BY <1>2, BacksZero DEF TypeOK
<1>3. Trusted(t) \/ eff[r][t] = 0
  BY DEF Backing, Reloading
<1> QED
  BY <1>1, <1>2, <1>3

\* After a write the table is complete.
LEMMA SaveCompletes ==
  ASSUME TypeOK, Backing, NEW r \in Runs, Save(r), NEW m \in Stamp
  PROVE  Backs(bronze'[tbl[r]], source[tbl[r]], m)
<1> DEFINE u == tbl[r]
<1>1. /\ u \in Table /\ source[u] \in SUBSET Row /\ eff[r][u] \in Stamp
      /\ pc[r] \in ReadPhase
  BY DEF Save, TypeOK, ReadPhase, LoadedPhase
<1>2. bronze'[u] = bronze[u]
                     \cup ({row \in source[u] : row.ts > eff[r][u]} \X {r})
  BY <1>1 DEF Save, Batch, TypeOK
<1> QED
  BY <1>1, <1>2, FrameComplete, BacksSave

\* The inductive invariant of watermarks and claims.
THEOREM IngestBacking == Orderly /\ Spec => []Backing
<1> SUFFICES ASSUME Orderly PROVE Spec => []Backing
  OBVIOUS
<1> USE DEF LoadedPhase, ReadPhase
<1>1. Init => Backing
  BY BacksZero, Blanks DEF Init, Backing, StampsKnown, StoreBacked, FramesBacked,
     Reloading, SavedBacked, HasSaved, Stamped, NoStamps, EmptyTables
<1>2. TypeOK /\ Backing /\ [Next]_vars => Backing'
  <2> SUFFICES ASSUME TypeOK, Backing, [Next]_vars PROVE Backing'
    OBVIOUS
  <2> USE DEF stores, locals
  <2>1. ASSUME NEW r \in Runs, StartRun(r) PROVE Backing'
    BY <2>1 DEF StartRun, Goto, TypeOK, Backing, StampsKnown, StoreBacked,
       FramesBacked, Reloading, SavedBacked, HasSaved, Trusted
  <2>2. ASSUME NEW r \in Runs, LoadWatermarks(r) PROVE Backing'
    BY <2>2 DEF LoadWatermarks, Goto, TypeOK, Backing, StampsKnown, StoreBacked,
       FramesBacked, Reloading, SavedBacked, HasSaved, Trusted
  <2>3. ASSUME NEW r \in Runs, CheckPaths(r) PROVE Backing'
    BY <2>3, BacksZero DEF CheckPaths, Goto, TypeOK, Backing, StampsKnown, StoreBacked,
       FramesBacked, Reloading, SavedBacked, HasSaved, Trusted, NoStamps, Stamped
  <2>4. ASSUME NEW r \in Runs, Validate(r) PROVE Backing'
    <3>1. /\ \A q \in Runs \ {r} : pc'[q] = pc[q] /\ tbl'[q] = tbl[q]
          /\ pc[r] = "validate" /\ pc'[r] \in {"validate", "max", "except"}
      BY <2>4, NextTablePhase, PhaseNames DEF Validate, Goto, TypeOK
    <3> QED
      BY <2>4, <3>1, QuietStep DEF Validate, Backing, StampsKnown, HasSaved
  <2>5. ASSUME NEW r \in Runs, ComputeMax(r) PROVE Backing'
    <3>1. /\ \A q \in Runs \ {r} : pc'[q] = pc[q] /\ tbl'[q] = tbl[q]
          /\ pc[r] = "max" /\ pc'[r] \in {"max", "count"}
      BY <2>5, NextTablePhase, PhaseNames DEF ComputeMax
    <3>2. PICK m \in Stamp : /\ IsLatest(m, Batch(r, tbl[r]))
                             /\ maxv' = [maxv EXCEPT ![r][tbl[r]] = m]
      BY <2>5 DEF ComputeMax
    <3>3. Stamped(source[tbl[r]], m)
      BY <3>2 DEF IsLatest, Batch, Stamped
    <3>4. UNCHANGED <<source, bronze, paths, watermark, eff>>
      BY <2>5 DEF ComputeMax
    <3>5. \A q \in Runs, t \in Table :
             maxv'[q][t] = IF q = r /\ t = tbl[r] THEN m ELSE maxv[q][t]
      BY <3>2 DEF TypeOK
    <3>6. StampsKnown'
      BY <3>3, <3>4, <3>5 DEF Backing, StampsKnown
    <3> QED
      BY <3>1, <3>4, <3>5, <3>6, QuietStep DEF HasSaved
  <2>6. ASSUME NEW r \in Runs, CountRows(r) PROVE Backing'
    <3>1. /\ \A q \in Runs \ {r} : pc'[q] = pc[q] /\ tbl'[q] = tbl[q]
          /\ pc[r] = "count"
          /\ \/ pc'[r] \in {"count", "finish"}
             \/ pc'[r] = "save" /\ tbl'[r] = 1
      BY <2>6, NextTablePhase, PhaseNames DEF CountRows
    <3>2. \A t \in Table : ~HasSaved(r, t)'
      BY <3>1, Tables DEF HasSaved
    <3> QED
      BY <2>6, <3>1, <3>2, QuietStep DEF CountRows, Backing, StampsKnown, HasSaved
  <2>7. ASSUME NEW r \in Runs, OpenSave(r) PROVE Backing'
    BY <2>7 DEF OpenSave, TypeOK, Backing, StampsKnown,
       StoreBacked, FramesBacked, Reloading, SavedBacked, HasSaved, Trusted
  <2>8. ASSUME NEW r \in Runs, Save(r) PROVE Backing'
    <3> DEFINE u == tbl[r]
    <3>1. UNCHANGED <<source, watermark, eff, maxv>> /\ pc[r] = "save" /\ u \in Table
      BY <2>8 DEF Save, TypeOK
    <3>2. /\ bronze' = [bronze EXCEPT ![u] = @ \cup (Batch(r, u) \X {r})]
          /\ paths' = paths \cup {u}
      BY <2>8 DEF Save
    <3>3. /\ \A q \in Runs \ {r} : pc'[q] = pc[q] /\ tbl'[q] = tbl[q]
          /\ \/ pc'[r] = "upsert" /\ u = NTables
             \/ pc'[r] = "save" /\ tbl'[r] = u + 1
             \/ pc'[r] = "except"
      BY <2>8, ReturnsPhase, PhaseNames DEF Save
    <3>4. \A t \in Table : HasSaved(r, t)' => t = u \/ HasSaved(r, t)
      BY <3>1, <3>3, Tables DEF HasSaved
    <3>5. \A t \in Table : bronze[t] \subseteq bronze'[t]
      BY <3>2 DEF TypeOK
    <3>6. \A t \in Table : \A m : Backs(bronze[t], source[t], m)
                                    => Backs(bronze'[t], source[t], m)
      BY <3>5 DEF Backs
    <3>8. \A m \in Stamp : Backs(bronze'[u], source[u], m)
      BY <2>8, SaveCompletes
    <3>9. StampsKnown'
      BY <3>1 DEF Backing, StampsKnown
    <3>10. StoreBacked'
      <4> SUFFICES ASSUME NEW t \in Table, Trusted(t)'
                   PROVE  Backs(bronze'[t], source'[t], watermark'[t])
        BY DEF StoreBacked
      <4>1. Trusted(t) \/ t = u
        BY <3>2 DEF Trusted
      <4>2. watermark[t] \in Stamp
        BY DEF TypeOK
      <4> QED
        BY <4>1, <4>2, <3>1, <3>6, <3>8 DEF Backing, StoreBacked
    <3>11. FramesBacked'
      <4> SUFFICES ASSUME NEW q \in Runs, pc'[q] \in LoadedPhase,
                          NEW t \in Table, Trusted(t)'
                   PROVE  Backs(bronze'[t], source'[t], eff'[q][t])
        BY DEF FramesBacked
      <4>1. Trusted(t) \/ t = u
        BY <3>2 DEF Trusted
      <4>2. pc[q] \in LoadedPhase
        BY <3>1, <3>3
      <4>3. eff[q][t] \in Stamp
        BY DEF TypeOK
      <4> QED
        BY <4>1, <4>2, <4>3, <3>1, <3>6, <3>8 DEF Backing, FramesBacked
    <3>12. Reloading'
      BY <3>1, <3>2, <3>3 DEF Backing, Reloading, Trusted
    <3>13. SavedBacked'
      <4> SUFFICES ASSUME NEW q \in Runs, NEW t \in Table, HasSaved(q, t)'
                   PROVE  t \in paths' /\ Backs(bronze'[t], source'[t], maxv'[q][t])
        BY DEF SavedBacked
      <4>1. HasSaved(q, t) \/ t = u
        BY <3>3, <3>4 DEF HasSaved
      <4>2. maxv[q][t] \in Stamp
        BY DEF TypeOK
      <4> QED
        BY <4>1, <4>2, <3>1, <3>2, <3>6, <3>8 DEF Backing, SavedBacked
    <3> QED
      BY <3>9, <3>10, <3>11, <3>12, <3>13 DEF Backing
  <2>9. ASSUME NEW r \in Runs, Upsert(r) PROVE Backing'
    <3> DEFINE u == tbl[r]
    <3>1. /\ UNCHANGED <<source, bronze, paths, eff, maxv>>
          /\ pc[r] = "upsert" /\ u \in Table
      BY <2>9 DEF Upsert, TypeOK
    <3>2. /\ \A q \in Runs \ {r} : pc'[q] = pc[q] /\ tbl'[q] = tbl[q]
          /\ pc'[r] \in {"upsert", "finish", "except"}
      BY <2>9, ReturnsPhase, PhaseNames DEF Upsert
    <3>3. \A t \in Table : \/ watermark'[t] = watermark[t]
                           \/ t = u /\ watermark'[t] = maxv[r][t]
      BY <2>9 DEF Upsert, TypeOK
    <3>4. StampsKnown' /\ StoreBacked'
      BY <3>1, <3>3 DEF Backing, StampsKnown, StoreBacked, SavedBacked, HasSaved, Trusted
    <3>5. FramesBacked' /\ Reloading' /\ SavedBacked'
      BY <3>1, <3>2 DEF Backing, FramesBacked, Reloading, SavedBacked, HasSaved, Trusted
    <3> QED
      BY <3>4, <3>5 DEF Backing
  <2>10. ASSUME NEW r \in Runs, FinishSucceeded(r) PROVE Backing'
    BY <2>10 DEF FinishSucceeded, Goto, TypeOK, Backing, StampsKnown, StoreBacked,
       FramesBacked, Reloading, SavedBacked, HasSaved, Trusted
  <2>11. ASSUME NEW r \in Runs, FinishFailed(r) PROVE Backing'
    BY <2>11 DEF FinishFailed, End, Forget, TypeOK, Backing, StampsKnown, StoreBacked,
       FramesBacked, Reloading, SavedBacked, HasSaved, Trusted, NoStamps, Stamped
  <2>12. ASSUME NEW r \in Runs, Raise(r) PROVE Backing'
    BY <2>12 DEF Raise, Goto, TypeOK, Backing, StampsKnown, StoreBacked,
       FramesBacked, Reloading, SavedBacked, HasSaved, Trusted
  <2>13. ASSUME NEW r \in Runs, Crash(r) PROVE Backing'
    BY <2>13 DEF Crash, End, Forget, TypeOK, Backing, StampsKnown, StoreBacked,
       FramesBacked, Reloading, SavedBacked, HasSaved, Trusted, NoStamps, Stamped
  <2>14. ASSUME NEW t \in Table, Arrive(t) PROVE Backing'
    <3>1. PICK new \in Row : /\ \A old \in source[t] : old.ts < new.ts
                             /\ source' = [source EXCEPT ![t] = @ \cup {new}]
      BY <2>14 DEF Arrive, Orderly
    <3>2. ASSUME NEW u \in Table, NEW m \in Stamp, Stamped(source[u], m)
          PROVE  /\ Stamped(source'[u], m)
                 /\ Backs(bronze[u], source[u], m) => Backs(bronze[u], source'[u], m)
      BY <3>1, <3>2, BacksArrival DEF TypeOK
    <3>3. UNCHANGED <<bronze, paths, watermark, status, pc, tbl, eff, maxv>>
      BY <2>14 DEF Arrive
    <3>4. /\ watermark \in [Table -> Stamp]
          /\ eff \in [Runs -> [Table -> Stamp]] /\ maxv \in [Runs -> [Table -> Stamp]]
      BY DEF TypeOK
    <3> QED
      BY <3>2, <3>3, <3>4 DEF Backing, StampsKnown, StoreBacked,
         FramesBacked, Reloading, SavedBacked, HasSaved, Trusted
  <2>15. CASE WipeBronze
    BY <2>15 DEF WipeBronze, Orderly, Active, ActivePhase, TryPhase, TypeOK, Backing,
       StampsKnown, StoreBacked, FramesBacked, Reloading, SavedBacked, HasSaved, Trusted
  <2>16. CASE UNCHANGED vars
    BY <2>16 DEF vars, Backing, StampsKnown, StoreBacked,
       FramesBacked, Reloading, SavedBacked, HasSaved, Trusted
  <2> QED
    BY <2>1, <2>2, <2>3, <2>4, <2>5, <2>6, <2>7, <2>8, <2>9, <2>10, <2>11,
       <2>12, <2>13, <2>14, <2>15, <2>16 DEF Next, RunStep
<1>3. QED
  BY <1>1, <1>2, IngestTyped, PTL DEF Spec

-----------------------------------------------------------------------------
\* Main results.

\* Under orderly arrivals no stored watermark ever claims a row that bronze
\* lacks, whatever runs overlap, raise, die or are repeated.
THEOREM IngestWatermarkCovered == Orderly /\ Spec => []WatermarkCovered
<1> SUFFICES ASSUME Orderly PROVE Spec => []WatermarkCovered
  OBVIOUS
<1>1. TypeOK /\ Backing => WatermarkCovered
  BY DEF TypeOK, Backing, StoreBacked, Trusted, Backs, WatermarkCovered, Covered, Delivered
<1> QED
  BY <1>1, IngestTyped, IngestBacking, PTL

\* What a run has got, it still has when bronze grows.
LEMMA GotGrow == ASSUME NEW S, NEW B, NEW C, B \subseteq C, Got(B, S)
                 PROVE  Got(C, S)
  BY DEF Got

\* Steps that write nothing, start nothing and finish nothing.
LEMMA SeenQuiet ==
  ASSUME SeenAccounted, UNCHANGED <<source, bronze, seen, status>>,
         \A q \in Runs, t \in Table :
            /\ SeenCounted(q, t)'
            /\ HasSaved(q, t)' \/ pc'[q] = "finish"
                 => HasSaved(q, t) \/ pc[q] = "finish"
  PROVE  SeenAccounted'
  BY DEF SeenAccounted, SeenWritten

\* The inductive invariant of what a run has seen of its tables.
LEMMA IngestSeen == Orderly /\ Spec => []SeenAccounted
<1> SUFFICES ASSUME Orderly PROVE Spec => []SeenAccounted
  OBVIOUS
<1>1. Init => SeenAccounted
  BY Blanks DEF Init, SeenAccounted, SeenCounted, SeenWritten, Got, EmptyTables
<1>2. TypeOK /\ Backing /\ SeenAccounted /\ [Next]_vars => SeenAccounted'
  <2> SUFFICES ASSUME TypeOK, Backing, SeenAccounted, [Next]_vars
               PROVE  SeenAccounted'
    OBVIOUS
  <2> USE DEF stores, locals
  <2>1. ASSUME NEW r \in Runs, StartRun(r) PROVE SeenAccounted'
    BY <2>1 DEF StartRun, Goto, TypeOK, SeenAccounted, SeenCounted, SeenWritten,
       HasSaved
  <2>2. ASSUME NEW r \in Runs, LoadWatermarks(r) PROVE SeenAccounted'
    BY <2>2, SeenQuiet DEF LoadWatermarks, Goto, TypeOK, SeenAccounted, SeenCounted,
       HasSaved
  <2>3. ASSUME NEW r \in Runs, CheckPaths(r) PROVE SeenAccounted'
    BY <2>3, SeenQuiet DEF CheckPaths, Goto, TypeOK, SeenAccounted, SeenCounted,
       HasSaved
  <2>4. ASSUME NEW r \in Runs, Validate(r) PROVE SeenAccounted'
    <3>1. /\ \A q \in Runs \ {r} : pc'[q] = pc[q] /\ tbl'[q] = tbl[q]
          /\ pc[r] = "validate" /\ pc'[r] \in {"validate", "max", "except"}
      BY <2>4, NextTablePhase, PhaseNames DEF Validate, Goto, TypeOK
    <3> QED
      BY <2>4, <3>1, SeenQuiet DEF Validate, SeenAccounted, SeenCounted, HasSaved
  <2>5. ASSUME NEW r \in Runs, ComputeMax(r) PROVE SeenAccounted'
    <3>1. /\ \A q \in Runs \ {r} : pc'[q] = pc[q] /\ tbl'[q] = tbl[q]
          /\ pc[r] = "max"
          /\ \/ pc'[r] = "max"
             \/ pc'[r] = "count" /\ tbl'[r] = 1
      BY <2>5, NextTablePhase, PhaseNames DEF ComputeMax
    <3> QED
      BY <2>5, <3>1, Tables, SeenQuiet
      DEF ComputeMax, SeenAccounted, SeenCounted, HasSaved
  <2>6. ASSUME NEW r \in Runs, CountRows(r) PROVE SeenAccounted'
    <3> DEFINE u == tbl[r]
    <3>1. /\ UNCHANGED <<source, bronze, status, eff, seen>>
          /\ pc[r] = "count" /\ u \in Table
      BY <2>6 DEF CountRows, TypeOK
    <3>2. /\ \A q \in Runs \ {r} : pc'[q] = pc[q] /\ tbl'[q] = tbl[q]
          /\ \/ pc'[r] = "count" /\ tbl'[r] = u + 1
             \/ pc'[r] = "save" /\ tbl'[r] = 1
             \/ pc'[r] = "finish" /\ u = NTables /\ counted'[r] = EmptyTables
      BY <2>6, NextTablePhase, PhaseNames DEF CountRows
    <3>3. /\ \A q \in Runs \ {r} : counted'[q] = counted[q]
          /\ \A t \in Table : counted'[r][t] = IF t = u THEN Batch(r, u)
                                                        ELSE counted[r][t]
      BY <2>6 DEF CountRows, TypeOK
    <3>4. ASSUME NEW t \in Table, t <= u, NEW row \in seen[r][t], row.ts > eff[r][t]
          PROVE  row \in counted'[r][t]
      <4>1. CASE t = u
        BY <3>3, <3>4, <4>1 DEF SeenAccounted, Batch
      <4>2. CASE t # u
        <5>1. t < u
          BY <3>1, <3>4, <4>2, Tables
        <5> QED
          BY <3>1, <3>3, <3>4, <4>2, <5>1 DEF SeenAccounted, SeenCounted
      <4> QED
        BY <4>1, <4>2
    <3>5. ASSUME pc'[r] = "finish", NEW t \in Table PROVE Got(bronze[t], seen[r][t])
      <4> SUFFICES ASSUME NEW row \in seen[r][t]
                   PROVE  \E q \in Runs : <<row, q>> \in bronze[t]
        BY DEF Got
      <4>1. ~(row.ts > eff[r][t])
        BY <3>2, <3>4, <3>5, Tables DEF EmptyTables
      <4>2. row \in source[t] /\ row \in Row /\ eff[r][t] \in Stamp
        BY DEF SeenAccounted, TypeOK
      <4>3. row.ts <= eff[r][t]
        BY <4>1, <4>2, IngestAssumption DEF Row, Stamp
      <4>4. Backs(bronze[t], source[t], eff[r][t])
        BY <3>1, FrameComplete DEF ReadPhase, LoadedPhase
      <4> QED
        BY <4>2, <4>3, <4>4 DEF Backs
    <3>6. ASSUME NEW q \in Runs, NEW t \in Table PROVE SeenCounted(q, t)'
      <4>1. CASE q # r
        BY <3>1, <3>2, <3>3, <4>1 DEF SeenAccounted, SeenCounted
      <4>2. CASE q = r
        <5> SUFFICES ASSUME pc'[r] = "count", t < tbl'[r]
                     PROVE  \A row \in seen[r][t] :
                               row.ts > eff[r][t] => row \in counted'[r][t]
          BY <3>1, <4>2 DEF SeenCounted
        <5>1. t <= u
          BY <3>1, <3>2, Tables
        <5> QED
          BY <3>4, <5>1
      <4> QED
        BY <4>1, <4>2
    <3>7. ASSUME NEW q \in Runs, NEW t \in Table PROVE SeenWritten(q, t)'
      <4>1. CASE q # r
        BY <3>1, <3>2, <4>1 DEF SeenAccounted, SeenWritten, HasSaved
      <4>2. CASE q = r
        BY <3>1, <3>2, <3>5, <4>2, Tables DEF SeenAccounted, SeenWritten, HasSaved
      <4> QED
        BY <4>1, <4>2
    <3> QED
      BY <3>1, <3>6, <3>7 DEF SeenAccounted
  <2>7. ASSUME NEW r \in Runs, OpenSave(r) PROVE SeenAccounted'
    BY <2>7, SeenQuiet DEF OpenSave, SeenAccounted, SeenCounted, HasSaved
  <2>8. ASSUME NEW r \in Runs, Save(r) PROVE SeenAccounted'
    <3> DEFINE u == tbl[r]
    <3>1. /\ UNCHANGED <<source, status, eff, counted, seen>>
          /\ pc[r] = "save" /\ u \in Table
      BY <2>8 DEF Save, TypeOK
    <3>2. \A t \in Table : bronze[t] \subseteq bronze'[t]
      BY <2>8 DEF Save, TypeOK
    <3>3. /\ \A q \in Runs \ {r} : pc'[q] = pc[q] /\ tbl'[q] = tbl[q]
          /\ \/ pc'[r] = "upsert" /\ u = NTables
             \/ pc'[r] = "save" /\ tbl'[r] = u + 1
             \/ pc'[r] = "except"
      BY <2>8, ReturnsPhase, PhaseNames DEF Save
    <3>4. ASSUME NEW t \in Table, HasSaved(r, t)' PROVE Got(bronze'[t], seen[r][t])
      <4>1. t < u \/ t = u
        BY <3>1, <3>3, <3>4, Tables DEF HasSaved
      <4>2. CASE t < u
        BY <3>1, <3>2, <4>2, GotGrow DEF SeenAccounted, SeenWritten, HasSaved
      <4>3. CASE t = u
        <5>1. \A row \in source[u] : row.ts <= MaxTs
          BY <3>1, IngestAssumption DEF TypeOK, Row
        <5>2. MaxTs \in Stamp
          BY IngestAssumption DEF Stamp
        <5>3. Backs(bronze'[u], source[u], MaxTs)
          BY <2>8, <5>2, SaveCompletes
        <5> QED
          BY <4>3, <5>1, <5>3 DEF Backs, Got, SeenAccounted
      <4> QED
        BY <4>1, <4>2, <4>3
    <3>5. ASSUME NEW q \in Runs, NEW t \in Table PROVE SeenWritten(q, t)'
      <4>1. Got(bronze[t], seen[q][t]) => Got(bronze'[t], seen[q][t])
        BY <3>2, GotGrow
      <4>2. CASE q # r
        BY <3>1, <3>3, <4>1, <4>2 DEF SeenAccounted, SeenWritten, HasSaved
      <4>3. CASE q = r
        BY <3>1, <3>3, <3>4, <4>1, <4>3 DEF SeenAccounted, SeenWritten
      <4> QED
        BY <4>2, <4>3
    <3>6. ASSUME NEW q \in Runs, NEW t \in Table PROVE SeenCounted(q, t)'
      BY <3>1, <3>3 DEF SeenAccounted, SeenCounted
    <3> QED
      BY <3>1, <3>5, <3>6 DEF SeenAccounted
  <2>9. ASSUME NEW r \in Runs, Upsert(r) PROVE SeenAccounted'
    <3>1. /\ \A q \in Runs \ {r} : pc'[q] = pc[q] /\ tbl'[q] = tbl[q]
          /\ pc[r] = "upsert" /\ pc'[r] \in {"upsert", "finish", "except"}
      BY <2>9, ReturnsPhase, PhaseNames DEF Upsert
    <3> QED
      BY <2>9, <3>1, SeenQuiet DEF Upsert, SeenAccounted, SeenCounted, HasSaved
  <2>10. ASSUME NEW r \in Runs, FinishSucceeded(r) PROVE SeenAccounted'
    BY <2>10 DEF FinishSucceeded, Goto, TypeOK, SeenAccounted, SeenCounted,
       SeenWritten, HasSaved
  <2>11. ASSUME NEW r \in Runs, FinishFailed(r) PROVE SeenAccounted'
    BY <2>11, Blanks DEF FinishFailed, End, Forget, TypeOK, SeenAccounted, SeenCounted,
       SeenWritten, HasSaved, EmptyTables, Got
  <2>12. ASSUME NEW r \in Runs, Raise(r) PROVE SeenAccounted'
    BY <2>12, SeenQuiet DEF Raise, Goto, TypeOK, SeenAccounted, SeenCounted, HasSaved
  <2>13. ASSUME NEW r \in Runs, Crash(r) PROVE SeenAccounted'
    BY <2>13, Blanks DEF Crash, End, Forget, TypeOK, SeenAccounted, SeenCounted,
       SeenWritten, HasSaved, EmptyTables, Got
  <2>14. ASSUME NEW t \in Table, Arrive(t) PROVE SeenAccounted'
    BY <2>14 DEF Arrive, TypeOK, SeenAccounted, SeenCounted, SeenWritten, HasSaved
  <2>15. CASE WipeBronze
    BY <2>15 DEF WipeBronze, Active, ActivePhase, TryPhase, TypeOK, SeenAccounted,
       SeenCounted, SeenWritten, HasSaved, EmptyTables, Got
  <2>16. CASE UNCHANGED vars
    BY <2>16 DEF vars, SeenAccounted, SeenCounted, SeenWritten, HasSaved
  <2> QED
    BY <2>1, <2>2, <2>3, <2>4, <2>5, <2>6, <2>7, <2>8, <2>9, <2>10, <2>11,
       <2>12, <2>13, <2>14, <2>15, <2>16 DEF Next, RunStep
<1> QED
  BY <1>1, <1>2, IngestTyped, IngestBacking, PTL DEF Spec

\* A run that says SUCCEEDED has replicated all that it found at its start.
THEOREM IngestSucceededReplicates == Orderly /\ Spec => []SucceededReplicates
<1> SUFFICES ASSUME Orderly PROVE Spec => []SucceededReplicates
  OBVIOUS
<1>1. TypeOK /\ SeenAccounted => SucceededReplicates
  BY DEF TypeOK, SeenAccounted, SeenWritten, Got, SucceededReplicates, Delivered
<1> QED
  BY <1>1, IngestTyped, IngestSeen, PTL

-----------------------------------------------------------------------------
\* The job implements the promise.

\* A step that leaves source, bronze, paths and watermark alone stutters.
LEMMA StoreStutter ==
  ASSUME UNCHANGED <<source, bronze, paths, watermark>>
  PROVE  UNCHANGED Replica!vars
  BY DEF Replica!vars, Delivered

\* Backing is what the abstract specification calls covered.
LEMMA BackedAsCovered ==
  ASSUME TypeOK, NEW t \in Table, NEW m
  PROVE  Backs(bronze[t], source[t], m) <=> Replica!Backed(t, m, Delivered(t))
  BY DEF TypeOK, Backs, Replica!Backed, Delivered

\* Writing a batch to bronze is a delivery of the abstract specification.
LEMMA SaveDelivers ==
  ASSUME TypeOK, Backing, NEW r \in Runs, Save(r), NEW u \in Table, u = tbl[r]
  PROVE  Replica!Deliver(u, Batch(r, u))
<1>1. UNCHANGED <<source, watermark>> /\ paths' = paths \cup {u}
  BY DEF Save
<1>2. bronze' = [bronze EXCEPT ![u] = @ \cup (Batch(r, u) \X {r})]
  BY DEF Save
<1>3. \A t \in Table : Delivered(t)' = IF t = u THEN Delivered(t) \cup Batch(r, u)
                                              ELSE Delivered(t)
  <2> SUFFICES ASSUME NEW t \in Table
               PROVE  Delivered(t)' = IF t = u THEN Delivered(t) \cup Batch(r, u)
                                               ELSE Delivered(t)
    OBVIOUS
  <2>1. Batch(r, u) \subseteq Row
    BY DEF Batch, TypeOK
  <2>2. CASE t # u
    <3>1. bronze'[t] = bronze[t]
      BY <1>2, <2>2 DEF TypeOK
    <3> QED
      BY <2>2, <3>1 DEF Delivered
  <2>3. CASE t = u
    <3>1. bronze'[t] = bronze[t] \cup (Batch(r, u) \X {r})
      BY <1>2, <2>3 DEF TypeOK
    <3> QED
      BY <2>1, <2>3, <3>1 DEF Delivered
  <2> QED
    BY <2>2, <2>3
<1>4. Replica!Backed(u, watermark[u], Delivered(u) \cup Batch(r, u))
  <2>1. watermark[u] \in Stamp
    BY DEF TypeOK
  <2>2. Backs(bronze'[u], source[u], watermark[u])
    BY <2>1, SaveCompletes
  <2>3. Delivered(u)' = Delivered(u) \cup Batch(r, u)
    BY <1>3
  <2>4. \A row \in source[u] : row.ts <= watermark[u] => row \in Delivered(u)'
    BY <2>2 DEF TypeOK, Backs, Delivered
  <2> QED
    BY <2>3, <2>4 DEF Replica!Backed
<1> QED
  BY <1>1, <1>3, <1>4 DEF Replica!Deliver

\* Every step of the job is a step of Replication or a stuttering step.
THEOREM IngestImplementsReplication == Orderly /\ Spec => ImplementsReplication
<1> SUFFICES ASSUME Orderly PROVE Spec => Replica!Spec
  BY DEF ImplementsReplication
<1>1. Init => Replica!Init
  BY DEF Init, Replica!Init, Delivered, EmptyTables, NoStamps
<1>2. TypeOK /\ Backing /\ [Next]_vars => [Replica!Next]_Replica!vars
  <2> SUFFICES ASSUME TypeOK, Backing, [Next]_vars
               PROVE  Replica!Next \/ UNCHANGED Replica!vars
    OBVIOUS
  <2> USE DEF stores, locals
  <2>1. ASSUME NEW r \in Runs,
               \/ StartRun(r) \/ LoadWatermarks(r) \/ CheckPaths(r) \/ Validate(r)
               \/ ComputeMax(r) \/ CountRows(r) \/ FinishSucceeded(r)
               \/ FinishFailed(r) \/ Raise(r) \/ Crash(r)
        PROVE  UNCHANGED Replica!vars
    <3>1. UNCHANGED <<source, bronze, paths, watermark>>
      BY <2>1 DEF StartRun, LoadWatermarks, CheckPaths, Validate, ComputeMax,
         CountRows, FinishSucceeded, FinishFailed, Raise, Crash
    <3> QED
      BY <3>1, StoreStutter
  <2>2. ASSUME NEW r \in Runs, OpenSave(r) PROVE Replica!Next
    <3> DEFINE u == tbl[r]
    <3>1. /\ UNCHANGED <<source, bronze, watermark>> /\ u \in Table /\ EagerDirs
          /\ paths' = paths \cup {u}
      BY <2>2 DEF OpenSave, TypeOK
    <3>2. Replica!Backed(u, watermark[u], Delivered(u))
      BY <3>1, BackedAsCovered DEF Backing, StoreBacked, Trusted
    <3>3. [t \in Table |-> Delivered(t)]' = [t \in Table |-> Delivered(t)]
      BY <3>1 DEF Delivered
    <3>4. Replica!Deliver(u, {})
      BY <3>1, <3>2, <3>3 DEF Replica!Deliver
    <3> QED
      BY <3>1, <3>4 DEF Replica!Next
  <2>3. ASSUME NEW r \in Runs, Save(r) PROVE Replica!Next
    <3>1. PICK u \in Table : u = tbl[r]
      BY DEF TypeOK
    <3>2. Batch(r, u) \in SUBSET source[u]
      BY DEF Batch
    <3> QED
      BY <2>3, <3>1, <3>2, SaveDelivers DEF Replica!Next
  <2>4. ASSUME NEW r \in Runs, Upsert(r) PROVE Replica!Next \/ UNCHANGED Replica!vars
    <3> DEFINE u == tbl[r]
    <3>1. UNCHANGED <<source, bronze, paths>> /\ u \in Table /\ pc[r] = "upsert"
      BY <2>4 DEF Upsert, TypeOK
    <3>2. CASE maxv[r][u] = 0
      BY <2>4, <3>1, <3>2, StoreStutter DEF Upsert
    <3>3. CASE maxv[r][u] # 0
      <4>1. PICK row \in source[u] : row.ts = maxv[r][u]
        BY <3>1, <3>3 DEF Backing, StampsKnown, Stamped
      <4>2. u \in paths /\ Replica!Backed(u, row.ts, Delivered(u))
        BY <3>1, <4>1, BackedAsCovered DEF Backing, SavedBacked, HasSaved
      <4>3. watermark' = [watermark EXCEPT ![u] = row.ts]
        BY <2>4, <3>3, <4>1 DEF Upsert
      <4>4. [t \in Table |-> Delivered(t)]' = [t \in Table |-> Delivered(t)]
        BY <3>1 DEF Delivered
      <4>5. Replica!Vouch(u, row.ts)
        BY <3>1, <4>2, <4>3, <4>4 DEF Replica!Vouch
      <4> QED
        BY <3>1, <4>5 DEF Replica!Next
    <3> QED
      BY <3>2, <3>3
  <2>5. ASSUME NEW t \in Table, Arrive(t) PROVE Replica!Next
    <3>1. PICK new \in Row : /\ \A old \in source[t] : old.ts < new.ts
                             /\ source' = [source EXCEPT ![t] = @ \cup {new}]
      BY <2>5 DEF Arrive, Orderly
    <3>2. UNCHANGED <<bronze, paths, watermark>>
      BY <2>5 DEF Arrive
    <3>3. new.ts > watermark[t]
      BY <3>1, IngestAssumption DEF Backing, StampsKnown, Stamped, Row
    <3>4. [u \in Table |-> Delivered(u)]' = [u \in Table |-> Delivered(u)]
      BY <3>2 DEF Delivered
    <3> QED
      BY <3>1, <3>2, <3>3, <3>4 DEF Replica!Next, Replica!Arrive
  <2>6. CASE WipeBronze
    <3>1. [t \in Table |-> Delivered(t)]' = [t \in Table |-> {}]
      BY <2>6 DEF WipeBronze, Delivered, EmptyTables
    <3> QED
      BY <2>6, <3>1, Blanks DEF WipeBronze, Replica!Next, Replica!Lose
  <2>7. CASE UNCHANGED vars
    BY <2>7, StoreStutter DEF vars
  <2> QED
    BY <2>1, <2>2, <2>3, <2>4, <2>5, <2>6, <2>7 DEF Next, RunStep
<1> QED
  BY <1>1, <1>2, IngestTyped, IngestBacking, PTL DEF Spec, Replica!Spec

-----------------------------------------------------------------------------
\* What the runs show in job_control_runs, overlapping or not.

\* A run has a row once it has started; while it is in the try block the row
\* says STARTED, and only a raised update leaves SUCCEEDED to be corrected.
Reported ==
    \A r \in Runs : /\ pc[r] = "idle" => status[r] = "none"
                    /\ pc[r] \in TryPhase => status[r] = "STARTED"
                    /\ pc[r] = "except" => status[r] \in {"STARTED", "SUCCEEDED"}

\* A step of one run that leaves the rows of job_control_runs alone.
LEMMA ReportedQuiet ==
  ASSUME TypeOK, Reported, NEW r \in Runs, status' = status,
         pc[r] \in TryPhase \/ pc'[r] = "dead",
         pc'[r] \in TryPhase \cup {"except", "dead"},
         \A q \in Runs \ {r} : pc'[q] = pc[q]
  PROVE  Reported'
  BY DEF Reported, TryPhase

\* Every step is a step of JobControl or does not touch the rows.
LEMMA ReportedStep ==
  ASSUME TypeOK, Reported, [Next]_vars
  PROVE  Reported' /\ [Control!Next]_status
<1> USE DEF stores, locals
<1>1. ASSUME NEW r \in Runs, StartRun(r) PROVE Reported' /\ Control!Start(r)
  BY <1>1 DEF StartRun, Goto, TypeOK, Reported, TryPhase, Control!Start
<1>2. ASSUME NEW r \in Runs, LoadWatermarks(r) \/ CheckPaths(r) \/ Raise(r)
      PROVE  Reported' /\ status' = status
  <2>1. /\ pc[r] \in TryPhase /\ status' = status
        /\ Goto(r, "paths") \/ Goto(r, "validate") \/ Goto(r, "except")
    BY <1>2 DEF LoadWatermarks, CheckPaths, Raise, TryPhase
  <2>2. /\ pc'[r] \in TryPhase \cup {"except"}
        /\ \A q \in Runs \ {r} : pc'[q] = pc[q]
    BY <2>1 DEF Goto, TypeOK, TryPhase
  <2> QED
    BY <2>1, <2>2, ReportedQuiet
<1>3. ASSUME NEW r \in Runs,
             Validate(r) \/ ComputeMax(r) \/ CountRows(r) \/ Save(r) \/ Upsert(r)
      PROVE  Reported' /\ status' = status
  <2>1. pc[r] \in TryPhase /\ status' = status
    BY <1>3 DEF Validate, ComputeMax, CountRows, Save, Upsert, TryPhase
  <2>2. PICK phase \in {"max", "count", "save", "upsert", "finish"} :
           NextTable(r, phase) \/ Goto(r, "except")
    BY <1>3 DEF Validate, ComputeMax, CountRows, Save, Upsert, Returns
  <2>3. phase \in Phase
    BY PhaseNames
  <2>4. /\ pc'[r] \in {pc[r], phase, "except"}
        /\ \A q \in Runs \ {r} : pc'[q] = pc[q]
    BY <2>2, <2>3, NextTablePhase DEF Goto, TypeOK
  <2>5. pc'[r] \in TryPhase \cup {"except"}
    BY <2>1, <2>4 DEF TryPhase
  <2> QED
    BY <2>1, <2>4, <2>5, ReportedQuiet
<1>4. ASSUME NEW r \in Runs, FinishSucceeded(r) PROVE Reported' /\ Control!Succeed(r)
  <2>1. pc[r] = "finish" /\ status[r] = "STARTED"
    BY <1>4 DEF FinishSucceeded, Reported, TryPhase
  <2>2. /\ pc'[r] \in {"done", "except"}
        /\ \A q \in Runs \ {r} : pc'[q] = pc[q]
    BY <1>4 DEF FinishSucceeded, Goto, TypeOK
  <2>3. /\ status' = [status EXCEPT ![r] = "SUCCEEDED"]
        /\ status'[r] = "SUCCEEDED" /\ \A q \in Runs \ {r} : status'[q] = status[q]
    BY <1>4 DEF FinishSucceeded, TypeOK
  <2> QED
    BY <2>1, <2>2, <2>3 DEF Reported, TryPhase, Control!Succeed
<1>5. ASSUME NEW r \in Runs, FinishFailed(r) PROVE Reported' /\ Control!Fail(r)
  <2>1. pc[r] = "except" /\ status[r] \in {"STARTED", "SUCCEEDED"}
    BY <1>5 DEF FinishFailed, Reported
  <2>2. pc'[r] = "done" /\ \A q \in Runs \ {r} : pc'[q] = pc[q]
    BY <1>5 DEF FinishFailed, End, TypeOK
  <2>3. /\ status' = [status EXCEPT ![r] = "FAILED"]
        /\ \A q \in Runs \ {r} : status'[q] = status[q]
    BY <1>5 DEF FinishFailed, TypeOK
  <2> QED
    BY <2>1, <2>2, <2>3 DEF Reported, TryPhase, Control!Fail
<1>6. ASSUME NEW r \in Runs, Crash(r) PROVE Reported' /\ status' = status
  <2>1. /\ status' = status /\ pc'[r] = "dead"
        /\ \A q \in Runs \ {r} : pc'[q] = pc[q]
    BY <1>6 DEF Crash, End, TypeOK
  <2> QED
    BY <2>1, ReportedQuiet
<1>7. ASSUME NEW r \in Runs, OpenSave(r) PROVE Reported' /\ status' = status
  BY <1>7 DEF OpenSave, Reported
<1>8. ASSUME NEW t \in Table, Arrive(t) PROVE Reported' /\ status' = status
  BY <1>8 DEF Arrive, Reported
<1>9. CASE WipeBronze \/ UNCHANGED vars
  BY <1>9 DEF WipeBronze, vars, Reported
<1> QED
  BY <1>1, <1>2, <1>3, <1>4, <1>5, <1>6, <1>7, <1>8, <1>9
  DEF Next, RunStep, Control!Next

\* In every state, a run's row and its phase agree.
LEMMA IngestReported == Spec => []Reported
<1>1. Init => Reported
  BY DEF Init, Reported, TryPhase
<1> QED
  BY <1>1, ReportedStep, IngestTyped, PTL DEF Spec

\* The rows of the ingest job behave as JobControl says.
THEOREM IngestImplementsJobControl == Spec => ImplementsJobControl
<1> SUFFICES Spec => Control!Spec
  BY DEF ImplementsJobControl
<1>1. Init => Control!Init
  BY DEF Init, Control!Init
<1> QED
  BY <1>1, ReportedStep, IngestReported, IngestTyped, PTL DEF Spec, Control!Spec

-----------------------------------------------------------------------------
\* The rows a run counted, overlapping or not.

\* Nothing is counted before the paths are checked; what is counted is in
\* the frame that the write evaluates, and what is written has the run's mark.
CountedRows(r, t) ==
    /\ pc[r] \in {"idle", "load", "paths"} => counted[r][t] = {}
    /\ pc[r] \in {"validate", "max", "count", "save"} => counted[r][t] \subseteq Batch(r, t)
    /\ HasSaved(r, t) \/ pc[r] = "finish" => counted[r][t] \X {r} \subseteq bronze[t]

CountsKept == \A r \in Runs, t \in Table : CountedRows(r, t)

\* What a bystander counted is disturbed by no growth of source and bronze.
LEMMA CountedGrows ==
  ASSUME CountsKept, NEW q \in Runs, NEW t \in Table,
         pc'[q] = pc[q], tbl'[q] = tbl[q], counted'[q] = counted[q], eff'[q] = eff[q],
         source[t] \subseteq source'[t], bronze[t] \subseteq bronze'[t]
  PROVE  CountedRows(q, t)'
  BY DEF CountsKept, CountedRows, Batch, HasSaved

\* Every step keeps the counts.
LEMMA CountsStep ==
  ASSUME TypeOK, CountsKept, [Next]_vars
  PROVE  CountsKept'
<1> USE DEF stores, locals
<1>1. ASSUME NEW r \in Runs,
             UNCHANGED <<source, eff, counted>>,
             \A t \in Table : bronze[t] \subseteq bronze'[t],
             \A q \in Runs \ {r} : pc'[q] = pc[q] /\ tbl'[q] = tbl[q],
             \A t \in Table : CountedRows(r, t)'
      PROVE  CountsKept'
  <2> SUFFICES ASSUME NEW q \in Runs \ {r}, NEW t \in Table PROVE CountedRows(q, t)'
    BY <1>1 DEF CountsKept
  <2> QED
    BY <1>1, CountedGrows
<1>2. ASSUME NEW r \in Runs, StartRun(r) PROVE CountsKept'
  BY <1>2 DEF StartRun, Goto, TypeOK, CountsKept, CountedRows, Batch, HasSaved
<1>3. ASSUME NEW r \in Runs, LoadWatermarks(r) PROVE CountsKept'
  BY <1>3 DEF LoadWatermarks, Goto, TypeOK, CountsKept, CountedRows, Batch, HasSaved
<1>4. ASSUME NEW r \in Runs, CheckPaths(r) PROVE CountsKept'
  BY <1>4 DEF CheckPaths, Goto, TypeOK, CountsKept, CountedRows, Batch, HasSaved
<1>5. ASSUME NEW r \in Runs, Validate(r) PROVE CountsKept'
  <2>1. /\ \A q \in Runs \ {r} : pc'[q] = pc[q] /\ tbl'[q] = tbl[q]
        /\ pc[r] = "validate" /\ pc'[r] \in {"validate", "max", "except"}
    BY <1>5, NextTablePhase, PhaseNames DEF Validate, Goto, TypeOK
  <2>2. \A t \in Table : CountedRows(r, t)'
    BY <1>5, <2>1 DEF Validate, CountsKept, CountedRows, Batch, HasSaved
  <2> QED
    BY <1>1, <1>5, <2>1, <2>2 DEF Validate
<1>6. ASSUME NEW r \in Runs, ComputeMax(r) PROVE CountsKept'
  <2>1. /\ \A q \in Runs \ {r} : pc'[q] = pc[q] /\ tbl'[q] = tbl[q]
        /\ pc[r] = "max" /\ pc'[r] \in {"max", "count"}
    BY <1>6, NextTablePhase, PhaseNames DEF ComputeMax
  <2>2. UNCHANGED <<source, bronze, eff, counted>>
    BY <1>6 DEF ComputeMax
  <2>3. \A t \in Table : CountedRows(r, t)'
    BY <2>1, <2>2 DEF CountsKept, CountedRows, Batch, HasSaved
  <2> QED
    BY <1>1, <2>1, <2>2, <2>3
<1>7. ASSUME NEW r \in Runs, CountRows(r) PROVE CountsKept'
  <2>1. /\ UNCHANGED <<source, bronze, eff>> /\ pc[r] = "count"
        /\ counted' = [counted EXCEPT ![r][tbl[r]] = Batch(r, tbl[r])]
    BY <1>7 DEF CountRows
  <2>2. /\ \A q \in Runs \ {r} : pc'[q] = pc[q] /\ tbl'[q] = tbl[q]
        /\ \/ pc'[r] = "count"
           \/ pc'[r] = "save" /\ tbl'[r] = 1
           \/ pc'[r] = "finish" /\ counted'[r] = EmptyTables
    BY <1>7, NextTablePhase, PhaseNames DEF CountRows
  <2>3. \A q \in Runs, t \in Table :
           counted'[q][t] = IF q = r /\ t = tbl[r] THEN Batch(r, tbl[r])
                                                   ELSE counted[q][t]
    BY <2>1 DEF TypeOK
  <2>4. ASSUME NEW q \in Runs, NEW t \in Table, q # r PROVE CountedRows(q, t)'
    BY <2>1, <2>2, <2>3, <2>4 DEF CountsKept, CountedRows, Batch, HasSaved
  <2>5. ASSUME NEW t \in Table PROVE CountedRows(r, t)'
    <3>1. counted'[r][t] \subseteq Batch(r, t)
      BY <2>1, <2>3 DEF CountsKept, CountedRows
    <3>2. Batch(r, t)' = Batch(r, t)
      BY <2>1 DEF Batch
    <3>3. ~HasSaved(r, t)'
      BY <2>2, Tables DEF HasSaved
    <3>4. pc'[r] = "finish" => counted'[r][t] = {}
      BY <2>2 DEF EmptyTables
    <3> QED
      BY <2>2, <3>1, <3>2, <3>3, <3>4 DEF CountedRows
  <2> QED
    BY <2>4, <2>5 DEF CountsKept
<1>8. ASSUME NEW r \in Runs, Save(r) PROVE CountsKept'
  <2>1. /\ UNCHANGED <<source, eff, counted>> /\ pc[r] = "save"
        /\ bronze' = [bronze EXCEPT ![tbl[r]] = @ \cup (Batch(r, tbl[r]) \X {r})]
    BY <1>8 DEF Save
  <2>2. /\ \A q \in Runs \ {r} : pc'[q] = pc[q] /\ tbl'[q] = tbl[q]
        /\ \/ pc'[r] = "upsert" /\ tbl[r] = NTables
           \/ pc'[r] = "save" /\ tbl'[r] = tbl[r] + 1
           \/ pc'[r] = "except"
    BY <1>8, ReturnsPhase, PhaseNames DEF Save
  <2>3. /\ \A t \in Table : bronze[t] \subseteq bronze'[t]
        /\ tbl[r] \in Table
    BY <2>1 DEF TypeOK
  <2>4. ASSUME NEW t \in Table PROVE CountedRows(r, t)'
    <3>1. counted[r][t] \subseteq Batch(r, t) /\ Batch(r, t)' = Batch(r, t)
      BY <2>1 DEF CountsKept, CountedRows, Batch
    <3>2. ASSUME HasSaved(r, t)' PROVE counted[r][t] \X {r} \subseteq bronze'[t]
      <4>1. t < tbl[r] \/ t = tbl[r]
        BY <2>2, <2>3, <3>2, Tables DEF HasSaved
      <4>2. CASE t < tbl[r]
        BY <2>1, <2>3, <4>2 DEF CountsKept, CountedRows, HasSaved
      <4>3. CASE t = tbl[r]
        <5>1. bronze'[t] = bronze[t] \cup (Batch(r, t) \X {r})
          BY <2>1, <4>3 DEF TypeOK
        <5> QED
          BY <3>1, <5>1
      <4> QED
        BY <4>1, <4>2, <4>3
    <3> QED
      BY <2>1, <2>2, <3>1, <3>2 DEF CountedRows
  <2> QED
    BY <1>1, <2>1, <2>2, <2>3, <2>4
<1>9. ASSUME NEW r \in Runs, Upsert(r) PROVE CountsKept'
  <2>1. /\ \A q \in Runs \ {r} : pc'[q] = pc[q] /\ tbl'[q] = tbl[q]
        /\ pc[r] = "upsert" /\ pc'[r] \in {"upsert", "finish", "except"}
    BY <1>9, ReturnsPhase, PhaseNames DEF Upsert
  <2>2. UNCHANGED <<source, bronze, eff, counted>>
    BY <1>9 DEF Upsert
  <2>3. \A t \in Table : CountedRows(r, t)'
    BY <2>1, <2>2 DEF CountsKept, CountedRows, HasSaved
  <2> QED
    BY <1>1, <2>1, <2>2, <2>3
<1>10. ASSUME NEW r \in Runs, FinishSucceeded(r) PROVE CountsKept'
  <2>1. /\ UNCHANGED <<source, bronze, eff, counted>> /\ pc'[r] \in {"done", "except"}
        /\ \A q \in Runs \ {r} : pc'[q] = pc[q] /\ tbl'[q] = tbl[q]
    BY <1>10 DEF FinishSucceeded, Goto, TypeOK
  <2>2. \A t \in Table : CountedRows(r, t)'
    BY <2>1 DEF CountedRows, HasSaved
  <2> QED
    BY <1>1, <2>1, <2>2
<1>11. ASSUME NEW r \in Runs, FinishFailed(r) \/ Crash(r) PROVE CountsKept'
  <2>1. /\ UNCHANGED <<source, bronze>> /\ pc'[r] \in {"done", "dead"}
        /\ \A q \in Runs \ {r} : /\ pc'[q] = pc[q] /\ tbl'[q] = tbl[q]
                                 /\ eff'[q] = eff[q] /\ counted'[q] = counted[q]
    BY <1>11 DEF FinishFailed, Crash, End, Forget, TypeOK
  <2>2. \A t \in Table : CountedRows(r, t)'
    BY <2>1 DEF CountedRows, HasSaved
  <2>3. ASSUME NEW q \in Runs \ {r}, NEW t \in Table PROVE CountedRows(q, t)'
    BY <2>1, CountedGrows
  <2> QED
    BY <2>2, <2>3 DEF CountsKept
<1>12. ASSUME NEW r \in Runs, Raise(r) PROVE CountsKept'
  BY <1>12 DEF Raise, Goto, TypeOK, CountsKept, CountedRows, Batch, HasSaved
<1>13. ASSUME NEW r \in Runs, OpenSave(r) PROVE CountsKept'
  BY <1>13, CountedGrows DEF OpenSave, CountsKept
<1>14. ASSUME NEW t \in Table, Arrive(t) PROVE CountsKept'
  <2>1. /\ \A u \in Table : source[u] \subseteq source'[u]
        /\ UNCHANGED <<bronze, pc, tbl, eff, counted>>
    BY <1>14 DEF Arrive, TypeOK
  <2> QED
    BY <2>1, CountedGrows DEF CountsKept
<1>15. CASE WipeBronze
  <2>1. /\ UNCHANGED <<source, pc, tbl, eff, counted>>
        /\ \A r \in Runs : pc[r] \notin {"save", "upsert", "finish"}
    BY <1>15 DEF WipeBronze, Active, ActivePhase, TryPhase
  <2> QED
    BY <2>1 DEF CountsKept, CountedRows, Batch, HasSaved
<1>16. CASE UNCHANGED vars
  BY <1>16 DEF vars, CountsKept, CountedRows, Batch, HasSaved
<1> QED
  BY <1>2, <1>3, <1>4, <1>5, <1>6, <1>7, <1>8, <1>9, <1>10, <1>11, <1>12, <1>13,
     <1>14, <1>15, <1>16 DEF Next, RunStep

\* A run that becomes SUCCEEDED is in its last phase, and has written.
LEMMA RowsOutStep ==
  ASSUME TypeOK, CountsKept, [Next]_vars, NEW r \in Runs,
         status[r] # "SUCCEEDED", status'[r] = "SUCCEEDED", NEW t \in Table
  PROVE  counted[r][t] \X {r} \subseteq bronze'[t]
<1> USE DEF stores, locals
<1>1. ASSUME NEW q \in Runs, FinishSucceeded(q)
      PROVE  counted[r][t] \X {r} \subseteq bronze'[t]
  <2>1. q = r
    BY <1>1 DEF FinishSucceeded, TypeOK
  <2> QED
    BY <1>1, <2>1 DEF FinishSucceeded, CountsKept, CountedRows
<1>2. ASSUME NEW q \in Runs, StartRun(q) \/ FinishFailed(q) PROVE FALSE
  BY <1>2 DEF StartRun, FinishFailed, TypeOK
<1>3. ASSUME NEW q \in Runs,
             \/ LoadWatermarks(q) \/ CheckPaths(q) \/ Validate(q) \/ ComputeMax(q)
             \/ CountRows(q) \/ OpenSave(q) \/ Save(q) \/ Upsert(q)
             \/ Raise(q) \/ Crash(q)
      PROVE  status' = status
  BY <1>3 DEF LoadWatermarks, CheckPaths, Validate, ComputeMax, CountRows, OpenSave,
     Save, Upsert, Raise, Crash
<1>4. ASSUME NEW u \in Table, Arrive(u) PROVE status' = status
  BY <1>4 DEF Arrive
<1>5. CASE WipeBronze \/ UNCHANGED vars
  BY <1>5 DEF WipeBronze, vars
<1> QED
  BY <1>1, <1>2, <1>3, <1>4, <1>5 DEF Next, RunStep

\* Every row in a run's rows_out is in bronze when the run succeeds, however
\* runs overlap and whatever arrives meanwhile.
THEOREM IngestRowsOutDelivered == Spec => RowsOutDelivered
<1>1. Init => CountsKept
  BY DEF Init, CountsKept, CountedRows, HasSaved, EmptyTables
<1>2. TypeOK /\ CountsKept /\ [Next]_vars =>
        [\A r \in Runs : status[r] # "SUCCEEDED" /\ status'[r] = "SUCCEEDED" =>
            \A t \in Table : counted[r][t] \X {r} \subseteq bronze'[t]]_vars
  BY RowsOutStep
<1> QED
  BY <1>1, <1>2, CountsStep, IngestTyped, PTL DEF Spec, RowsOutDelivered

-----------------------------------------------------------------------------
\* The rows a run has checked, overlapping or not.

\* The run has checked its frame of table t.
Checked(r, t) == \/ pc[r] = "validate" /\ t < tbl[r]
                 \/ pc[r] \in {"max", "count", "save", "upsert", "finish"}
                 \/ status[r] = "SUCCEEDED"

\* What was there when the run started, and is in its frame, passed.
SeenClean(r, t) ==
    /\ seen[r][t] \subseteq source[t]
    /\ pc[r] \in {"idle", "load", "paths"} => tbl[r] = 1
    /\ Checked(r, t) => \A row \in seen[r][t] : row.ts > eff[r][t] => row.ok

SeenPassed == \A r \in Runs, t \in Table : SeenClean(r, t)

\* A step of run r that checks nothing and leaves its frame alone.
LEMMA PassedQuiet ==
  ASSUME SeenPassed, UNCHANGED <<source, eff, seen>>, NEW r \in Runs,
         \A q \in Runs \ {r} : /\ pc'[q] = pc[q] /\ tbl'[q] = tbl[q]
                               /\ status'[q] = status[q],
         pc'[r] \notin {"idle", "load", "paths"},
         \A t \in Table : Checked(r, t)' => Checked(r, t)
  PROVE  SeenPassed'
<1>1. \A t \in Table : SeenClean(r, t)'
  BY DEF SeenPassed, SeenClean
<1>2. \A q \in Runs \ {r}, t \in Table : SeenClean(q, t)'
  BY DEF SeenPassed, SeenClean, Checked
<1> QED
  BY <1>1, <1>2 DEF SeenPassed

\* A step before the checks, which may change the frame of run r.
LEMMA PassedEarly ==
  ASSUME SeenPassed, UNCHANGED <<source, tbl>>, NEW r \in Runs,
         \A q \in Runs \ {r} : /\ pc'[q] = pc[q] /\ status'[q] = status[q]
                               /\ eff'[q] = eff[q] /\ seen'[q] = seen[q],
         \A t \in Table : seen'[r][t] \subseteq source[t],
         pc[r] \in {"idle", "load", "paths"}, pc'[r] \in {"load", "paths", "validate"},
         status'[r] # "SUCCEEDED"
  PROVE  SeenPassed'
<1>1. \A t \in Table : SeenClean(r, t)'
  BY Tables DEF SeenPassed, SeenClean, Checked
<1>2. \A q \in Runs \ {r}, t \in Table : SeenClean(q, t)'
  BY DEF SeenPassed, SeenClean, Checked
<1> QED
  BY <1>1, <1>2 DEF SeenPassed

\* Every step keeps what has been checked.
LEMMA PassedStep ==
  ASSUME TypeOK, Reported, SeenPassed, [Next]_vars
  PROVE  SeenPassed'
<1> USE DEF stores, locals
<1>1. ASSUME NEW r \in Runs, StartRun(r) PROVE SeenPassed'
  <2>1. /\ UNCHANGED <<source, tbl, eff>> /\ pc[r] = "idle"
        /\ pc'[r] = "load" /\ status'[r] = "STARTED" /\ seen'[r] = source
        /\ \A q \in Runs \ {r} : /\ pc'[q] = pc[q] /\ status'[q] = status[q]
                                 /\ seen'[q] = seen[q]
    BY <1>1 DEF StartRun, Goto, TypeOK
  <2> QED
    BY <2>1, PassedEarly
<1>2. ASSUME NEW r \in Runs, LoadWatermarks(r) \/ CheckPaths(r) PROVE SeenPassed'
  <2>1. /\ UNCHANGED <<source, seen, status, tbl>>
        /\ pc[r] \in {"load", "paths"} /\ pc'[r] \in {"paths", "validate"}
        /\ \A q \in Runs \ {r} : pc'[q] = pc[q] /\ eff'[q] = eff[q]
    BY <1>2 DEF LoadWatermarks, CheckPaths, Goto, TypeOK
  <2>2. status[r] # "SUCCEEDED"
    BY <2>1 DEF Reported, TryPhase
  <2>3. \A t \in Table : seen[r][t] \subseteq source[t]
    BY DEF SeenPassed, SeenClean
  <2> QED
    BY <2>1, <2>2, <2>3, PassedEarly
<1>3. ASSUME NEW r \in Runs, Validate(r) PROVE SeenPassed'
  <2>1. /\ UNCHANGED <<source, eff, seen, status>> /\ pc[r] = "validate"
        /\ tbl[r] \in Table
    BY <1>3 DEF Validate, TypeOK
  <2>2. CASE \A row \in Batch(r, tbl[r]) : row.ok
    <3>1. /\ \A q \in Runs \ {r} : pc'[q] = pc[q] /\ tbl'[q] = tbl[q]
          /\ \/ pc'[r] = "max" /\ tbl[r] = NTables
             \/ pc'[r] = "validate" /\ tbl'[r] = tbl[r] + 1
      BY <1>3, <2>1, <2>2, NextTablePhase, PhaseNames DEF Validate
    <3>2. ASSUME NEW t \in Table, Checked(r, t)'
          PROVE  \A row \in seen[r][t] : row.ts > eff[r][t] => row.ok
      <4>1. t < tbl[r] \/ t = tbl[r] \/ status[r] = "SUCCEEDED"
        BY <2>1, <3>1, <3>2, Tables DEF Checked
      <4>2. CASE t = tbl[r]
        BY <2>2, <4>2 DEF Batch, SeenPassed, SeenClean
      <4>3. CASE t < tbl[r] \/ status[r] = "SUCCEEDED"
        BY <2>1, <4>3 DEF SeenPassed, SeenClean, Checked
      <4> QED
        BY <4>1, <4>2, <4>3
    <3>3. \A t \in Table : SeenClean(r, t)'
      BY <2>1, <3>1, <3>2 DEF SeenPassed, SeenClean
    <3>4. \A q \in Runs \ {r}, t \in Table : SeenClean(q, t)'
      BY <2>1, <3>1 DEF SeenPassed, SeenClean, Checked
    <3> QED
      BY <3>3, <3>4 DEF SeenPassed
  <2>3. CASE ~ \A row \in Batch(r, tbl[r]) : row.ok
    <3>1. pc'[r] = "except" /\ \A q \in Runs \ {r} : pc'[q] = pc[q] /\ tbl'[q] = tbl[q]
      BY <1>3, <2>3 DEF Validate, Goto, TypeOK
    <3> QED
      BY <2>1, <3>1, PassedQuiet DEF Checked
  <2> QED
    BY <2>2, <2>3
<1>4. ASSUME NEW r \in Runs, ComputeMax(r) \/ CountRows(r) \/ Save(r) \/ Upsert(r)
      PROVE  SeenPassed'
  <2>1. /\ UNCHANGED <<source, eff, seen, status>>
        /\ pc[r] \in {"max", "count", "save", "upsert"}
    BY <1>4 DEF ComputeMax, CountRows, Save, Upsert
  <2>2. PICK phase \in {"count", "save", "upsert", "finish"} :
           NextTable(r, phase) \/ Goto(r, "except")
    BY <1>4 DEF ComputeMax, CountRows, Save, Upsert, Returns
  <2>3. phase \in Phase
    BY PhaseNames
  <2>4. /\ \A q \in Runs \ {r} : pc'[q] = pc[q] /\ tbl'[q] = tbl[q]
        /\ pc'[r] \in {pc[r], phase, "except"}
    BY <2>2, <2>3, NextTablePhase DEF Goto, TypeOK
  <2> QED
    BY <2>1, <2>4, PassedQuiet DEF Checked
<1>5. ASSUME NEW r \in Runs, FinishSucceeded(r) PROVE SeenPassed'
  <2>1. /\ UNCHANGED <<source, eff, seen>> /\ pc[r] = "finish"
        /\ pc'[r] \in {"done", "except"}
        /\ \A q \in Runs \ {r} : /\ pc'[q] = pc[q] /\ tbl'[q] = tbl[q]
                                 /\ status'[q] = status[q]
    BY <1>5 DEF FinishSucceeded, Goto, TypeOK
  <2> QED
    BY <2>1, PassedQuiet DEF Checked
<1>6. ASSUME NEW r \in Runs, FinishFailed(r) \/ Crash(r) PROVE SeenPassed'
  <2>1. /\ UNCHANGED source /\ pc'[r] \in {"done", "dead"} /\ seen'[r] = EmptyTables
        /\ \A q \in Runs \ {r} : /\ pc'[q] = pc[q] /\ tbl'[q] = tbl[q]
                                 /\ status'[q] = status[q]
                                 /\ eff'[q] = eff[q] /\ seen'[q] = seen[q]
    BY <1>6 DEF FinishFailed, Crash, End, Forget, TypeOK
  <2>2. \A t \in Table : SeenClean(r, t)'
    BY <2>1 DEF SeenClean, EmptyTables
  <2>3. \A q \in Runs \ {r}, t \in Table : SeenClean(q, t)'
    BY <2>1 DEF SeenPassed, SeenClean, Checked
  <2> QED
    BY <2>2, <2>3 DEF SeenPassed
<1>7. ASSUME NEW r \in Runs, Raise(r) PROVE SeenPassed'
  <2>1. /\ UNCHANGED <<source, eff, seen, status>> /\ pc'[r] = "except"
        /\ \A q \in Runs \ {r} : pc'[q] = pc[q] /\ tbl'[q] = tbl[q]
    BY <1>7 DEF Raise, Goto, TypeOK
  <2> QED
    BY <2>1, PassedQuiet DEF Checked
<1>8. ASSUME NEW r \in Runs, OpenSave(r) PROVE SeenPassed'
  BY <1>8 DEF OpenSave, SeenPassed, SeenClean, Checked
<1>9. ASSUME NEW t \in Table, Arrive(t) PROVE SeenPassed'
  <2>1. /\ \A u \in Table : source[u] \subseteq source'[u]
        /\ UNCHANGED <<status, pc, tbl, eff, seen>>
    BY <1>9 DEF Arrive, TypeOK
  <2> QED
    BY <2>1 DEF SeenPassed, SeenClean, Checked
<1>10. CASE WipeBronze
  <2>1. /\ UNCHANGED <<source, status, pc, tbl, eff>>
        /\ \A r \in Runs, t \in Table : seen'[r][t] = {}
    BY <1>10 DEF WipeBronze, EmptyTables
  <2> QED
    BY <2>1 DEF SeenPassed, SeenClean
<1>11. CASE UNCHANGED vars
  BY <1>11 DEF vars, SeenPassed, SeenClean, Checked
<1> QED
  BY <1>1, <1>2, <1>3, <1>4, <1>5, <1>6, <1>7, <1>8, <1>9, <1>10, <1>11
  DEF Next, RunStep

\* One bad row in any table keeps a run from succeeding, however runs overlap.
THEOREM IngestSucceededClean == Spec => []SucceededRunsWereClean
<1>1. Init => SeenPassed
  BY DEF Init, SeenPassed, SeenClean, EmptyTables
<1>2. SeenPassed => SucceededRunsWereClean
  BY DEF SeenPassed, SeenClean, Checked, SucceededRunsWereClean
<1> QED
  BY <1>1, <1>2, PassedStep, IngestTyped, IngestReported, PTL DEF Spec

-----------------------------------------------------------------------------
\* Watermarks of jobs that run one at a time.

OneActive == \A r, q \in Runs : Active(r) /\ Active(q) => r = q

\* The run has computed its maximum of table t, and not finished.
HasMax(r, t) == \/ pc[r] = "max" /\ t < tbl[r]
                \/ pc[r] \in {"count", "save", "upsert"}

\* A run reads on from the watermark, or reads everything; either way what
\* it will store is no older than what is stored.
Ahead(r, t) ==
    /\ pc[r] = "paths" => eff[r][t] = watermark[t]
    /\ pc[r] \in {"validate", "max"} => eff[r][t] \in {0, watermark[t]}
    /\ HasMax(r, t) => maxv[r][t] = 0 \/ ( /\ watermark[t] <= maxv[r][t]
                                           /\ Stamped(source[t], maxv[r][t]) )

Advancing == /\ OneActive
             /\ \A t \in Table : Stamped(source[t], watermark[t])
             /\ \A r \in Runs, t \in Table : Ahead(r, t)

\* Which phases are active: the ones a killed or finished run is never in.
LEMMA PhaseKinds ==
    \A r \in Runs : Active(r) <=> pc[r] \in {"load", "paths", "validate", "max",
        "count", "save", "upsert", "finish", "except"}
  BY DEF Active, ActivePhase, TryPhase

\* A step of the one active run that stores no watermark.
LEMMA AdvancingStep ==
  ASSUME Advancing, NEW r \in Runs, UNCHANGED <<source, watermark>>,
         Active(r) \/ \A q \in Runs : ~Active(q),
         \A q \in Runs \ {r} : pc'[q] = pc[q],
         \A t \in Table : Ahead(r, t)'
  PROVE  Advancing'
<1>1. \A q \in Runs \ {r} : ~Active(q) /\ pc'[q] = pc[q]
  BY DEF Advancing, OneActive
<1>2. OneActive'
  BY <1>1 DEF OneActive, Active
<1>3. \A q \in Runs \ {r}, t \in Table : Ahead(q, t)'
  BY <1>1, PhaseKinds DEF Ahead, HasMax
<1> QED
  BY <1>2, <1>3 DEF Advancing

\* Timestamps compare as numbers.
LEMMA StampsAreNumbers ==
  ASSUME TypeOK
  PROVE  \A t \in Table : /\ watermark[t] \in Nat
                          /\ \A r \in Runs : eff[r][t] \in Nat /\ maxv[r][t] \in Nat
                          /\ \A row \in source[t] : row.ts \in Nat \ {0}
  BY IngestAssumption DEF TypeOK, Stamp, Row

\* The new watermark is no older than the old one, and all stay as they are
\* except for the one being stored.
LEMMA UpsertAdvances ==
  ASSUME TypeOK, Advancing, NEW r \in Runs, Upsert(r)
  PROVE  /\ \A t \in Table : watermark[t] <= watermark'[t]
         /\ Advancing'
<1>1. /\ UNCHANGED <<source, eff, maxv>> /\ pc[r] = "upsert" /\ tbl[r] \in Table
      /\ watermark' = IF maxv[r][tbl[r]] = 0 THEN watermark
                      ELSE [watermark EXCEPT ![tbl[r]] = maxv[r][tbl[r]]]
  BY DEF Upsert, TypeOK, locals
<1>2. /\ \A q \in Runs \ {r} : pc'[q] = pc[q] /\ tbl'[q] = tbl[q]
      /\ pc'[r] \in {"upsert", "finish", "except"}
  BY ReturnsPhase, PhaseNames DEF Upsert
<1>3. \A t \in Table : \/ watermark'[t] = watermark[t]
                       \/ watermark'[t] = maxv[r][t] /\ maxv[r][t] # 0
  BY <1>1 DEF TypeOK
<1>4. \A t \in Table : maxv[r][t] = 0 \/ ( /\ watermark[t] <= maxv[r][t]
                                           /\ Stamped(source[t], maxv[r][t]) )
  BY <1>1 DEF Advancing, Ahead, HasMax
<1>5. \A t \in Table : watermark[t] <= watermark'[t]
  BY <1>3, <1>4, StampsAreNumbers
<1>6. \A t \in Table : Stamped(source'[t], watermark'[t])
  BY <1>1, <1>3, <1>4 DEF Advancing
<1>7. \A t \in Table : maxv[r][t] = 0 \/ watermark'[t] <= maxv[r][t]
  BY <1>3, <1>4, StampsAreNumbers
<1>8. \A t \in Table : Ahead(r, t)'
  BY <1>1, <1>2, <1>4, <1>7 DEF Ahead
<1>9. Active(r) /\ \A q \in Runs \ {r} : ~Active(q)
  BY <1>1, PhaseKinds DEF Advancing, OneActive
<1>10. OneActive'
  BY <1>2, <1>9 DEF OneActive, Active
<1>11. \A q \in Runs \ {r}, t \in Table : Ahead(q, t)'
  BY <1>2, <1>9, PhaseKinds DEF Ahead, HasMax
<1> QED
  BY <1>5, <1>6, <1>8, <1>10, <1>11 DEF Advancing

\* The maximum of a frame is no older than the watermark.
LEMMA MaxIsAhead ==
  ASSUME TypeOK, Advancing, NEW r \in Runs, pc[r] = "max", NEW t \in Table,
         NEW m \in Stamp, IsLatest(m, Batch(r, t))
  PROVE  m = 0 \/ (watermark[t] <= m /\ Stamped(source[t], m))
<1>1. CASE Batch(r, t) = {}
  BY <1>1 DEF IsLatest
<1>2. CASE Batch(r, t) # {}
  <2>1. PICK row \in source[t] : row.ts = m /\ row.ts > eff[r][t]
    BY <1>2 DEF IsLatest, Batch
  <2>2. \A other \in source[t] : other.ts > eff[r][t] => other.ts <= m
    BY <1>2 DEF IsLatest, Batch
  <2>3. CASE eff[r][t] = watermark[t]
    BY <2>1, <2>3, StampsAreNumbers DEF Stamped
  <2>4. CASE eff[r][t] = 0
    <3>1. watermark[t] = 0 \/ \E old \in source[t] : old.ts = watermark[t]
      BY DEF Advancing, Stamped
    <3>2. watermark[t] <= m
      BY <2>1, <2>2, <2>4, <3>1, StampsAreNumbers
    <3> QED
      BY <2>1, <3>2 DEF Stamped
  <2>5. eff[r][t] \in {0, watermark[t]}
    BY DEF Advancing, Ahead
  <2> QED
    BY <2>3, <2>4, <2>5
<1> QED
  BY <1>1, <1>2

\* Every step of jobs that run one at a time keeps the watermarks advancing.
LEMMA AdvancingKept ==
  ASSUME ~Overlap, TypeOK, Advancing, [Next]_vars
  PROVE  Advancing'
<1> USE DEF stores, locals
<1>1. ASSUME NEW r \in Runs, StartRun(r) PROVE Advancing'
  <2>1. /\ UNCHANGED <<source, watermark>> /\ \A q \in Runs : ~Active(q)
        /\ pc'[r] = "load" /\ \A q \in Runs \ {r} : pc'[q] = pc[q]
    BY <1>1 DEF StartRun, Goto, TypeOK
  <2>2. \A t \in Table : Ahead(r, t)'
    BY <2>1 DEF Ahead, HasMax
  <2> QED
    BY <2>1, <2>2, AdvancingStep
<1>2. ASSUME NEW r \in Runs, LoadWatermarks(r) PROVE Advancing'
  <2>1. /\ UNCHANGED <<source, watermark>> /\ pc[r] = "load" /\ pc'[r] = "paths"
        /\ \A q \in Runs \ {r} : pc'[q] = pc[q] /\ eff'[r] = watermark
    BY <1>2 DEF LoadWatermarks, Goto, TypeOK
  <2>2. \A t \in Table : Ahead(r, t)'
    BY <1>2, <2>1 DEF LoadWatermarks, TypeOK, Ahead, HasMax
  <2> QED
    BY <2>1, <2>2, PhaseKinds, AdvancingStep
<1>3. ASSUME NEW r \in Runs, CheckPaths(r) PROVE Advancing'
  <2>1. /\ UNCHANGED <<source, watermark, tbl>> /\ pc[r] = "paths" /\ pc'[r] = "validate"
        /\ \A q \in Runs \ {r} : pc'[q] = pc[q]
    BY <1>3 DEF CheckPaths, Goto, TypeOK
  <2>2. \A t \in Table : eff'[r][t] \in {0, eff[r][t]}
    BY <1>3 DEF CheckPaths, TypeOK, NoStamps
  <2>3. \A t \in Table : Ahead(r, t)'
    BY <2>1, <2>2 DEF Advancing, Ahead, HasMax
  <2> QED
    BY <2>1, <2>3, PhaseKinds, AdvancingStep
<1>4. ASSUME NEW r \in Runs, Validate(r) PROVE Advancing'
  <2>1. UNCHANGED <<source, watermark, eff, maxv>> /\ pc[r] = "validate"
    BY <1>4 DEF Validate
  <2>2. /\ \A q \in Runs \ {r} : pc'[q] = pc[q]
        /\ \/ pc'[r] = "validate" \/ pc'[r] = "except"
           \/ pc'[r] = "max" /\ tbl'[r] = 1
    BY <1>4, <2>1, NextTablePhase, PhaseNames DEF Validate, Goto, TypeOK
  <2>3. \A t \in Table : Ahead(r, t)'
    BY <2>1, <2>2, Tables DEF Advancing, Ahead, HasMax
  <2> QED
    BY <2>1, <2>2, <2>3, PhaseKinds, AdvancingStep
<1>5. ASSUME NEW r \in Runs, ComputeMax(r) PROVE Advancing'
  <2>1. PICK m \in Stamp : /\ IsLatest(m, Batch(r, tbl[r]))
                           /\ maxv' = [maxv EXCEPT ![r][tbl[r]] = m]
    BY <1>5 DEF ComputeMax
  <2>2. UNCHANGED <<source, watermark, eff>> /\ pc[r] = "max" /\ tbl[r] \in Table
    BY <1>5 DEF ComputeMax, TypeOK
  <2>3. /\ \A q \in Runs \ {r} : pc'[q] = pc[q]
        /\ \/ pc'[r] = "max" /\ tbl'[r] = tbl[r] + 1
           \/ pc'[r] = "count" /\ tbl[r] = NTables
    BY <1>5, NextTablePhase, PhaseNames DEF ComputeMax
  <2>4. \A t \in Table : maxv'[r][t] = IF t = tbl[r] THEN m ELSE maxv[r][t]
    BY <2>1 DEF TypeOK
  <2>5. m = 0 \/ (watermark[tbl[r]] <= m /\ Stamped(source[tbl[r]], m))
    BY <2>1, <2>2, MaxIsAhead
  <2>6. ASSUME NEW t \in Table PROVE Ahead(r, t)'
    <3>1. HasMax(r, t)' => t = tbl[r] \/ HasMax(r, t)
      BY <2>2, <2>3, Tables DEF HasMax
    <3> QED
      BY <2>2, <2>3, <2>4, <2>5, <3>1 DEF Advancing, Ahead
  <2> QED
    BY <2>2, <2>3, <2>6, PhaseKinds, AdvancingStep
<1>6. ASSUME NEW r \in Runs, CountRows(r) \/ Save(r) PROVE Advancing'
  <2>1. UNCHANGED <<source, watermark, eff, maxv>> /\ pc[r] \in {"count", "save"}
    BY <1>6 DEF CountRows, Save
  <2>2. PICK phase \in {"save", "upsert", "finish"} :
           NextTable(r, phase) \/ Goto(r, "except")
    BY <1>6 DEF CountRows, Save, Returns
  <2>3. phase \in Phase
    BY PhaseNames
  <2>4. /\ \A q \in Runs \ {r} : pc'[q] = pc[q]
        /\ pc'[r] \in {pc[r], phase, "except"}
    BY <2>2, <2>3, NextTablePhase DEF Goto, TypeOK
  <2>5. \A t \in Table : Ahead(r, t)'
    BY <2>1, <2>4 DEF Advancing, Ahead, HasMax
  <2> QED
    BY <2>1, <2>4, <2>5, PhaseKinds, AdvancingStep
<1>7. ASSUME NEW r \in Runs, FinishSucceeded(r) \/ FinishFailed(r) \/ Raise(r) \/ Crash(r)
      PROVE  Advancing'
  <2>1. /\ UNCHANGED <<source, watermark>> /\ Active(r)
        /\ pc'[r] \in {"done", "dead", "except"}
        /\ \A q \in Runs \ {r} : pc'[q] = pc[q]
    BY <1>7 DEF FinishSucceeded, FinishFailed, Raise, Crash, End, Goto, TypeOK,
       Active, ActivePhase, TryPhase
  <2>2. \A t \in Table : Ahead(r, t)'
    BY <2>1 DEF Ahead, HasMax
  <2> QED
    BY <2>1, <2>2, AdvancingStep
<1>8. ASSUME NEW r \in Runs, OpenSave(r) PROVE Advancing'
  BY <1>8 DEF OpenSave, Advancing, OneActive, Active, Ahead, HasMax
<1>9. ASSUME NEW t \in Table, Arrive(t) PROVE Advancing'
  <2>1. /\ \A u \in Table : source[u] \subseteq source'[u]
        /\ UNCHANGED <<watermark, pc, tbl, eff, maxv>>
    BY <1>9 DEF Arrive, TypeOK
  <2>2. \A u \in Table : \A m : Stamped(source[u], m) => Stamped(source'[u], m)
    BY <2>1 DEF Stamped
  <2> QED
    BY <2>1, <2>2 DEF Advancing, OneActive, Active, Ahead, HasMax
<1>10. CASE WipeBronze \/ UNCHANGED vars
  BY <1>10 DEF WipeBronze, vars, Advancing, OneActive, Active, Ahead, HasMax
<1> QED
  BY <1>1, <1>2, <1>3, <1>4, <1>5, <1>6, <1>7, <1>8, <1>9, <1>10, UpsertAdvances
  DEF Next, RunStep

\* Only Upsert stores a watermark, and what it stores is ahead.
LEMMA WatermarkStep ==
  ASSUME TypeOK, Advancing, [Next]_vars, NEW t \in Table
  PROVE  watermark[t] <= watermark'[t]
<1> USE DEF stores, locals
<1>1. ASSUME NEW r \in Runs,
             \/ StartRun(r) \/ LoadWatermarks(r) \/ CheckPaths(r) \/ Validate(r)
             \/ ComputeMax(r) \/ CountRows(r) \/ OpenSave(r) \/ Save(r)
             \/ FinishSucceeded(r) \/ FinishFailed(r) \/ Raise(r) \/ Crash(r)
      PROVE  watermark' = watermark
  BY <1>1 DEF StartRun, LoadWatermarks, CheckPaths, Validate, ComputeMax, CountRows,
     OpenSave, Save, FinishSucceeded, FinishFailed, Raise, Crash
<1>2. ASSUME NEW u \in Table, Arrive(u) PROVE watermark' = watermark
  BY <1>2 DEF Arrive
<1>3. CASE WipeBronze \/ UNCHANGED vars
  BY <1>3, StampsAreNumbers DEF WipeBronze, vars
<1>4. watermark' = watermark => watermark[t] <= watermark'[t]
  BY StampsAreNumbers
<1> QED
  BY <1>1, <1>2, <1>3, <1>4, UpsertAdvances DEF Next, RunStep

\* No job moves a watermark back as long as jobs run one at a time, also when
\* the object store is emptied, rows share timestamps or arrive out of order.
THEOREM IngestWatermarkAdvances == ~Overlap /\ Spec => WatermarkNeverRegresses
<1> SUFFICES ASSUME ~Overlap PROVE Spec => WatermarkNeverRegresses
  OBVIOUS
<1>1. Init => Advancing
  BY PhaseKinds DEF Init, Advancing, OneActive, Ahead, HasMax, Stamped, NoStamps
<1>2. TypeOK /\ Advancing /\ [Next]_vars =>
        [\A t \in Table : watermark[t] <= watermark'[t]]_vars
  BY WatermarkStep
<1> QED
  BY <1>1, <1>2, AdvancingKept, IngestTyped, PTL DEF Spec, WatermarkNeverRegresses

-----------------------------------------------------------------------------
\* Why jobs that run one at a time deliver once.

ReadingPhase == {"idle", "load", "paths", "validate", "max", "count"}
WritingPhase == {"save", "upsert", "finish"}

Appended(r, t) == {row \in Row : <<row, r>> \in bronze[t]}

\* The watermark of table t has caught up with the maximum of the run.
Stored(r, t) == \/ pc[r] = "upsert" /\ t < tbl[r]
                \/ pc[r] = "finish" \/ status[r] = "SUCCEEDED"

\* What a run that appended rows has done on the way.
Writes(r, t) ==
    /\ HasSaved(r, t) => t \in paths
    /\ Appended(r, t) # {} =>
          /\ pc[r] \notin ReadingPhase
          /\ pc[r] \in {"upsert", "finish"} \/ status[r] = "SUCCEEDED" => paths = Table
          /\ Stored(r, t) => maxv[r][t] <= watermark[t]
    /\ pc[r] \in WritingPhase \/ status[r] = "SUCCEEDED" =>
          \A row \in Appended(r, t) : row.ts > eff[r][t]

\* Run q reads on from where a run that succeeded before it has ended: the
\* directories that p wrote keep q from reloading.
ReadsOn(p, q, t) ==
    /\ status[p] = "SUCCEEDED" /\ Appended(p, t) # {} /\ pc[q] \in LoadedPhase
    => maxv[p][t] <= eff[q][t]

\* DeliveredOnce, for two runs and a table.
Apart(p, q, t) ==
    status[p] = "SUCCEEDED" /\ status[q] = "SUCCEEDED" =>
        \A row \in Appended(p, t) \cap Appended(q, t) :
            row.ts > maxv[p][t] \/ row.ts > maxv[q][t]

Once == \A r \in Runs, t \in Table :
            Writes(r, t) /\ \A p \in Runs \ {r} : ReadsOn(p, r, t) /\ Apart(p, r, t)

\* A step of the one active run keeps what the others did.
LEMMA OnceStep ==
  ASSUME TypeOK, TypeOK', Advancing, Once, NEW r \in Runs,
         Active(r) \/ \A q \in Runs : ~Active(q),
         \A q \in Runs \ {r} : /\ pc'[q] = pc[q] /\ status'[q] = status[q]
                               /\ eff'[q] = eff[q] /\ maxv'[q] = maxv[q],
         \A q \in Runs \ {r}, t \in Table : Appended(q, t)' = Appended(q, t),
         paths \subseteq paths', \A t \in Table : watermark[t] <= watermark'[t],
         \A t \in Table : Writes(r, t)',
         \A p \in Runs \ {r}, t \in Table : ReadsOn(p, r, t)' /\ Apart(p, r, t)'
  PROVE  Once'
<1>1. \A q \in Runs \ {r} : ~Active(q) /\ pc'[q] = pc[q]
  BY DEF Advancing, OneActive
<1>2. \A q \in Runs \ {r} : pc'[q] \notin LoadedPhase \cup WritingPhase
  BY <1>1, PhaseKinds DEF LoadedPhase, WritingPhase
<1>3. ASSUME NEW q \in Runs \ {r}, NEW t \in Table PROVE Writes(q, t)'
  <2>1. ~HasSaved(q, t)'
    BY <1>2 DEF HasSaved, WritingPhase
  <2>2. Writes(q, t) /\ Appended(q, t)' = Appended(q, t)
    BY DEF Once
  <2>3. paths = Table => paths' = Table
    BY DEF TypeOK
  <2>4. Stored(q, t)' => Stored(q, t)
    BY <1>2 DEF Stored, WritingPhase
  <2>5. maxv[q][t] <= watermark[t] => maxv'[q][t] <= watermark'[t]
    <3>1. maxv'[q][t] = maxv[q][t] /\ maxv[q][t] \in Nat /\ watermark[t] \in Nat
      BY StampsAreNumbers
    <3>2. watermark'[t] \in Nat /\ watermark[t] <= watermark'[t]
      BY IngestAssumption DEF TypeOK, Stamp
    <3> QED
      BY <3>1, <3>2
  <2>6. Appended(q, t)' # {} =>
           /\ pc'[q] \notin ReadingPhase
           /\ pc'[q] \in {"upsert", "finish"} \/ status'[q] = "SUCCEEDED" => paths' = Table
           /\ Stored(q, t)' => maxv'[q][t] <= watermark'[t]
    BY <2>2, <2>3, <2>4, <2>5 DEF Writes
  <2>7. pc'[q] \in WritingPhase \/ status'[q] = "SUCCEEDED" =>
           \A row \in Appended(q, t)' : row.ts > eff'[q][t]
    BY <2>2 DEF Writes
  <2> QED
    BY <2>1, <2>6, <2>7 DEF Writes
<1>4. ASSUME NEW q \in Runs \ {r}, NEW p \in Runs \ {q}, NEW t \in Table
      PROVE  ReadsOn(p, q, t)' /\ Apart(p, q, t)'
  <2>1. ReadsOn(p, q, t)'
    BY <1>2 DEF ReadsOn
  <2>2. CASE p = r
    BY <2>1, <2>2 DEF Apart
  <2>3. CASE p # r
    <3>1. Apart(p, q, t)
      BY DEF Once
    <3> QED
      BY <2>1, <2>3, <3>1 DEF Apart
  <2> QED
    BY <2>2, <2>3
<1> QED
  BY <1>3, <1>4 DEF Once

\* The steps before the writes: the run has appended nothing yet.
LEMMA OnceReading ==
  ASSUME TypeOK, TypeOK', Advancing, Once, NEW r \in Runs,
         Active(r) \/ \A q \in Runs : ~Active(q),
         UNCHANGED <<bronze, paths, watermark>>,
         \A q \in Runs \ {r} : /\ pc'[q] = pc[q] /\ status'[q] = status[q]
                               /\ eff'[q] = eff[q] /\ maxv'[q] = maxv[q],
         pc[r] \in ReadingPhase, \A t \in Table : ~HasSaved(r, t)',
         status'[r] # "SUCCEEDED",
         \A p \in Runs \ {r}, t \in Table : ReadsOn(p, r, t)'
  PROVE  Once'
<1>1. \A q \in Runs, t \in Table : Appended(q, t)' = Appended(q, t)
  BY DEF Appended
<1>2. \A t \in Table : Appended(r, t)' = {}
  BY <1>1 DEF Once, Writes
<1>3. \A t \in Table : Writes(r, t)'
  BY <1>2 DEF Writes
<1>4. \A p \in Runs \ {r}, t \in Table : Apart(p, r, t)'
  BY DEF Apart
<1>5. \A t \in Table : watermark[t] <= watermark'[t]
  BY StampsAreNumbers
<1> QED
  BY <1>1, <1>3, <1>4, <1>5, OnceStep

\* A run that is reporting, or gives up, after it has written or not.
LEMMA OnceEnding ==
  ASSUME TypeOK, TypeOK', Advancing, Once, NEW r \in Runs, Active(r),
         UNCHANGED <<bronze, paths, watermark>>,
         \A q \in Runs \ {r} : /\ pc'[q] = pc[q] /\ status'[q] = status[q]
                               /\ eff'[q] = eff[q] /\ maxv'[q] = maxv[q],
         pc'[r] \in {"except", "done", "dead"},
         status'[r] # "SUCCEEDED" \/ \A t \in Table : Writes(r, t)',
         \A p \in Runs \ {r}, t \in Table : Apart(p, r, t)'
  PROVE  Once'
<1>1. \A q \in Runs, t \in Table : Appended(q, t)' = Appended(q, t)
  BY DEF Appended
<1>2. \A t \in Table : Writes(r, t)'
  BY DEF Writes, HasSaved, Stored, ReadingPhase, WritingPhase
<1>3. \A p \in Runs \ {r}, t \in Table : ReadsOn(p, r, t)'
  BY DEF ReadsOn, LoadedPhase
<1>4. \A t \in Table : watermark[t] <= watermark'[t]
  BY StampsAreNumbers
<1> QED
  BY <1>1, <1>2, <1>3, <1>4, OnceStep

\* The write appends rows that no earlier successful run has vouched for.
LEMMA OnceSave ==
  ASSUME TypeOK, TypeOK', Reported, Advancing, Once, NEW r \in Runs, Save(r)
  PROVE  Once'
<1> USE DEF stores, locals
<1>1. /\ UNCHANGED <<source, watermark, status, eff, maxv>> /\ pc[r] = "save"
      /\ paths' = paths \cup {tbl[r]} /\ tbl[r] \in Table
      /\ bronze' = [bronze EXCEPT ![tbl[r]] = @ \cup (Batch(r, tbl[r]) \X {r})]
  BY DEF Save, TypeOK
<1>2. status[r] = "STARTED" /\ Active(r)
  BY <1>1, PhaseKinds DEF Reported, TryPhase
<1>3. /\ \A q \in Runs \ {r} : pc'[q] = pc[q] /\ tbl'[q] = tbl[q]
      /\ \/ pc'[r] = "upsert" /\ tbl'[r] = 1 /\ tbl[r] = NTables
         \/ pc'[r] = "save" /\ tbl'[r] = tbl[r] + 1
         \/ pc'[r] = "except"
  BY <1>1, ReturnsPhase, PhaseNames DEF Save
<1>4. \A t \in Table : bronze'[t] = IF t = tbl[r] THEN bronze[t] \cup (Batch(r, t) \X {r})
                                                  ELSE bronze[t]
  BY <1>1 DEF TypeOK
<1>4a. ASSUME NEW q \in Runs, NEW t \in Table, NEW row \in Row
       PROVE  <<row, q>> \in bronze'[t] <=>
                 \/ <<row, q>> \in bronze[t]
                 \/ t = tbl[r] /\ q = r /\ row \in Batch(r, t)
  <2>1. CASE t = tbl[r]
    <3>1. bronze'[t] = bronze[t] \cup (Batch(r, t) \X {r})
      BY <1>4, <2>1
    <3> QED
      BY <2>1, <3>1
  <2>2. CASE t # tbl[r]
    <3>1. bronze'[t] = bronze[t]
      BY <1>4, <2>2
    <3> QED
      BY <2>2, <3>1
  <2> QED
    BY <2>1, <2>2
<1>5. \A q \in Runs \ {r}, t \in Table : Appended(q, t)' = Appended(q, t)
  <2> SUFFICES ASSUME NEW q \in Runs \ {r}, NEW t \in Table
               PROVE  Appended(q, t)' = Appended(q, t)
    OBVIOUS
  <2>1. \A row \in Row : <<row, q>> \in bronze'[t] <=> <<row, q>> \in bronze[t]
    BY <1>4a
  <2> QED
    BY <2>1 DEF Appended
<1>6. \A t \in Table : \A row \in Appended(r, t)' : row.ts > eff[r][t]
  <2> SUFFICES ASSUME NEW t \in Table, NEW row \in Appended(r, t)'
               PROVE  row.ts > eff[r][t]
    OBVIOUS
  <2>1. row \in Appended(r, t) \/ row \in Batch(r, t)
    <3>1. row \in Row /\ <<row, r>> \in bronze'[t]
      BY DEF Appended
    <3>2. <<row, r>> \in bronze[t] \/ row \in Batch(r, t)
      BY <1>4a, <3>1
    <3> QED
      BY <3>1, <3>2 DEF Appended
  <2>2. row \in Appended(r, t) => row.ts > eff[r][t]
    BY <1>1 DEF Once, Writes, WritingPhase
  <2> QED
    BY <2>1, <2>2 DEF Batch
<1>7. \A t \in Table : HasSaved(r, t)' => t \in paths'
  <2> SUFFICES ASSUME NEW t \in Table, HasSaved(r, t)' PROVE t \in paths'
    OBVIOUS
  <2>1. t < tbl[r] \/ t = tbl[r]
    BY <1>1, <1>3, Tables DEF HasSaved
  <2>2. t < tbl[r] => t \in paths
    BY <1>1 DEF Once, Writes, HasSaved
  <2> QED
    BY <1>1, <2>1, <2>2
<1>8. pc'[r] = "upsert" => paths' = Table
  BY <1>7 DEF HasSaved, TypeOK
<1>9. \A t \in Table : ~Stored(r, t)'
  BY <1>1, <1>2, <1>3, Tables DEF Stored
<1>10. \A t \in Table : Writes(r, t)'
  <2>1. pc'[r] \notin ReadingPhase /\ pc'[r] # "finish" /\ status'[r] # "SUCCEEDED"
    BY <1>1, <1>2, <1>3 DEF ReadingPhase
  <2> QED
    BY <1>1, <1>6, <1>7, <1>8, <1>9, <2>1 DEF Writes
<1>11. \A p \in Runs \ {r}, t \in Table : ReadsOn(p, r, t)' /\ Apart(p, r, t)'
  <2> SUFFICES ASSUME NEW p \in Runs \ {r}, NEW t \in Table
               PROVE  ReadsOn(p, r, t)' /\ Apart(p, r, t)'
    OBVIOUS
  <2>1. ReadsOn(p, r, t) /\ pc[r] \in LoadedPhase
    BY <1>1 DEF Once, LoadedPhase
  <2>2. ReadsOn(p, r, t)'
    BY <1>1, <1>5, <2>1 DEF ReadsOn
  <2> QED
    BY <1>1, <1>2, <2>2 DEF Apart
<1>12. \A t \in Table : watermark[t] <= watermark'[t]
  BY <1>1, StampsAreNumbers
<1> QED
  BY <1>1, <1>2, <1>3, <1>5, <1>10, <1>11, <1>12, OnceStep

\* Storing a watermark catches up with the maximum.
LEMMA OnceUpsert ==
  ASSUME TypeOK, TypeOK', Reported, Advancing, Once, NEW r \in Runs, Upsert(r)
  PROVE  Once'
<1> USE DEF stores, locals
<1>1. /\ UNCHANGED <<bronze, paths, status, eff, maxv>> /\ pc[r] = "upsert"
      /\ tbl[r] \in Table
      /\ watermark' = IF maxv[r][tbl[r]] = 0 THEN watermark
                      ELSE [watermark EXCEPT ![tbl[r]] = maxv[r][tbl[r]]]
  BY DEF Upsert, TypeOK
<1>2. status[r] = "STARTED" /\ Active(r)
  BY <1>1, PhaseKinds DEF Reported, TryPhase
<1>3. /\ \A q \in Runs \ {r} : pc'[q] = pc[q] /\ tbl'[q] = tbl[q]
      /\ \/ pc'[r] = "finish" /\ tbl[r] = NTables
         \/ pc'[r] = "upsert" /\ tbl'[r] = tbl[r] + 1
         \/ pc'[r] = "except"
  BY <1>1, ReturnsPhase, PhaseNames DEF Upsert
<1>4. \A q \in Runs, t \in Table : Appended(q, t)' = Appended(q, t)
  BY <1>1 DEF Appended
<1>5. \A t \in Table : watermark'[t] = IF t = tbl[r] /\ maxv[r][t] # 0
                                       THEN maxv[r][t] ELSE watermark[t]
  BY <1>1 DEF TypeOK
<1>6. ASSUME NEW t \in Table, Stored(r, t)', Appended(r, t) # {}
      PROVE  maxv[r][t] <= watermark'[t]
  <2>1. t < tbl[r] \/ t = tbl[r]
    BY <1>1, <1>2, <1>3, <1>6, Tables DEF Stored
  <2>2. CASE t = tbl[r]
    BY <1>5, <2>2, StampsAreNumbers
  <2>3. CASE t < tbl[r]
    <3>1. t # tbl[r]
      BY <1>1, <2>3, Tables
    <3>2. maxv[r][t] <= watermark[t]
      BY <1>1, <1>6, <2>3 DEF Once, Writes, Stored
    <3> QED
      BY <1>5, <3>1, <3>2
  <2> QED
    BY <2>1, <2>2, <2>3
<1>7. \A t \in Table : Writes(r, t)'
  <2> SUFFICES ASSUME NEW t \in Table PROVE Writes(r, t)'
    OBVIOUS
  <2>1. t \in paths /\ \A row \in Appended(r, t) : row.ts > eff[r][t]
    BY <1>1 DEF Once, Writes, HasSaved, WritingPhase
  <2>2. Appended(r, t) # {} => paths = Table
    BY <1>1 DEF Once, Writes
  <2>3. pc'[r] \notin ReadingPhase
    BY <1>3 DEF ReadingPhase
  <2> QED
    BY <1>1, <1>4, <1>6, <2>1, <2>2, <2>3 DEF Writes
<1>8. \A p \in Runs \ {r}, t \in Table : ReadsOn(p, r, t)' /\ Apart(p, r, t)'
  <2> SUFFICES ASSUME NEW p \in Runs \ {r}, NEW t \in Table
               PROVE  ReadsOn(p, r, t)' /\ Apart(p, r, t)'
    OBVIOUS
  <2>1. ReadsOn(p, r, t) /\ pc[r] \in LoadedPhase
    BY <1>1 DEF Once, LoadedPhase
  <2>2. ReadsOn(p, r, t)'
    BY <1>1, <1>4, <2>1 DEF ReadsOn
  <2> QED
    BY <1>1, <1>2, <2>2 DEF Apart
<1>9. \A t \in Table : watermark[t] <= watermark'[t]
  BY UpsertAdvances
<1> QED
  BY <1>1, <1>2, <1>3, <1>4, <1>7, <1>8, <1>9, OnceStep

\* Every step of jobs that run one at a time.
LEMMA OnceKept ==
  ASSUME ~Overlap, TypeOK, TypeOK', Reported, Advancing, Once, [Next]_vars
  PROVE  Once'
<1> USE DEF stores, locals
<1>1. ASSUME NEW r \in Runs, StartRun(r) PROVE Once'
  <2>1. /\ UNCHANGED <<bronze, paths, watermark, eff, maxv>> /\ \A q \in Runs : ~Active(q)
        /\ pc[r] = "idle" /\ pc'[r] = "load" /\ status'[r] = "STARTED"
        /\ \A q \in Runs \ {r} : pc'[q] = pc[q] /\ status'[q] = status[q]
    BY <1>1 DEF StartRun, Goto, TypeOK
  <2> QED
    BY <2>1, OnceReading DEF ReadingPhase, HasSaved, ReadsOn, LoadedPhase
<1>2. ASSUME NEW r \in Runs, LoadWatermarks(r) PROVE Once'
  <2>1. /\ UNCHANGED <<bronze, paths, watermark, status, maxv>>
        /\ pc[r] = "load" /\ pc'[r] = "paths" /\ eff'[r] = watermark
        /\ \A q \in Runs \ {r} : pc'[q] = pc[q] /\ eff'[q] = eff[q]
    BY <1>2 DEF LoadWatermarks, Goto, TypeOK
  <2>2. status[r] = "STARTED" /\ Active(r)
    BY <2>1, PhaseKinds DEF Reported, TryPhase
  <2>3. \A p \in Runs \ {r}, t \in Table : ReadsOn(p, r, t)'
    BY <2>1 DEF Once, Writes, Stored, ReadsOn, Appended
  <2> QED
    BY <2>1, <2>2, <2>3, OnceReading DEF ReadingPhase, HasSaved
<1>3. ASSUME NEW r \in Runs, CheckPaths(r) PROVE Once'
  <2>1. /\ UNCHANGED <<bronze, paths, watermark, status, maxv>>
        /\ pc[r] = "paths" /\ pc'[r] = "validate"
        /\ \A q \in Runs \ {r} : pc'[q] = pc[q] /\ eff'[q] = eff[q]
        /\ paths = Table => eff'[r] = eff[r]
    BY <1>3 DEF CheckPaths, Goto, TypeOK
  <2>2. status[r] = "STARTED" /\ Active(r)
    BY <2>1, PhaseKinds DEF Reported, TryPhase
  <2>3. \A p \in Runs \ {r}, t \in Table : ReadsOn(p, r, t)'
    <3> SUFFICES ASSUME NEW p \in Runs \ {r}, NEW t \in Table,
                        status[p] = "SUCCEEDED", Appended(p, t) # {}
                 PROVE  maxv[p][t] <= eff'[r][t]
      BY <2>1 DEF ReadsOn, Appended
    <3>1. paths = Table
      BY DEF Once, Writes
    <3>2. maxv[p][t] <= eff[r][t]
      BY <2>1 DEF Once, ReadsOn, LoadedPhase
    <3> QED
      BY <2>1, <3>1, <3>2
  <2> QED
    BY <2>1, <2>2, <2>3, OnceReading DEF ReadingPhase, HasSaved
<1>4. ASSUME NEW r \in Runs, Validate(r) \/ ComputeMax(r) \/ CountRows(r) PROVE Once'
  <2>1. /\ UNCHANGED <<bronze, paths, watermark, status, eff>>
        /\ pc[r] \in {"validate", "max", "count"}
    BY <1>4 DEF Validate, ComputeMax, CountRows
  <2>2. status[r] = "STARTED" /\ Active(r)
    BY <2>1, PhaseKinds DEF Reported, TryPhase
  <2>3. /\ \A q \in Runs \ {r} : pc'[q] = pc[q]
        /\ \/ pc'[r] \in {"validate", "max", "count", "finish", "except"}
           \/ pc'[r] = "save" /\ tbl'[r] = 1
    BY <1>4, <2>1, NextTablePhase, PhaseNames
    DEF Validate, ComputeMax, CountRows, Goto, TypeOK
  <2>4. \A q \in Runs \ {r} : maxv'[q] = maxv[q]
    BY <1>4 DEF Validate, ComputeMax, CountRows, TypeOK
  <2>5. \A t \in Table : ~HasSaved(r, t)'
    BY <2>3, Tables DEF HasSaved
  <2>6. \A p \in Runs \ {r}, t \in Table : ReadsOn(p, r, t)'
    BY <2>1, <2>4 DEF Once, ReadsOn, Appended, LoadedPhase
  <2> QED
    BY <2>1, <2>2, <2>3, <2>4, <2>5, <2>6, OnceReading DEF ReadingPhase
<1>5. ASSUME NEW r \in Runs, FinishSucceeded(r) PROVE Once'
  <2>1. /\ UNCHANGED <<bronze, paths, watermark, eff, maxv>> /\ pc[r] = "finish"
        /\ pc'[r] \in {"done", "except"}
        /\ \A q \in Runs \ {r} : pc'[q] = pc[q] /\ status'[q] = status[q]
    BY <1>5 DEF FinishSucceeded, Goto, TypeOK
  <2>2. \A q \in Runs, t \in Table : Appended(q, t)' = Appended(q, t)
    BY <2>1 DEF Appended
  <2>3. \A t \in Table : \A row \in Appended(r, t) : row.ts > eff[r][t]
    BY <2>1 DEF Once, Writes, WritingPhase
  <2>4. \A t \in Table : Writes(r, t)'
    <3> SUFFICES ASSUME NEW t \in Table PROVE Writes(r, t)'
      OBVIOUS
    <3>1. Appended(r, t) # {} => paths = Table /\ maxv[r][t] <= watermark[t]
      BY <2>1 DEF Once, Writes, Stored
    <3>2. pc'[r] \notin ReadingPhase /\ ~HasSaved(r, t)'
      BY <2>1 DEF ReadingPhase, HasSaved
    <3> QED
      BY <2>1, <2>2, <2>3, <3>1, <3>2 DEF Writes
  <2>5. ASSUME NEW p \in Runs \ {r}, NEW t \in Table PROVE Apart(p, r, t)'
    <3> SUFFICES ASSUME status[p] = "SUCCEEDED",
                        NEW row \in Appended(p, t), row \in Appended(r, t)
                 PROVE  row.ts > maxv[p][t]
      BY <2>1, <2>2 DEF Apart
    <3>1. maxv[p][t] <= eff[r][t]
      BY <2>1 DEF Once, ReadsOn, LoadedPhase
    <3>2. row.ts > eff[r][t] /\ row.ts \in Nat
      BY <2>3, IngestAssumption DEF Appended, Row
    <3> QED
      BY <3>1, <3>2, StampsAreNumbers
  <2> QED
    BY <2>1, <2>4, <2>5, PhaseKinds, OnceEnding
<1>6. ASSUME NEW r \in Runs, FinishFailed(r) \/ Raise(r) PROVE Once'
  <2>1. /\ UNCHANGED <<bronze, paths, watermark>> /\ Active(r)
        /\ pc'[r] \in {"done", "except"}
        /\ \A q \in Runs \ {r} : /\ pc'[q] = pc[q] /\ status'[q] = status[q]
                                 /\ eff'[q] = eff[q] /\ maxv'[q] = maxv[q]
    BY <1>6 DEF FinishFailed, Raise, End, Forget, Goto, TypeOK, Active, ActivePhase,
       TryPhase
  <2>2. status'[r] # "SUCCEEDED"
    BY <1>6 DEF FinishFailed, Raise, Reported, TypeOK
  <2> QED
    BY <2>1, <2>2, OnceEnding DEF Apart
<1>7. ASSUME NEW r \in Runs, Crash(r) PROVE Once'
  <2>1. /\ UNCHANGED <<bronze, paths, watermark, status>> /\ Active(r) /\ pc'[r] = "dead"
        /\ \A t \in Table : eff'[r][t] = 0 /\ maxv'[r][t] = 0
        /\ \A q \in Runs \ {r} : /\ pc'[q] = pc[q]
                                 /\ eff'[q] = eff[q] /\ maxv'[q] = maxv[q]
    BY <1>7 DEF Crash, End, Forget, NoStamps, TypeOK
  <2>2. \A q \in Runs, t \in Table : /\ Appended(q, t)' = Appended(q, t)
                                     /\ \A row \in Appended(q, t) : row.ts > 0
    BY <2>1, IngestAssumption DEF Appended, Row
  <2>3. ASSUME NEW t \in Table PROVE Writes(r, t)'
    <3>1. pc'[r] \notin ReadingPhase /\ ~HasSaved(r, t)' /\ 0 <= watermark[t]
      BY <2>1, StampsAreNumbers DEF ReadingPhase, HasSaved
    <3>2. Appended(r, t) # {} /\ status[r] = "SUCCEEDED" => paths = Table
      BY DEF Once, Writes
    <3> QED
      BY <2>1, <2>2, <3>1, <3>2 DEF Writes
  <2>4. \A p \in Runs \ {r}, t \in Table : Apart(p, r, t)'
    BY <2>1, <2>2 DEF Apart
  <2> QED
    BY <2>1, <2>3, <2>4, OnceEnding
<1>8. ASSUME NEW r \in Runs, OpenSave(r) PROVE Once'
  <2>1. /\ UNCHANGED <<bronze, watermark, status, pc, tbl, eff, maxv>>
        /\ paths \subseteq paths' /\ pc[r] = "save"
    BY <1>8 DEF OpenSave
  <2>2. paths = Table => paths' = Table
    BY <2>1 DEF TypeOK
  <2>3. \A q \in Runs, t \in Table : /\ Appended(q, t)' = Appended(q, t)
                                     /\ HasSaved(q, t)' = HasSaved(q, t)
                                     /\ Stored(q, t)' = Stored(q, t)
    BY <2>1 DEF Appended, HasSaved, Stored
  <2>4. \A q \in Runs, t \in Table : Writes(q, t)'
    BY <2>1, <2>2, <2>3 DEF Once, Writes
  <2>5. \A q \in Runs, t \in Table : \A p \in Runs \ {q} :
           ReadsOn(p, q, t)' /\ Apart(p, q, t)'
    BY <2>1, <2>3 DEF Once, ReadsOn, Apart
  <2> QED
    BY <2>4, <2>5 DEF Once
<1>9. CASE WipeBronze
  <2>1. /\ \A r \in Runs, t \in Table : Appended(r, t)' = {}
        /\ \A r \in Runs : pc'[r] \notin {"save", "upsert"}
    BY <1>9 DEF WipeBronze, Appended, EmptyTables, Active, ActivePhase, TryPhase
  <2> QED
    BY <2>1 DEF Once, Writes, HasSaved, ReadsOn, Apart
<1>10. ASSUME NEW t \in Table, Arrive(t) PROVE Once'
  BY <1>10 DEF Arrive, Once, Writes, HasSaved, Stored, Appended, ReadsOn, Apart
<1>11. CASE UNCHANGED vars
  BY <1>11 DEF vars, Once, Writes, HasSaved, Stored, Appended, ReadsOn, Apart
<1> QED
  BY <1>1, <1>2, <1>3, <1>4, <1>5, <1>6, <1>7, <1>8, <1>9, <1>10, <1>11, OnceSave,
     OnceUpsert DEF Next, RunStep

\* Jobs that run one at a time deliver every row once, up to what arrives
\* after their maxima; timestamps need not be unique or in order.
THEOREM IngestDeliveredOnce == ~Overlap /\ Spec => []DeliveredOnce
<1> SUFFICES ASSUME ~Overlap PROVE Spec => []DeliveredOnce
  OBVIOUS
<1>1. Init => Advancing /\ Once
  <2>1. Init => Advancing
    BY PhaseKinds DEF Init, Advancing, OneActive, Ahead, HasMax, Stamped, NoStamps
  <2>2. Init => Once
    BY DEF Init, Once, Writes, HasSaved, Appended, EmptyTables, ReadsOn, Apart
  <2> QED
    BY <2>1, <2>2
<1>2. TypeOK /\ Once => DeliveredOnce
  <2> SUFFICES ASSUME TypeOK, Once, NEW t \in Table, NEW r \in Runs, NEW q \in Runs,
                      NEW row \in source[t], r # q,
                      status[r] = "SUCCEEDED", status[q] = "SUCCEEDED",
                      <<row, r>> \in bronze[t], <<row, q>> \in bronze[t]
               PROVE  row.ts > maxv[r][t] \/ row.ts > maxv[q][t]
    BY DEF DeliveredOnce
  <2>1. row \in Appended(r, t) \cap Appended(q, t)
    BY DEF Appended, TypeOK
  <2>2. Apart(q, r, t)
    BY DEF Once
  <2> QED
    BY <2>1, <2>2 DEF Apart
<1> QED
  BY <1>1, <1>2, AdvancingKept, OnceKept, IngestTyped, IngestReported, PTL DEF Spec

-----------------------------------------------------------------------------
\* A run is short: no statement of main() is executed over and over.

\* The steps that a run has ahead in a phase when left tables, the current one
\* included, are still to be gone through, and the directory of the current
\* one was opened (1) or not (0).
StepsIn(phase, left, opened) ==
    CASE phase = "idle" -> 6 * NTables + 5
      [] phase = "load" -> 6 * NTables + 4
      [] phase = "paths" -> 6 * NTables + 3
      [] phase = "validate" -> 5 * NTables + 2 + left
      [] phase = "max" -> 4 * NTables + 2 + left
      [] phase = "count" -> 3 * NTables + 2 + left
      [] phase = "save" -> NTables + 2 + 2 * left - opened
      [] phase = "upsert" -> 2 + left
      [] phase = "finish" -> 2
      [] phase = "except" -> 1
      [] OTHER -> 0

TablesLeft(r) == NTables + 1 - tbl[r]
Opened(r) == IF tbl[r] \in paths THEN 1 ELSE 0
StepsLeft(r) == StepsIn(pc[r], TablesLeft(r), Opened(r))

\* What a run does, its end by force included.
Moves(r) == StartRun(r) \/ RunStep(r) \/ Raise(r) \/ Crash(r)

\* A run takes at most 6 * NTables + 5 steps, of which none is ever repeated:
\* each lowers what is left, and nothing that others do raises it, not even
\* the emptying of the object store.
ShortRuns == /\ [](\A r \in Runs : StepsLeft(r) \in 0 .. 6 * NTables + 5)
             /\ [][\A r \in Runs : /\ StepsLeft(r)' <= StepsLeft(r)
                                   /\ Moves(r) => StepsLeft(r)' < StepsLeft(r)]_vars

\* What a run has left is counted by its phase and its table.
LEMMA LeftTyped ==
  ASSUME TypeOK, NEW r \in Runs
  PROVE  /\ pc[r] \in Phase /\ NTables \in Nat /\ NTables >= 1
         /\ TablesLeft(r) \in 1 .. NTables /\ Opened(r) \in {0, 1}
         /\ StepsLeft(r) \in 0 .. 6 * NTables + 5
<1>1. /\ pc[r] \in Phase /\ NTables \in Nat /\ NTables >= 1
      /\ tbl[r] \in 1 .. NTables /\ Opened(r) \in {0, 1}
  BY IngestAssumption DEF TypeOK, Table, Opened
<1>2. TablesLeft(r) \in 1 .. NTables
  BY <1>1 DEF TablesLeft
<1>3. StepsLeft(r) \in 0 .. 6 * NTables + 5
  BY <1>1, <1>2 DEF StepsLeft, StepsIn
<1> QED
  BY <1>1, <1>2, <1>3

\* A statement that raises leaves only the except branch to be executed.
LEMMA RaisingShortens ==
  ASSUME TypeOK, TypeOK', NEW r \in Runs, pc[r] \in TryPhase, pc'[r] = "except"
  PROVE  StepsLeft(r)' < StepsLeft(r)
<1>1. StepsLeft(r)' = 1
  BY DEF StepsLeft, StepsIn
<1>2. StepsLeft(r) > 1
  BY LeftTyped DEF StepsLeft, StepsIn, TryPhase
<1> QED
  BY <1>1, <1>2, LeftTyped

\* Going on to the next table, or to the next phase, shortens a run.
LEMMA NextTableShortens ==
  ASSUME TypeOK, TypeOK', NEW r \in Runs, NEW phase, NextTable(r, phase),
         <<pc[r], phase>> \in
           {<<"validate", "max">>, <<"max", "count">>, <<"count", "save">>,
            <<"count", "finish">>, <<"save", "upsert">>, <<"upsert", "finish">>}
  PROVE  StepsLeft(r)' < StepsLeft(r)
<1>1. /\ TablesLeft(r) \in 1 .. NTables /\ Opened(r) \in {0, 1}
      /\ TablesLeft(r)' \in 1 .. NTables /\ Opened(r)' \in {0, 1}
      /\ NTables \in Nat /\ NTables >= 1
  <2>1. TablesLeft(r)' \in 1 .. NTables /\ Opened(r)' \in {0, 1}
    BY IngestAssumption DEF TypeOK, Table, Opened, TablesLeft
  <2> QED
    BY <2>1, LeftTyped
<1>2. CASE tbl[r] = NTables
  <2>1. pc'[r] = phase /\ TablesLeft(r) = 1
    BY <1>2, <1>1 DEF NextTable, TypeOK, TablesLeft
  <2> QED
    BY <1>1, <2>1 DEF StepsLeft, StepsIn
<1>3. CASE tbl[r] # NTables
  <2>1. pc'[r] = pc[r] /\ tbl'[r] = tbl[r] + 1
    BY <1>3 DEF NextTable, TypeOK
  <2>2. TablesLeft(r)' = TablesLeft(r) - 1
    BY <2>1, <1>1 DEF TablesLeft, TypeOK, Table
  <2> QED
    BY <1>1, <2>1, <2>2 DEF StepsLeft, StepsIn
<1> QED
  BY <1>2, <1>3

\* Each thing that a run does shortens it.
LEMMA MovesShorten ==
  ASSUME TypeOK, TypeOK', NEW r \in Runs, Moves(r)
  PROVE  StepsLeft(r)' < StepsLeft(r)
<1>1. CASE StartRun(r) \/ LoadWatermarks(r) \/ CheckPaths(r)
  <2>1. <<pc[r], pc'[r]>> \in
          {<<"idle", "load">>, <<"load", "paths">>, <<"paths", "validate">>}
    BY <1>1 DEF StartRun, LoadWatermarks, CheckPaths, Goto, TypeOK
  <2>2. TablesLeft(r)' \in 1 .. NTables /\ NTables \in Nat
    BY IngestAssumption DEF TypeOK, Table, TablesLeft
  <2> QED
    BY <2>1, <2>2 DEF StepsLeft, StepsIn
<1>2. CASE Validate(r)
  <2>1. pc[r] = "validate" /\ (NextTable(r, "max") \/ Goto(r, "except"))
    BY <1>2 DEF Validate
  <2> QED
    BY <2>1, NextTableShortens, RaisingShortens DEF Goto, TypeOK, TryPhase
<1>3. CASE ComputeMax(r)
  <2>1. pc[r] = "max" /\ NextTable(r, "count")
    BY <1>3 DEF ComputeMax
  <2> QED
    BY <2>1, NextTableShortens
<1>4. CASE CountRows(r)
  <2>1. pc[r] = "count" /\ (NextTable(r, "save") \/ NextTable(r, "finish"))
    BY <1>4 DEF CountRows
  <2> QED
    BY <2>1, NextTableShortens
<1>5. CASE OpenSave(r)
  <2>1. /\ pc[r] = "save" /\ pc'[r] = "save" /\ TablesLeft(r)' = TablesLeft(r)
        /\ Opened(r) = 0 /\ Opened(r)' = 1
    BY <1>5 DEF OpenSave, Opened, TablesLeft
  <2> QED
    BY <2>1, LeftTyped DEF StepsLeft, StepsIn
<1>6. CASE Save(r) \/ Upsert(r)
  <2>1. PICK phase : /\ Returns(r, phase)
                     /\ <<pc[r], phase>> \in {<<"save", "upsert">>, <<"upsert", "finish">>}
    BY <1>6 DEF Save, Upsert
  <2>2. CASE NextTable(r, phase)
    BY <2>1, <2>2, NextTableShortens
  <2>3. CASE Goto(r, "except")
    BY <2>1, <2>3, RaisingShortens DEF Goto, TypeOK, TryPhase
  <2> QED
    BY <2>1, <2>2, <2>3 DEF Returns
<1>7. CASE FinishSucceeded(r) \/ FinishFailed(r)
  <2>1. <<pc[r], pc'[r]>> \in
          {<<"finish", "done">>, <<"finish", "except">>, <<"except", "done">>}
    BY <1>7 DEF FinishSucceeded, FinishFailed, Goto, End, TypeOK
  <2> QED
    BY <2>1 DEF StepsLeft, StepsIn
<1>8. CASE Raise(r)
  BY <1>8, RaisingShortens DEF Raise, Goto, TypeOK
<1>9. CASE Crash(r)
  <2>1. pc[r] \in ActivePhase /\ pc'[r] = "dead"
    BY <1>9 DEF Crash, Active, End, TypeOK
  <2>2. StepsLeft(r)' = 0
    BY <2>1 DEF StepsLeft, StepsIn
  <2>3. StepsLeft(r) >= 1
    BY <2>1, LeftTyped DEF StepsLeft, StepsIn, ActivePhase, TryPhase
  <2> QED
    BY <2>2, <2>3, LeftTyped
<1> QED
  BY <1>1, <1>2, <1>3, <1>4, <1>5, <1>6, <1>7, <1>8, <1>9 DEF Moves, RunStep

\* A step of one run leaves the others where they are, and no directory
\* disappears in it.
LEMMA OthersStay ==
  ASSUME TypeOK, NEW q \in Runs, Moves(q), NEW r \in Runs, r # q
  PROVE  pc'[r] = pc[r] /\ tbl'[r] = tbl[r] /\ paths \subseteq paths'
<1> USE DEF stores
<1>1. CASE StartRun(q) \/ LoadWatermarks(q) \/ CheckPaths(q) \/ Raise(q)
  BY <1>1 DEF StartRun, LoadWatermarks, CheckPaths, Raise, Goto, TypeOK
<1>2. CASE Validate(q) \/ ComputeMax(q) \/ CountRows(q)
  <2>1. paths' = paths /\ ((\E phase : NextTable(q, phase)) \/ Goto(q, "except"))
    BY <1>2 DEF Validate, ComputeMax, CountRows
  <2> QED
    BY <2>1 DEF NextTable, Goto, TypeOK
<1>3. CASE Save(q) \/ Upsert(q)
  <2>1. paths \subseteq paths' /\ \E phase : Returns(q, phase)
    BY <1>3 DEF Save, Upsert
  <2> QED
    BY <2>1 DEF Returns, NextTable, Goto, TypeOK
<1>4. CASE OpenSave(q)
  BY <1>4 DEF OpenSave
<1>5. CASE FinishSucceeded(q) \/ FinishFailed(q) \/ Crash(q)
  BY <1>5 DEF FinishSucceeded, FinishFailed, Crash, Goto, End, TypeOK
<1> QED
  BY <1>1, <1>2, <1>3, <1>4, <1>5 DEF Moves, RunStep

\* Nothing but a run itself changes what it has left, except that another run
\* may open a directory for it.
LEMMA LeftNotRaised ==
  ASSUME TypeOK, TypeOK', [Next]_vars, NEW r \in Runs, ~Moves(r)
  PROVE  StepsLeft(r)' <= StepsLeft(r)
<1>1. /\ TablesLeft(r) \in 1 .. NTables /\ NTables \in Nat
      /\ StepsLeft(r) \in Nat
  BY LeftTyped
<1>2. ASSUME pc'[r] = pc[r], tbl'[r] = tbl[r], paths \subseteq paths' \/ ~Active(r)
      PROVE  StepsLeft(r)' <= StepsLeft(r)
  <2>1. TablesLeft(r)' = TablesLeft(r)
    BY <1>2 DEF TablesLeft
  <2>2. CASE pc[r] = "save"
    <3>1. Opened(r)' \in {0, 1} /\ Opened(r) \in {0, 1} /\ Opened(r)' >= Opened(r)
      BY <1>2, <2>2 DEF Opened, Active, ActivePhase, TryPhase
    <3> QED
      BY <1>1, <1>2, <2>1, <2>2, <3>1 DEF StepsLeft, StepsIn
  <2>3. CASE pc[r] # "save"
    <3>1. StepsLeft(r)' = StepsLeft(r)
      BY <1>2, <2>1, <2>3 DEF StepsLeft, StepsIn
    <3> QED
      BY <1>1, <3>1
  <2> QED
    BY <2>2, <2>3
<1>3. CASE WipeBronze
  BY <1>2, <1>3 DEF WipeBronze
<1>4. CASE UNCHANGED vars \/ \E t \in Table : Arrive(t)
  BY <1>2, <1>4 DEF vars, Arrive, stores
<1>5. CASE \E q \in Runs : Moves(q)
  BY <1>2, <1>5, OthersStay
<1> QED
  BY <1>3, <1>4, <1>5 DEF Next, Moves

\* So a run is over after finitely many steps, overlapping or not, unless
\* nobody executes it: what is left to the scheduler is RunReported.
THEOREM IngestRunsAreShort == Spec => ShortRuns
<1>1. TypeOK => \A r \in Runs : StepsLeft(r) \in 0 .. 6 * NTables + 5
  BY LeftTyped
<1>2. TypeOK /\ TypeOK' /\ [Next]_vars
      => [\A r \in Runs : /\ StepsLeft(r)' <= StepsLeft(r)
                          /\ Moves(r) => StepsLeft(r)' < StepsLeft(r)]_vars
  <2> SUFFICES ASSUME TypeOK, TypeOK', [Next]_vars, NEW r \in Runs
               PROVE  /\ StepsLeft(r)' <= StepsLeft(r)
                      /\ Moves(r) => StepsLeft(r)' < StepsLeft(r)
    OBVIOUS
  <2>1. StepsLeft(r)' \in Nat /\ StepsLeft(r) \in Nat
    <3>1. TablesLeft(r)' \in 1 .. NTables /\ Opened(r)' \in {0, 1} /\ NTables \in Nat
      BY IngestAssumption DEF TypeOK, Table, Opened, TablesLeft
    <3> QED
      BY <3>1, LeftTyped DEF StepsLeft, StepsIn
  <2>2. CASE Moves(r)
    BY <2>1, <2>2, MovesShorten
  <2>3. CASE ~Moves(r)
    BY <2>3, LeftNotRaised
  <2> QED
    BY <2>2, <2>3
<1> QED
  BY <1>1, <1>2, IngestTyped, PTL DEF Spec, ShortRuns
=============================================================================
