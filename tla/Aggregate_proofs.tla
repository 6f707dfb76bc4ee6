-------------------------- MODULE Aggregate_proofs --------------------------
(***************************************************************************)
(* Proofs about the aggregate job, for any number of runs, partitions,     *)
(* events and mishaps.                                                     *)
(***************************************************************************)
EXTENDS Aggregate, TLAPS

-----------------------------------------------------------------------------
\* Types.

\* The names of the phases, which later proofs need not look into.
LEMMA PhaseNames ==
    {"idle", "load", "list", "check", "merge", "write", "upsert", "finish",
     "except", "done", "dead"} \subseteq Phase
  BY DEF Phase, ActivePhase, TryPhase

\* The initial values of the local variables are of their types.
LEMMA Blanks == Product \in GoldTable /\ Customer \in GoldTable /\ 0 \in Stamp
  BY AggregateAssumption DEF GoldTable, Product, Customer, Stamp

\* A kill or an exception stays within the bound.
LEMMA MishapTyped == ASSUME TypeOK, Mishap PROVE mishaps' \in 0 .. MaxMishaps
  BY AggregateAssumption DEF TypeOK, Mishap

\* A statement that returns or raises moves the run to a phase.
LEMMA ReturnsTyped ==
  ASSUME TypeOK, NEW r \in Runs, NEW phase \in Phase, Returns(r, phase)
  PROVE  pc' \in [Runs -> Phase] /\ mishaps' \in 0 .. MaxMishaps
  BY PhaseNames, MishapTyped DEF Returns, Goto, TypeOK

\* After a gold table is written, the position in the list of tables is
\* valid.
LEMMA AfterWriteTyped ==
  ASSUME TypeOK, NEW r \in Runs, AfterWrite(r)
  PROVE  /\ pc' \in [Runs -> Phase] /\ tab' \in [Runs -> GoldTable]
         /\ mishaps' \in 0 .. MaxMishaps
<1>1. CASE tab[r] = Product
  BY <1>1, PhaseNames, ReturnsTyped, Blanks DEF AfterWrite, TypeOK
<1>2. CASE tab[r] # Product
  BY <1>2, PhaseNames, ReturnsTyped DEF AfterWrite, TypeOK
<1> QED
  BY <1>1, <1>2

\* The end of a run resets its local variables.
LEMMA EndTyped ==
  ASSUME TypeOK, NEW r \in Runs, NEW phase \in Phase, End(r, phase)
  PROVE  /\ pc' \in [Runs -> Phase] /\ tab' \in [Runs -> GoldTable]
         /\ last' \in [Runs -> Stamp] /\ batch' \in [Runs -> SUBSET Event]
         /\ exists' \in [Runs -> BOOLEAN]
         /\ base' \in [Runs -> SUBSET (Event \X Runs)]
  BY Blanks DEF TypeOK, End, Goto

\* The stores and the local variables of the job keep their types.
THEOREM AggregateTyped == Spec => []TypeOK
<1>1. Init => TypeOK
  BY Blanks, PhaseNames, AggregateAssumption DEF Init, TypeOK
<1>2. TypeOK /\ [Next]_vars => TypeOK'
  <2> SUFFICES ASSUME TypeOK, [Next]_vars PROVE TypeOK'
    OBVIOUS
  <2> USE PhaseNames DEF stores, locals
  <2>1. ASSUME NEW r \in Runs, StartRun(r) PROVE TypeOK'
    BY <2>1 DEF StartRun, Goto, TypeOK
  <2>2. ASSUME NEW r \in Runs, LoadWatermark(r) PROVE TypeOK'
    BY <2>2 DEF LoadWatermark, Goto, TypeOK
  <2>3. ASSUME NEW r \in Runs, ListSilver(r) PROVE TypeOK'
    <3>1. batch' \in [Runs -> SUBSET Event]
      BY <2>3 DEF ListSilver, Above, TypeOK
    <3>2. pc' \in [Runs -> Phase]
      BY <2>3 DEF ListSilver, Goto, TypeOK
    <3> QED
      BY <2>3, <3>1, <3>2 DEF ListSilver, TypeOK
  <2>4. ASSUME NEW r \in Runs, NoSilver(r) PROVE TypeOK'
    BY <2>4 DEF NoSilver, Goto, TypeOK
  <2>5. ASSUME NEW r \in Runs, Check(r) PROVE TypeOK'
    BY <2>5 DEF Check, Goto, TypeOK
  <2>6. ASSUME NEW r \in Runs, MergeRead(r) PROVE TypeOK'
    <3>1. {c \in gold[tab[r]] : c[1].part \in Impacted(r)} \subseteq Event \X Runs
      BY DEF TypeOK
    <3>2. base' \in [Runs -> SUBSET (Event \X Runs)] /\ exists' \in [Runs -> BOOLEAN]
      BY <2>6, <3>1 DEF MergeRead, TypeOK
    <3> QED
      BY <2>6, <3>2 DEF MergeRead, Goto, TypeOK
  <2>7. ASSUME NEW r \in Runs, OverwritePartitions(r) PROVE TypeOK'
    <3>1. Overwritten(r) \subseteq Event \X Runs
      BY DEF Overwritten, TypeOK
    <3>2. gold' \in [GoldTable -> SUBSET (Event \X Runs)]
      BY <2>7, <3>1 DEF OverwritePartitions, TypeOK
    <3> QED
      BY <2>7, <3>2, AfterWriteTyped DEF OverwritePartitions, TypeOK
  <2>8. ASSUME NEW r \in Runs, CreateTable(r) PROVE TypeOK'
    <3>1. CASE tab[r] \in created
      BY <2>8, <3>1 DEF CreateTable, Goto, TypeOK
    <3>2. CASE tab[r] \notin created
      <4>1. gold' \in [GoldTable -> SUBSET (Event \X Runs)] /\ created' \subseteq GoldTable
        BY <2>8, <3>2 DEF CreateTable, TypeOK
      <4> QED
        BY <2>8, <3>2, <4>1, AfterWriteTyped DEF CreateTable, TypeOK
    <3> QED
      BY <3>1, <3>2
  <2>9. ASSUME NEW r \in Runs, Upsert(r) PROVE TypeOK'
    BY <2>9, ReturnsTyped DEF Upsert, TypeOK
  <2>10. ASSUME NEW r \in Runs, FinishSucceeded(r) PROVE TypeOK'
    <3>1. status' \in [Runs -> {"none", "STARTED", "SUCCEEDED", "FAILED"}]
      BY <2>10 DEF FinishSucceeded, TypeOK
    <3> QED
      BY <2>10, <3>1, ReturnsTyped DEF FinishSucceeded, TypeOK
  <2>11. ASSUME NEW r \in Runs, FinishFailed(r) PROVE TypeOK'
    BY <2>11, EndTyped DEF FinishFailed, TypeOK
  <2>12. ASSUME NEW r \in Runs, Raise(r) PROVE TypeOK'
    BY <2>12, MishapTyped DEF Raise, Goto, TypeOK
  <2>13. ASSUME NEW r \in Runs, Crash(r) PROVE TypeOK'
    BY <2>13, EndTyped, MishapTyped DEF Crash, TypeOK
  <2>14. CASE Arrive
    BY <2>14 DEF Arrive, TypeOK
  <2>15. CASE UNCHANGED vars
    BY <2>15 DEF vars, TypeOK
  <2> QED
    BY <2>1, <2>2, <2>3, <2>4, <2>5, <2>6, <2>7, <2>8, <2>9, <2>10, <2>11,
       <2>12, <2>13, <2>14, <2>15 DEF Next, RunStep
<1>3. QED
  BY <1>1, <1>2, PTL DEF Spec

-----------------------------------------------------------------------------
\* What a run knows, phase by phase, when jobs run one at a time.

Lone == InOrder /\ ~Overlap

\* The phases in which a run has loaded its watermark, and has its batch.
Holding == {"check", "merge", "write", "upsert", "finish"}
Loaded == Holding \cup {"list"}

OneActive == \A r, q \in Runs : Active(r) /\ Active(q) => r = q

\* A table that was never created has no content.
AbsentEmpty == \A g \in GoldTable : g \notin created => gold[g] = {}

\* The watermark is the timestamp of an event.
StampKnown == watermark = 0 \/ \E e \in silver : e.ts = watermark

\* Before it lists silver a run has contributed nothing; afterwards only
\* events of its batch.
Owns(r) ==
    \A g \in GoldTable, e \in Event : <<e, r>> \in gold[g] =>
        /\ pc[r] \notin {"idle", "load", "list"}
        /\ pc[r] \in Holding => e \in batch[r]

\* Until it stores its own, a run's watermark is the stored one, and its
\* batch is all that silver holds above it, up to what arrived later.
Knows(r) ==
    /\ pc[r] \in {"list", "check", "merge", "write", "upsert"} => last[r] = watermark
    /\ pc[r] \in {"check", "merge", "write", "upsert"} =>
          /\ batch[r] \subseteq silver /\ batch[r] # {}
          /\ \A e \in silver : \/ e \in batch[r] \/ e.ts <= last[r]
                               \/ \A b \in batch[r] : b.ts < e.ts
    /\ pc[r] \in Holding =>
          \A e \in batch[r] : e.ts > last[r]
    /\ pc[r] = "finish" => \A e \in batch[r] : e.ts <= watermark

\* What the merge read is still there when it writes.
ReadCurrent(r) ==
    pc[r] = "write" =>
        /\ exists[r] = (tab[r] \in created)
        /\ base[r] = {c \in gold[tab[r]] : c[1].part \in Impacted(r)}

\* The tables a run has merged hold its batch; it begins with the first.
Merged(r) ==
    /\ pc[r] \in {"idle", "load", "list", "check"} => tab[r] = Product
    /\ (\/ pc[r] \in {"merge", "write"} /\ tab[r] = Customer
        \/ pc[r] \in {"upsert", "finish"} \/ status[r] = "SUCCEEDED")
          => batch[r] \X {r} \subseteq gold[Product]
    /\ (pc[r] \in {"upsert", "finish"} \/ status[r] = "SUCCEEDED")
          => batch[r] \X {r} \subseteq gold[Customer]

\* The events of successful runs are below the watermark, and below the one
\* that any later run has loaded.
Settled(r) ==
    status[r] = "SUCCEEDED" =>
        /\ pc[r] \in {"done", "dead", "except"}
        /\ \A g \in GoldTable, e \in Event : <<e, r>> \in gold[g] =>
              /\ e.ts <= watermark
              /\ \A q \in Runs \ {r} :
                    pc[q] \in Loaded
                      => e.ts <= last[q]

RunSound(r) == Owns(r) /\ Knows(r) /\ ReadCurrent(r) /\ Merged(r) /\ Settled(r)

Sound == /\ OneActive /\ AbsentEmpty /\ StampKnown
         /\ WatermarkCounted /\ SucceededOnce
         /\ \A r \in Runs : RunSound(r)

\* What every step leaves clean, overlapping or not.
Clean == /\ NothingBadInGold
         /\ \A r \in Runs :
               /\ \A c \in base[r] : c[1].ok
               /\ pc[r] \in {"merge", "write"} => \A e \in batch[r] : e.ok

-----------------------------------------------------------------------------
\* What reaches gold has been checked, whether or not runs overlap.

\* A run that goes to the except branch, or ends, keeps the invariant.
LEMMA CleanQuiet ==
  ASSUME TypeOK, Clean, NEW q \in Runs,
         \A g \in GoldTable : \A c \in gold'[g] : c[1].ok,
         \A r \in Runs : \/ batch'[r] = batch[r] /\ base'[r] = base[r]
                         \/ batch'[r] = {} /\ base'[r] = {},
         \A r \in Runs : pc'[r] \in {"merge", "write"} =>
                            pc[r] \in {"merge", "write"} \/ \A e \in batch'[r] : e.ok
  PROVE  Clean'
  BY DEF Clean, NothingBadInGold

\* After a write no run is newly in a merge that was not before.
LEMMA AfterWriteElsewhere ==
  ASSUME TypeOK, NEW q \in Runs, pc[q] = "write", AfterWrite(q)
  PROVE  \A r \in Runs : pc'[r] \in {"merge", "write"} => pc[r] \in {"merge", "write"}
  BY PhaseNames DEF TypeOK, AfterWrite, Returns, Goto

\* What runs hold, and what is in gold, has passed the checks.
LEMMA AggregateClean == Spec => []Clean
<1>1. Init => Clean
  BY Blanks DEF Init, Clean, NothingBadInGold
<1>2. TypeOK /\ Clean /\ [Next]_vars => Clean'
  <2> SUFFICES ASSUME TypeOK, Clean, [Next]_vars PROVE Clean'
    OBVIOUS
  <2> USE PhaseNames DEF stores, locals
  <2>1. ASSUME NEW r \in Runs, StartRun(r) PROVE Clean'
    BY <2>1 DEF StartRun, Goto, TypeOK, Clean, NothingBadInGold
  <2>2. ASSUME NEW r \in Runs, LoadWatermark(r) PROVE Clean'
    BY <2>2 DEF LoadWatermark, Goto, TypeOK, Clean, NothingBadInGold
  <2>3. ASSUME NEW r \in Runs, ListSilver(r) PROVE Clean'
    BY <2>3 DEF ListSilver, Goto, TypeOK, Clean, NothingBadInGold
  <2>4. ASSUME NEW r \in Runs, NoSilver(r) PROVE Clean'
    BY <2>4 DEF NoSilver, Goto, TypeOK, Clean, NothingBadInGold
  <2>5. ASSUME NEW r \in Runs, Check(r) PROVE Clean'
    BY <2>5 DEF Check, Goto, TypeOK, Clean, NothingBadInGold
  <2>6. ASSUME NEW r \in Runs, MergeRead(r) PROVE Clean'
    BY <2>6 DEF MergeRead, Goto, TypeOK, Clean, NothingBadInGold
  <2>7. ASSUME NEW r \in Runs, OverwritePartitions(r) PROVE Clean'
    <3>1. \A c \in Overwritten(r) : c[1].ok
      BY <2>7 DEF OverwritePartitions, Overwritten, Clean, NothingBadInGold, TypeOK
    <3>2. \A g \in GoldTable : \A c \in gold'[g] : c[1].ok
      BY <2>7, <3>1 DEF OverwritePartitions, Clean, NothingBadInGold, TypeOK
    <3> QED
      BY <2>7, <3>2, AfterWriteElsewhere, CleanQuiet DEF OverwritePartitions
  <2>8. ASSUME NEW r \in Runs, CreateTable(r) PROVE Clean'
    <3>1. CASE tab[r] \in created
      BY <2>8, <3>1 DEF CreateTable, Goto, TypeOK, Clean, NothingBadInGold
    <3>2. CASE tab[r] \notin created
      <4>1. \A c \in batch[r] \X {r} : c[1].ok
        BY <2>8 DEF CreateTable, Clean
      <4>2. \A g \in GoldTable : \A c \in gold'[g] : c[1].ok
        BY <2>8, <3>2, <4>1 DEF CreateTable, Clean, NothingBadInGold, TypeOK
      <4> QED
        BY <2>8, <3>2, <4>2, AfterWriteElsewhere, CleanQuiet DEF CreateTable
    <3> QED
      BY <3>1, <3>2
  <2>9. ASSUME NEW r \in Runs, Upsert(r) PROVE Clean'
    BY <2>9 DEF Upsert, Returns, Goto, TypeOK, Clean, NothingBadInGold
  <2>10. ASSUME NEW r \in Runs, FinishSucceeded(r) PROVE Clean'
    BY <2>10 DEF FinishSucceeded, Returns, Goto, TypeOK, Clean, NothingBadInGold
  <2>11. ASSUME NEW r \in Runs, FinishFailed(r) PROVE Clean'
    BY <2>11 DEF FinishFailed, End, Goto, TypeOK, Clean, NothingBadInGold
  <2>12. ASSUME NEW r \in Runs, Raise(r) PROVE Clean'
    BY <2>12 DEF Raise, Goto, TypeOK, Clean, NothingBadInGold
  <2>13. ASSUME NEW r \in Runs, Crash(r) PROVE Clean'
    BY <2>13 DEF Crash, End, Goto, TypeOK, Clean, NothingBadInGold
  <2>14. CASE Arrive
    BY <2>14 DEF Arrive, Clean, NothingBadInGold
  <2>15. CASE UNCHANGED vars
    BY <2>15 DEF vars, Clean, NothingBadInGold
  <2> QED
    BY <2>1, <2>2, <2>3, <2>4, <2>5, <2>6, <2>7, <2>8, <2>9, <2>10, <2>11,
       <2>12, <2>13, <2>14, <2>15 DEF Next, RunStep
<1> QED
  BY <1>1, <1>2, AggregateTyped, PTL DEF Spec

\* Only events that passed the checks ever reach the gold tables.
THEOREM AggregateNothingBad == Spec => []NothingBadInGold
<1>1. Clean => NothingBadInGold
  BY DEF Clean
<1> QED
  BY <1>1, AggregateClean, PTL

-----------------------------------------------------------------------------
\* Jobs that run one at a time.

\* Which phases are active: the ones a killed or finished run is never in.
LEMMA PhaseKinds ==
    \A r \in Runs : Active(r) <=> pc[r] \in {"load", "list", "check", "merge",
        "write", "upsert", "finish", "except"}
  BY DEF Active, ActivePhase, TryPhase

\* A run that is not active knows nothing that a step of another run could
\* disturb, as long as that step only adds to gold and to the watermark.
LEMMA Bystander ==
  ASSUME TypeOK, Sound, NEW r \in Runs, ~Active(r),
         pc'[r] = pc[r], status'[r] = status[r], batch'[r] = batch[r], tab'[r] = tab[r],
         \A g \in GoldTable : gold[g] \subseteq gold'[g],
         \A g \in GoldTable, e \in Event : <<e, r>> \in gold'[g] => <<e, r>> \in gold[g],
         watermark \in Nat, watermark' \in Nat, watermark <= watermark',
         \A q \in Runs : pc'[q] \in Loaded =>
             (pc[q] \in Loaded /\ last'[q] = last[q]) \/ last'[q] = watermark
  PROVE  RunSound(r)'
<1>1. pc[r] \in {"idle", "done", "dead"}
  BY PhaseKinds DEF TypeOK, Phase, ActivePhase, TryPhase
<1> USE <1>1 DEF Sound, RunSound
<1>2. Owns(r)'
  BY DEF Owns, Holding
<1>3. Knows(r)' /\ ReadCurrent(r)'
  BY DEF Knows, ReadCurrent, Holding
<1>4. Merged(r)'
  BY Blanks DEF Merged
<1>5. Settled(r)'
  <2>1. SUFFICES ASSUME status[r] = "SUCCEEDED", NEW g \in GoldTable, NEW e \in Event,
                        <<e, r>> \in gold'[g]
                 PROVE  /\ e.ts <= watermark'
                        /\ \A q \in Runs \ {r} :
                              pc'[q] \in Loaded => e.ts <= last'[q]
    BY DEF Settled
  <2>2. <<e, r>> \in gold[g] /\ e.ts <= watermark /\ e.ts \in Nat
    BY <2>1 DEF Settled, Event
  <2>3. \A q \in Runs \ {r} : pc[q] \in Loaded => e.ts <= last[q]
    BY <2>1, <2>2 DEF Settled
  <2> QED
    BY <2>2, <2>3
<1> QED
  BY <1>2, <1>3, <1>4, <1>5

\* Under OneActive, both ways to write a gold table add the batch to it.
LEMMA MergeAdds ==
  ASSUME TypeOK, Sound, NEW r \in Runs, tab[r] \in GoldTable,
         OverwritePartitions(r) \/ CreateTable(r)
  PROVE  /\ gold' = [gold EXCEPT ![tab[r]] = @ \cup (batch[r] \X {r})]
         /\ created' = created \cup {tab[r]}
         /\ AfterWrite(r)
<1>1. ReadCurrent(r) /\ pc[r] = "write"
  BY DEF Sound, RunSound, OverwritePartitions, CreateTable
<1>2. CASE OverwritePartitions(r)
  <2>1. Overwritten(r) = gold[tab[r]] \cup (batch[r] \X {r})
    BY <1>1 DEF Overwritten, ReadCurrent
  <2> QED
    BY <1>1, <1>2, <2>1 DEF OverwritePartitions, ReadCurrent, TypeOK
<1>3. CASE CreateTable(r)
  <2>1. tab[r] \notin created /\ gold[tab[r]] = {}
    BY <1>1, <1>3 DEF CreateTable, ReadCurrent, Sound, AbsentEmpty
  <2> QED
    BY <1>3, <2>1 DEF CreateTable
<1> QED
  BY <1>2, <1>3

\* Stamps compare as numbers.
LEMMA StampsAreNumbers ==
  ASSUME TypeOK
  PROVE  /\ watermark \in Nat /\ \A r \in Runs : last[r] \in Nat
         /\ \A e \in Event : e.ts \in Nat \ {0}
         /\ silver \subseteq Event /\ \A r \in Runs : batch[r] \subseteq Event
  BY AggregateAssumption DEF TypeOK, Stamp, Event

\* A step of run r, which alone is active, keeps the invariant if it keeps
\* the parts about the stores and about r itself.
LEMMA StepOfOne ==
  ASSUME TypeOK, TypeOK', Sound, NEW r \in Runs,
         Active(r) \/ \A q \in Runs : ~Active(q),
         \A q \in Runs \ {r} : /\ pc'[q] = pc[q] /\ status'[q] = status[q]
                               /\ batch'[q] = batch[q] /\ last'[q] = last[q]
                               /\ tab'[q] = tab[q],
         \A g \in GoldTable : gold[g] \subseteq gold'[g],
         \A g \in GoldTable, e \in Event, q \in Runs \ {r} :
             <<e, q>> \in gold'[g] => <<e, q>> \in gold[g],
         watermark <= watermark',
         pc'[r] \in Loaded =>
             (pc[r] \in Loaded /\ last'[r] = last[r]) \/ last'[r] = watermark,
         AbsentEmpty', StampKnown', WatermarkCounted', SucceededOnce', RunSound(r)'
  PROVE  Sound'
<1>1. \A q \in Runs \ {r} : ~Active(q)
  BY DEF Sound, OneActive
<1>2. watermark \in Nat /\ watermark' \in Nat
  BY StampsAreNumbers, AggregateAssumption DEF TypeOK, Stamp
<1>3. \A q \in Runs \ {r} : RunSound(q)'
  BY <1>1, <1>2, Bystander
<1>4. OneActive'
  BY <1>1 DEF OneActive, Active
<1> QED
  BY <1>3, <1>4 DEF Sound

\* A step that leaves the stores alone, except for a report of failure.
LEMMA QuietStep ==
  ASSUME TypeOK, TypeOK', Sound, NEW r \in Runs,
         Active(r) \/ \A q \in Runs : ~Active(q),
         \A q \in Runs \ {r} : /\ pc'[q] = pc[q] /\ status'[q] = status[q]
                               /\ batch'[q] = batch[q] /\ last'[q] = last[q]
                               /\ tab'[q] = tab[q],
         status'[r] = "SUCCEEDED" => status[r] = "SUCCEEDED",
         UNCHANGED <<silver, gold, created, watermark>>,
         pc'[r] \in Loaded =>
             (pc[r] \in Loaded /\ last'[r] = last[r]) \/ last'[r] = watermark,
         RunSound(r)'
  PROVE  Sound'
<1>1. AbsentEmpty' /\ StampKnown' /\ WatermarkCounted'
  BY DEF Sound, AbsentEmpty, StampKnown, WatermarkCounted, Contributed
<1>2. SucceededOnce'
  BY DEF Sound, SucceededOnce
<1>3. watermark <= watermark'
  BY StampsAreNumbers
<1> QED
  BY <1>1, <1>2, <1>3, StepOfOne

\* The run goes to the except branch, or its process is over.
LEMMA RunGivesUp ==
  ASSUME TypeOK, TypeOK', Sound, NEW r \in Runs, Active(r),
         pc'[r] \in {"except", "done", "dead"},
         \A q \in Runs \ {r} : /\ pc'[q] = pc[q] /\ status'[q] = status[q]
                               /\ batch'[q] = batch[q] /\ last'[q] = last[q]
                               /\ tab'[q] = tab[q],
         status'[r] = status[r] \/ status'[r] = "FAILED",
         batch'[r] = batch[r] \/ batch'[r] = {},
         UNCHANGED <<silver, gold, created, watermark>>
  PROVE  Sound'
<1>1. RunSound(r)
  BY DEF Sound
<1>2. Owns(r)'
  <2>1. ASSUME NEW g \in GoldTable, NEW e \in Event, <<e, r>> \in gold[g]
        PROVE  pc'[r] \notin {"idle", "load", "list"}
    OBVIOUS
  <2> QED
    BY <2>1 DEF Owns, Holding
<1>3. Knows(r)' /\ ReadCurrent(r)'
  BY DEF Knows, ReadCurrent, Holding
<1>4. Merged(r)'
  BY <1>1 DEF RunSound, Merged
<1>5. Settled(r)'
  <2>1. \A q \in Runs \ {r} : ~Active(q)
    BY DEF Sound, OneActive
  <2>2. \A q \in Runs \ {r} : pc'[q] \notin Loaded
    BY <2>1, PhaseKinds DEF Loaded, Holding
  <2> QED
    BY <1>1, <2>2 DEF RunSound, Settled
<1>6. RunSound(r)'
  BY <1>2, <1>3, <1>4, <1>5 DEF RunSound
<1> QED
  BY <1>6, QuietStep DEF Loaded, Holding

\* What is in silver and counted stays counted while gold grows.
LEMMA CountedGrows ==
  ASSUME Sound, UNCHANGED silver, watermark' = watermark,
         \A g \in GoldTable : gold[g] \subseteq gold'[g]
  PROVE  WatermarkCounted'
  BY DEF Sound, WatermarkCounted, Contributed

\* Writing a gold table, either way, keeps the invariant.
LEMMA MergeStep ==
  ASSUME TypeOK, TypeOK', Sound, NEW r \in Runs,
         OverwritePartitions(r) \/ CreateTable(r)
  PROVE  Sound'
<1>1. pc[r] = "write" /\ Active(r) /\ RunSound(r) /\ tab[r] \in GoldTable
  BY PhaseKinds DEF OverwritePartitions, CreateTable, Sound, TypeOK
<1>2. /\ gold' = [gold EXCEPT ![tab[r]] = @ \cup (batch[r] \X {r})]
      /\ created' = created \cup {tab[r]}
      /\ AfterWrite(r)
  BY <1>1, MergeAdds
<1>3. UNCHANGED <<silver, watermark, status, last, batch, exists, base>>
  BY DEF OverwritePartitions, CreateTable
<1>4. \A q \in Runs \ {r} : pc'[q] = pc[q] /\ tab'[q] = tab[q]
  BY <1>2 DEF AfterWrite, Returns, Goto, TypeOK
<1>5. /\ \A g \in GoldTable : gold[g] \subseteq gold'[g]
      /\ \A g \in GoldTable, e \in Event, q \in Runs \ {r} :
            <<e, q>> \in gold'[g] => <<e, q>> \in gold[g]
      /\ \A g \in GoldTable, e \in Event :
            <<e, r>> \in gold'[g] => <<e, r>> \in gold[g] \/ e \in batch[r]
      /\ batch[r] \X {r} \subseteq gold'[tab[r]]
  BY <1>1, <1>2 DEF TypeOK
<1>6. \/ tab[r] = Product /\ pc'[r] = "merge" /\ tab'[r] = Customer
      \/ tab[r] = Customer /\ pc'[r] = "upsert"
      \/ pc'[r] = "except"
  BY <1>1, <1>2 DEF AfterWrite, Returns, Goto, TypeOK, GoldTable
<1>7. AbsentEmpty'
  BY <1>1, <1>2 DEF Sound, AbsentEmpty, TypeOK
<1>8. StampKnown' /\ WatermarkCounted'
  BY <1>3, <1>5, CountedGrows DEF Sound, StampKnown
<1>9. status[r] # "SUCCEEDED"
  BY <1>1 DEF RunSound, Settled
<1>10. SucceededOnce'
  <2> SUFFICES ASSUME NEW p \in Runs, NEW q \in Runs, NEW g \in GoldTable,
                      NEW e \in silver', p # q,
                      status'[p] = "SUCCEEDED", status'[q] = "SUCCEEDED"
               PROVE  ~(<<e, p>> \in gold'[g] /\ <<e, q>> \in gold'[g])
    BY DEF SucceededOnce
  <2>1. p # r /\ q # r /\ e \in silver /\ e \in Event
    BY <1>3, <1>9, StampsAreNumbers
  <2> QED
    BY <1>3, <1>5, <2>1 DEF Sound, SucceededOnce
<1>11. Owns(r)'
  BY <1>1, <1>3, <1>5, <1>6 DEF RunSound, Owns, Holding
<1>12. Knows(r)'
  BY <1>1, <1>3, <1>6 DEF RunSound, Knows, Holding
<1>13. ReadCurrent(r)'
  BY <1>6 DEF ReadCurrent
<1>14. Merged(r)'
  BY <1>1, <1>3, <1>5, <1>6, <1>9, Blanks DEF RunSound, Merged
<1>15. Settled(r)'
  BY <1>3, <1>9 DEF Settled
<1>16. RunSound(r)'
  BY <1>11, <1>12, <1>13, <1>14, <1>15 DEF RunSound
<1>17. watermark <= watermark' /\ pc[r] \in Loaded
  BY <1>1, <1>3, StampsAreNumbers DEF Loaded, Holding
<1> QED
  BY <1>1, <1>3, <1>4, <1>5, <1>7, <1>8, <1>10, <1>16, <1>17, StepOfOne

\* Storing the watermark: everything up to it has been merged.
LEMMA UpsertStep ==
  ASSUME TypeOK, TypeOK', Sound, NEW r \in Runs, Upsert(r)
  PROVE  Sound'
<1>1. pc[r] = "upsert" /\ Active(r) /\ RunSound(r)
  BY PhaseKinds DEF Upsert, Sound
<1>2. UNCHANGED <<silver, gold, created, status, tab, last, batch, exists, base>>
  BY DEF Upsert, locals
<1>3. /\ pc'[r] \in {"finish", "except"}
      /\ \A q \in Runs \ {r} : pc'[q] = pc[q]
  BY DEF Upsert, Returns, Goto, TypeOK
<1>4. PICK b \in batch[r] : /\ watermark' = b.ts
                            /\ \A other \in batch[r] : other.ts <= b.ts
  BY DEF Upsert, IsLatest
<1>5. /\ last[r] = watermark
      /\ batch[r] \subseteq silver
      /\ \A e \in silver : \/ e \in batch[r] \/ e.ts <= last[r]
                           \/ \A c \in batch[r] : c.ts < e.ts
      /\ \A e \in batch[r] : e.ts > last[r]
  BY <1>1 DEF RunSound, Knows, Holding
<1>6. watermark <= watermark'
  BY <1>4, <1>5, StampsAreNumbers
<1>7. \A g \in GoldTable : \A e \in batch[r] : <<e, r>> \in gold[g]
  BY <1>1 DEF RunSound, Merged, GoldTable
<1>8. WatermarkCounted'
  <2> SUFFICES ASSUME NEW e \in silver, e.ts <= b.ts, NEW g \in GoldTable
               PROVE  Contributed(g, e)
    BY <1>2, <1>4 DEF WatermarkCounted, Contributed
  <2>1. CASE e \in batch[r]
    BY <1>7, <2>1 DEF Contributed
  <2>2. CASE e.ts <= last[r]
    BY <1>5, <2>2 DEF Sound, WatermarkCounted
  <2>3. CASE \A c \in batch[r] : c.ts < e.ts
    <3>1. b.ts < e.ts /\ b.ts \in Nat /\ e.ts \in Nat
      BY <2>3, StampsAreNumbers
    <3> QED
      BY <3>1
  <2> QED
    BY <1>5, <2>1, <2>2, <2>3
<1>9. StampKnown' /\ AbsentEmpty' /\ SucceededOnce'
  BY <1>2, <1>4, <1>5 DEF Sound, StampKnown, AbsentEmpty, SucceededOnce
<1>10. status[r] # "SUCCEEDED"
  BY <1>1 DEF RunSound, Settled
<1>11. RunSound(r)'
  <2>1. Owns(r)'
    BY <1>1, <1>2, <1>3 DEF RunSound, Owns, Holding
  <2>2. Knows(r)'
    BY <1>2, <1>3, <1>4, <1>5 DEF Knows, Holding
  <2>3. ReadCurrent(r)' /\ Settled(r)'
    BY <1>2, <1>3, <1>10 DEF ReadCurrent, Settled
  <2>4. Merged(r)'
    BY <1>1, <1>2, <1>3, <1>10 DEF RunSound, Merged
  <2> QED
    BY <2>1, <2>2, <2>3, <2>4 DEF RunSound
<1>12. pc[r] \in Loaded
  BY <1>1 DEF Loaded, Holding
<1> QED
  BY <1>1, <1>2, <1>3, <1>6, <1>8, <1>9, <1>11, <1>12, StepOfOne

\* Reporting success: the events of the batch are settled.
LEMMA FinishStep ==
  ASSUME TypeOK, TypeOK', Sound, NEW r \in Runs, FinishSucceeded(r)
  PROVE  Sound'
<1>1. pc[r] = "finish" /\ Active(r) /\ RunSound(r)
  BY PhaseKinds DEF FinishSucceeded, Sound
<1>2. UNCHANGED <<silver, gold, created, watermark, tab, last, batch, exists, base>>
  BY DEF FinishSucceeded, locals
<1>3. /\ pc'[r] \in {"done", "except"}
      /\ \A q \in Runs \ {r} : pc'[q] = pc[q] /\ status'[q] = status[q]
  BY DEF FinishSucceeded, Returns, Goto, TypeOK
<1>4. \A g \in GoldTable, e \in Event : <<e, r>> \in gold[g] =>
         e \in batch[r] /\ e.ts > last[r] /\ e.ts <= watermark
  BY <1>1 DEF RunSound, Owns, Knows, Holding
<1>5. \A q \in Runs \ {r} : status[q] = "SUCCEEDED" =>
         \A g \in GoldTable, e \in Event : <<e, q>> \in gold[g] => e.ts <= last[r]
  BY <1>1 DEF Sound, RunSound, Settled, Loaded, Holding
<1>6. SucceededOnce'
  <2> SUFFICES ASSUME NEW p \in Runs, NEW q \in Runs, NEW g \in GoldTable,
                      NEW e \in silver, p # q, status'[p] = "SUCCEEDED",
                      status'[q] = "SUCCEEDED",
                      <<e, p>> \in gold[g], <<e, q>> \in gold[g]
               PROVE  FALSE
    BY <1>2 DEF SucceededOnce
  <2>1. e \in Event /\ e.ts \in Nat /\ last[r] \in Nat
    BY StampsAreNumbers
  <2>2. CASE p # r /\ q # r
    BY <1>3, <2>2 DEF Sound, SucceededOnce
  <2>3. CASE p = r
    BY <1>3, <1>4, <1>5, <2>1, <2>3
  <2>4. CASE q = r
    BY <1>3, <1>4, <1>5, <2>1, <2>4
  <2> QED
    BY <2>2, <2>3, <2>4
<1>7. AbsentEmpty' /\ StampKnown' /\ WatermarkCounted'
  BY <1>2 DEF Sound, AbsentEmpty, StampKnown, WatermarkCounted, Contributed
<1>8. \A q \in Runs \ {r} : pc'[q] \notin Loaded
  BY <1>1, <1>3, PhaseKinds DEF Sound, OneActive, Loaded, Holding
<1>9. RunSound(r)'
  <2>1. Owns(r)' /\ Knows(r)' /\ ReadCurrent(r)'
    BY <1>1, <1>2, <1>3 DEF RunSound, Owns, Knows, ReadCurrent, Holding
  <2>2. Merged(r)'
    BY <1>1, <1>2, <1>3 DEF RunSound, Merged
  <2>3. Settled(r)'
    BY <1>2, <1>3, <1>4, <1>8 DEF Settled
  <2> QED
    BY <2>1, <2>2, <2>3 DEF RunSound
<1>10. watermark <= watermark' /\ pc'[r] \notin Loaded
  BY <1>2, <1>3, StampsAreNumbers DEF Loaded, Holding
<1> QED
  BY <1>1, <1>2, <1>3, <1>6, <1>7, <1>9, <1>10, StepOfOne

\* The steps before the merge: starting, loading, listing, checking, reading.
LEMMA EarlyStep ==
  ASSUME Lone, TypeOK, TypeOK', Sound, NEW r \in Runs,
         StartRun(r) \/ LoadWatermark(r) \/ ListSilver(r) \/ Check(r) \/ MergeRead(r)
  PROVE  Sound'
<1> USE DEF locals, stores
<1>1. RunSound(r) /\ status[r] # "SUCCEEDED"
  BY DEF Sound, RunSound, Settled, StartRun, LoadWatermark, ListSilver, Check, MergeRead
<1>2. Active(r) \/ \A q \in Runs : ~Active(q)
  BY PhaseKinds DEF Lone, StartRun, LoadWatermark, ListSilver, Check, MergeRead
<1>3. \A q \in Runs \ {r} : /\ pc'[q] = pc[q] /\ status'[q] = status[q]
                            /\ batch'[q] = batch[q] /\ last'[q] = last[q]
                            /\ tab'[q] = tab[q]
  BY DEF StartRun, LoadWatermark, ListSilver, Check, MergeRead, Goto, TypeOK
<1>4. /\ UNCHANGED <<silver, gold, created, watermark>>
      /\ status'[r] # "SUCCEEDED"
  BY <1>1 DEF StartRun, LoadWatermark, ListSilver, Check, MergeRead, TypeOK
<1>5. Settled(r)'
  BY <1>4 DEF Settled
<1>6. CASE StartRun(r)
  <2>1. pc[r] = "idle" /\ pc'[r] = "load" /\ tab'[r] = tab[r]
    BY <1>6 DEF StartRun, Goto, TypeOK
  <2>2. Owns(r)'
    BY <1>1, <1>4, <2>1 DEF RunSound, Owns, Holding
  <2>3. Knows(r)' /\ ReadCurrent(r)' /\ Merged(r)'
    BY <1>1, <1>4, <2>1 DEF RunSound, Knows, ReadCurrent, Merged, Holding
  <2>4. pc'[r] \notin Loaded
    BY <2>1 DEF Loaded, Holding
  <2> QED
    BY <1>2, <1>3, <1>4, <1>5, <2>2, <2>3, <2>4, QuietStep DEF RunSound
<1>7. CASE LoadWatermark(r)
  <2>1. /\ pc[r] = "load" /\ pc'[r] = "list" /\ last'[r] = watermark'
        /\ tab'[r] = tab[r]
    BY <1>7 DEF LoadWatermark, Goto, TypeOK
  <2>2. Owns(r)'
    BY <1>1, <1>4, <2>1 DEF RunSound, Owns, Holding
  <2>3. Knows(r)' /\ ReadCurrent(r)' /\ Merged(r)'
    BY <1>1, <1>4, <2>1 DEF RunSound, Knows, ReadCurrent, Merged, Holding
  <2> QED
    BY <1>2, <1>3, <1>4, <1>5, <2>1, <2>2, <2>3, QuietStep DEF RunSound
<1>8. CASE ListSilver(r)
  <2>1. /\ pc[r] = "list" /\ last'[r] = last[r] /\ last[r] = watermark
        /\ batch'[r] = Above(last[r]) /\ tab'[r] = tab[r]
        /\ pc'[r] = IF batch'[r] = {} THEN "finish" ELSE "check"
    BY <1>1, <1>8 DEF ListSilver, Goto, TypeOK, RunSound, Knows
  <2>2. Owns(r)'
    BY <1>1, <1>4, <2>1 DEF RunSound, Owns, Holding
  <2>3. Knows(r)'
    BY <1>4, <2>1, StampsAreNumbers DEF Knows, Above, Holding
  <2>4. ReadCurrent(r)' /\ Merged(r)'
    BY <1>1, <1>4, <2>1 DEF RunSound, ReadCurrent, Merged
  <2>5. pc[r] \in Loaded
    BY <2>1 DEF Loaded, Holding
  <2> QED
    BY <1>2, <1>3, <1>4, <1>5, <2>1, <2>2, <2>3, <2>4, <2>5, QuietStep DEF RunSound
<1>9. CASE Check(r)
  <2>1. /\ pc[r] = "check" /\ pc'[r] \in {"merge", "except"}
        /\ last' = last /\ batch' = batch /\ tab' = tab
    BY <1>9 DEF Check, Goto, TypeOK
  <2>2. Owns(r)' /\ Knows(r)' /\ ReadCurrent(r)'
    BY <1>1, <1>4, <2>1 DEF RunSound, Owns, Knows, ReadCurrent, Holding
  <2>3. tab[r] = Product
    BY <1>1, <2>1 DEF RunSound, Merged
  <2>4. Merged(r)'
    BY <1>4, <2>1, <2>3 DEF Merged, Product, Customer
  <2>5. pc[r] \in Loaded
    BY <2>1 DEF Loaded, Holding
  <2> QED
    BY <1>2, <1>3, <1>4, <1>5, <2>1, <2>2, <2>3, <2>4, <2>5, QuietStep DEF RunSound
<1>10. CASE MergeRead(r)
  <2>1. /\ pc[r] = "merge" /\ pc'[r] = "write"
        /\ last' = last /\ batch' = batch /\ tab' = tab
        /\ exists'[r] = (tab[r] \in created)
        /\ base'[r] = {c \in gold[tab[r]] : c[1].part \in Impacted(r)}
    BY <1>10 DEF MergeRead, Goto, TypeOK
  <2>2. Owns(r)' /\ Knows(r)'
    BY <1>1, <1>4, <2>1 DEF RunSound, Owns, Knows, Holding
  <2>3. ReadCurrent(r)'
    BY <1>4, <2>1 DEF ReadCurrent, Impacted
  <2>4. Merged(r)'
    BY <1>1, <1>4, <2>1 DEF RunSound, Merged
  <2>5. pc[r] \in Loaded
    BY <2>1 DEF Loaded, Holding
  <2> QED
    BY <1>2, <1>3, <1>4, <1>5, <2>1, <2>2, <2>3, <2>4, <2>5, QuietStep DEF RunSound
<1> QED
  BY <1>6, <1>7, <1>8, <1>9, <1>10

\* The steps that give up.
LEMMA LateStep ==
  ASSUME TypeOK, TypeOK', Sound, NEW r \in Runs,
         NoSilver(r) \/ FinishFailed(r) \/ Raise(r) \/ Crash(r)
  PROVE  Sound'
<1>1. Active(r)
  BY DEF NoSilver, FinishFailed, Raise, Crash, Active, ActivePhase, TryPhase
<1>2. pc'[r] \in {"except", "done", "dead"}
  BY DEF NoSilver, FinishFailed, Raise, Crash, End, Goto, TypeOK
<1>3. \A q \in Runs \ {r} : /\ pc'[q] = pc[q] /\ status'[q] = status[q]
                            /\ batch'[q] = batch[q] /\ last'[q] = last[q]
                            /\ tab'[q] = tab[q]
  BY DEF NoSilver, FinishFailed, Raise, Crash, End, Goto, TypeOK, stores, locals
<1>4. /\ status'[r] = status[r] \/ status'[r] = "FAILED"
      /\ batch'[r] = batch[r] \/ batch'[r] = {}
      /\ UNCHANGED <<silver, gold, created, watermark>>
  BY DEF NoSilver, FinishFailed, Raise, Crash, End, TypeOK, stores, locals
<1> QED
  BY <1>1, <1>2, <1>3, <1>4, RunGivesUp

\* A new event is later than all others, so it is above the watermark.
LEMMA ArriveStep ==
  ASSUME Lone, TypeOK, TypeOK', Sound, Arrive
  PROVE  Sound'
<1> USE DEF stores, locals
<1>1. PICK e \in Event : /\ \A old \in silver : old.ts < e.ts
                         /\ silver' = silver \cup {e}
  BY DEF Arrive, Lone
<1>2. UNCHANGED <<gold, created, watermark, status, pc, tab, last, batch, exists, base>>
  BY DEF Arrive
<1>3. OneActive' /\ AbsentEmpty' /\ StampKnown'
  BY <1>1, <1>2 DEF Sound, OneActive, Active, AbsentEmpty, StampKnown
<1>4. e.ts > watermark
  BY <1>1, StampsAreNumbers DEF Sound, StampKnown
<1>5. WatermarkCounted'
  <2>1. ~(e.ts <= watermark)
    BY <1>4, StampsAreNumbers
  <2> QED
    BY <1>1, <1>2, <2>1 DEF Sound, WatermarkCounted, Contributed
<1>6. SucceededOnce'
  <2> SUFFICES ASSUME NEW p \in Runs, NEW q \in Runs, NEW g \in GoldTable, p # q,
                      status[p] = "SUCCEEDED", status[q] = "SUCCEEDED",
                      <<e, p>> \in gold[g]
               PROVE  FALSE
    BY <1>1, <1>2 DEF Sound, SucceededOnce
  <2>1. e.ts <= watermark
    BY DEF Sound, RunSound, Settled
  <2> QED
    BY <1>4, <2>1, StampsAreNumbers
<1>7. ASSUME NEW r \in Runs PROVE RunSound(r)'
  <2>1. RunSound(r)
    BY DEF Sound
  <2>2. Owns(r)' /\ ReadCurrent(r)' /\ Merged(r)' /\ Settled(r)'
    BY <1>2, <2>1 DEF RunSound, Owns, ReadCurrent, Impacted, Merged, Settled
  <2>3. Knows(r)'
    BY <1>1, <1>2, <2>1 DEF RunSound, Knows, Holding
  <2> QED
    BY <2>2, <2>3 DEF RunSound
<1> QED
  BY <1>3, <1>5, <1>6, <1>7 DEF Sound

\* The inductive invariant of jobs that run one at a time.
THEOREM AggregateSound == Lone /\ Spec => []Sound
<1> SUFFICES ASSUME Lone PROVE Spec => []Sound
  OBVIOUS
<1>1. Init => Sound
  <2> SUFFICES ASSUME Init PROVE Sound
    OBVIOUS
  <2>1. OneActive /\ AbsentEmpty /\ StampKnown
    BY PhaseKinds DEF Init, OneActive, AbsentEmpty, StampKnown
  <2>2. WatermarkCounted /\ SucceededOnce
    BY DEF Init, WatermarkCounted, SucceededOnce
  <2>3. \A r \in Runs : RunSound(r)
    BY Blanks DEF Init, RunSound, Owns, Knows, ReadCurrent, Merged, Settled, Holding
  <2> QED
    BY <2>1, <2>2, <2>3 DEF Sound
<1>2. TypeOK /\ TypeOK' /\ Sound /\ [Next]_vars => Sound'
  <2> SUFFICES ASSUME TypeOK, TypeOK', Sound, [Next]_vars PROVE Sound'
    OBVIOUS
  <2>1. CASE Arrive
    BY <2>1, ArriveStep
  <2>2. CASE UNCHANGED vars
    BY <2>2 DEF vars, stores, locals, Sound, OneActive, Active, AbsentEmpty,
                StampKnown, WatermarkCounted, Contributed, SucceededOnce, RunSound,
                Owns, Knows, ReadCurrent, Impacted, Merged, Settled
  <2>3. ASSUME NEW r \in Runs, StartRun(r) \/ RunStep(r) \/ Raise(r) \/ Crash(r)
        PROVE  Sound'
    BY <2>3, EarlyStep, MergeStep, UpsertStep, FinishStep, LateStep DEF RunStep
  <2> QED
    BY <2>1, <2>2, <2>3 DEF Next
<1> QED
  BY <1>1, <1>2, AggregateTyped, PTL DEF Spec

\* No event at or below the watermark is missing from either gold table.
THEOREM AggregateWatermarkCounted == Lone /\ Spec => []WatermarkCounted
<1>1. Sound => WatermarkCounted
  BY DEF Sound
<1> QED
  BY <1>1, AggregateSound, PTL

\* What a successful run listed stays in both gold tables.
THEOREM AggregateSucceededCounted == Lone /\ Spec => []SucceededCounted
<1>1. Sound => SucceededCounted
  BY DEF Sound, RunSound, Merged, SucceededCounted, GoldTable
<1> QED
  BY <1>1, AggregateSound, PTL

\* No event is counted by two successful runs.
THEOREM AggregateSucceededOnce == Lone /\ Spec => []SucceededOnce
<1>1. Sound => SucceededOnce
  BY DEF Sound
<1> QED
  BY <1>1, AggregateSound, PTL

-----------------------------------------------------------------------------
\* What a step does to the stores, when jobs run one at a time.

\* A merge adds the batch of the run to one gold table, nothing else moves
\* the contents of gold, and nothing moves the watermark back.
LEMMA StoresGrow ==
  ASSUME TypeOK, TypeOK', Sound, [Next]_vars
  PROVE  /\ watermark <= watermark'
         /\ \/ gold' = gold
            \/ \E r \in Runs : /\ pc[r] = "write"
                               /\ gold' = [gold EXCEPT ![tab[r]] = @ \cup (batch[r] \X {r})]
<1> USE DEF stores, locals
<1>1. ASSUME NEW r \in Runs, OverwritePartitions(r) \/ CreateTable(r)
      PROVE  /\ watermark' = watermark /\ pc[r] = "write"
             /\ gold' = [gold EXCEPT ![tab[r]] = @ \cup (batch[r] \X {r})]
  <2>1. tab[r] \in GoldTable
    BY DEF TypeOK
  <2> QED
    BY <1>1, <2>1, MergeAdds DEF OverwritePartitions, CreateTable
<1>2. ASSUME NEW r \in Runs, Upsert(r)
      PROVE  gold' = gold /\ watermark <= watermark'
  <2>1. PICK b \in batch[r] : watermark' = b.ts
    BY <1>2 DEF Upsert, IsLatest
  <2>2. b.ts > last[r] /\ last[r] = watermark
    BY <1>2, <2>1 DEF Upsert, Sound, RunSound, Knows, Holding
  <2> QED
    BY <1>2, <2>1, <2>2, StampsAreNumbers DEF Upsert
<1>3. ASSUME NEW r \in Runs,
             \/ StartRun(r) \/ LoadWatermark(r) \/ ListSilver(r) \/ NoSilver(r)
             \/ Check(r) \/ MergeRead(r) \/ FinishSucceeded(r) \/ FinishFailed(r)
             \/ Raise(r) \/ Crash(r)
      PROVE  UNCHANGED <<gold, watermark>>
  BY <1>3 DEF StartRun, LoadWatermark, ListSilver, NoSilver, Check, MergeRead,
     FinishSucceeded, FinishFailed, Raise, Crash
<1>4. CASE Arrive \/ UNCHANGED vars
  BY <1>4, StampsAreNumbers DEF Arrive, vars
<1> QED
  BY <1>1, <1>2, <1>3, <1>4, StampsAreNumbers DEF Next, RunStep

\* A merge loses nothing, and the watermark does not move back.
THEOREM AggregateGoldOnlyGrows == Lone /\ Spec => GoldOnlyGrows
<1>1. TypeOK /\ TypeOK' /\ Sound /\ [Next]_vars =>
        [/\ \A g \in GoldTable : gold[g] \subseteq gold'[g]
         /\ watermark <= watermark']_vars
  BY StoresGrow DEF TypeOK
<1> QED
  BY <1>1, AggregateTyped, AggregateSound, PTL DEF Spec, GoldOnlyGrows

\* When a run merges into the customer table, its batch is in the product
\* table already.
THEOREM AggregateCustomerTrails == Lone /\ Spec => []CustomerTrailsProduct
<1>1. Init => CustomerTrailsProduct
  BY Blanks DEF Init, CustomerTrailsProduct
<1>2. TypeOK /\ TypeOK' /\ Sound /\ CustomerTrailsProduct /\ [Next]_vars
        => CustomerTrailsProduct'
  <2> SUFFICES ASSUME TypeOK, TypeOK', Sound, CustomerTrailsProduct, [Next]_vars
               PROVE  CustomerTrailsProduct'
    OBVIOUS
  <2>1. CASE gold' = gold
    BY <2>1 DEF CustomerTrailsProduct
  <2>2. ASSUME NEW r \in Runs, pc[r] = "write",
               gold' = [gold EXCEPT ![tab[r]] = @ \cup (batch[r] \X {r})]
        PROVE  CustomerTrailsProduct'
    <3>1. tab[r] \in {Product, Customer}
      BY DEF TypeOK, GoldTable
    <3>2. CASE tab[r] = Product
      BY <2>2, <3>2, Blanks DEF TypeOK, CustomerTrailsProduct, Product, Customer
    <3>3. CASE tab[r] = Customer
      <4>1. batch[r] \X {r} \subseteq gold[Product]
        BY <2>2, <3>3 DEF Sound, RunSound, Merged
      <4> QED
        BY <2>2, <3>3, <4>1, Blanks DEF TypeOK, CustomerTrailsProduct, Product, Customer
    <3> QED
      BY <3>1, <3>2, <3>3
  <2> QED
    BY <2>1, <2>2, StoresGrow
<1> QED
  BY <1>1, <1>2, AggregateTyped, AggregateSound, PTL DEF Spec

\* Only a new event changes silver, and it is later than all others.
LEMMA SilverGrows ==
  ASSUME Lone, [Next]_vars
  PROVE  \/ silver' = silver
         \/ /\ \E e \in Event : /\ \A old \in silver : old.ts < e.ts
                                /\ silver' = silver \cup {e}
            /\ UNCHANGED <<gold, created, watermark>>
<1> USE DEF stores, locals
<1>1. ASSUME NEW r \in Runs, StartRun(r) \/ Raise(r) \/ Crash(r) PROVE silver' = silver
  BY <1>1 DEF StartRun, Raise, Crash
<1>2. ASSUME NEW r \in Runs, RunStep(r) PROVE silver' = silver
  BY <1>2 DEF RunStep, LoadWatermark, ListSilver, NoSilver, Check, MergeRead,
     OverwritePartitions, CreateTable, Upsert, FinishSucceeded, FinishFailed
<1>3. CASE Arrive
  BY <1>3 DEF Arrive, Lone
<1> QED
  BY <1>1, <1>2, <1>3 DEF Next, vars

\* A bad event is never at or below the watermark.
BadAbove == \A bad \in silver : ~bad.ok => watermark < bad.ts

\* What is in gold is in silver, and all of it is older than any bad event.
Stalled == /\ \A g \in GoldTable : \A c \in gold[g] : c[1] \in silver
           /\ BadEventStalls

\* Below the watermark a bad event would be in gold.
LEMMA BadAboveWatermark == ASSUME TypeOK, Sound, Clean PROVE BadAbove
<1> SUFFICES ASSUME NEW bad \in silver, ~bad.ok PROVE watermark < bad.ts
  BY DEF BadAbove
<1>1. CASE bad.ts <= watermark
  <2>1. PICK r \in Runs : <<bad, r>> \in gold[Product]
    BY <1>1, Blanks DEF Sound, WatermarkCounted, Contributed
  <2>2. <<bad, r>>[1].ok
    BY <2>1, Blanks DEF Clean, NothingBadInGold
  <2> QED
    BY <2>2
<1>2. bad.ts \in Nat /\ watermark \in Nat
  BY StampsAreNumbers
<1> QED
  BY <1>1, <1>2

\* Every event a run merges has passed the checks, and so has everything in
\* silver that is above the watermark and not later than the batch.
LEMMA BatchBeforeBad ==
  ASSUME TypeOK, Sound, Clean, NEW r \in Runs, pc[r] = "write",
         NEW bad \in silver, ~bad.ok, NEW e \in batch[r]
  PROVE  e.ts < bad.ts /\ e \in silver
<1>1. /\ batch[r] \subseteq silver /\ last[r] = watermark
      /\ \/ bad \in batch[r] \/ bad.ts <= last[r] \/ \A b \in batch[r] : b.ts < bad.ts
  BY DEF Sound, RunSound, Knows
<1>2. bad \notin batch[r]
  BY DEF Clean
<1>3. ~(bad.ts <= last[r])
  BY BadAboveWatermark, StampsAreNumbers DEF BadAbove, Sound, RunSound, Knows
<1> QED
  BY <1>1, <1>2, <1>3

\* One bad event holds the job up for good: what is later never reaches gold.
THEOREM AggregateBadEventStalls == Lone /\ Spec => []BadEventStalls
<1> SUFFICES ASSUME Lone PROVE Spec => []BadEventStalls
  OBVIOUS
<1>1. Init => Stalled
  BY DEF Init, Stalled, BadEventStalls
<1>2. TypeOK /\ TypeOK' /\ Sound /\ Clean /\ BadAbove' /\ Stalled /\ [Next]_vars
        => Stalled'
  <2> SUFFICES ASSUME TypeOK, TypeOK', Sound, Clean, BadAbove', Stalled, [Next]_vars
               PROVE  Stalled'
    OBVIOUS
  <2>1. \A bad \in silver' : ~bad.ok => watermark' < bad.ts
    BY DEF BadAbove
  <2>2. CASE silver' = silver /\ gold' = gold
    BY <2>1, <2>2 DEF Stalled, BadEventStalls
  <2>3. ASSUME silver' = silver, NEW r \in Runs, pc[r] = "write",
               gold' = [gold EXCEPT ![tab[r]] = @ \cup (batch[r] \X {r})]
        PROVE  Stalled'
    <3>1. \A g \in GoldTable : \A c \in gold'[g] : c \in gold[g] \/ c[1] \in batch[r]
      BY <2>3 DEF TypeOK
    <3>2. batch[r] \subseteq silver
      BY <2>3 DEF Sound, RunSound, Knows
    <3>3. \A g \in GoldTable : \A c \in gold'[g] : c[1] \in silver'
      BY <2>3, <3>1, <3>2 DEF Stalled
    <3>4. ASSUME NEW bad \in silver, ~bad.ok, NEW g \in GoldTable, NEW c \in gold'[g]
          PROVE  c[1].ts < bad.ts
      BY <2>3, <3>1, <3>4, BatchBeforeBad DEF Stalled, BadEventStalls
    <3> QED
      BY <2>1, <2>3, <3>3, <3>4 DEF Stalled, BadEventStalls
  <2>4. ASSUME NEW e \in Event, \A old \in silver : old.ts < e.ts,
               silver' = silver \cup {e}, gold' = gold
        PROVE  Stalled'
    BY <2>1, <2>4 DEF Stalled, BadEventStalls
  <2> QED
    BY <2>2, <2>3, <2>4, StoresGrow, SilverGrows
<1>3. Stalled => BadEventStalls
  BY DEF Stalled
<1>4. TypeOK /\ Sound /\ Clean => BadAbove
  BY BadAboveWatermark
<1> QED
  BY <1>1, <1>2, <1>3, <1>4, AggregateTyped, AggregateSound, AggregateClean, PTL DEF Spec

-----------------------------------------------------------------------------
\* The aggregate job implements Replication, when jobs run one at a time.

\* Everything up to the watermark is delivered.
LEMMA CountedBacked ==
  ASSUME TypeOK, WatermarkCounted
  PROVE  \A e \in silver : e.ts <= watermark => e \in Counted
  BY StampsAreNumbers DEF WatermarkCounted, Counted

\* As long as a gold table is missing nothing is delivered.
LEMMA NothingCounted ==
  ASSUME TypeOK, AbsentEmpty, created # GoldTable
  PROVE  Counted = {}
<1>1. PICK g \in GoldTable : g \notin created
  BY DEF TypeOK
<1>2. gold[g] = {}
  BY <1>1 DEF AbsentEmpty
<1> QED
  BY <1>1, <1>2 DEF Counted, Contributed

\* A step that leaves the stores alone is a stutter.
LEMMA ReplicaStutter ==
  ASSUME UNCHANGED <<silver, gold, created, watermark>>
  PROVE  UNCHANGED Replica!vars
  BY DEF Replica!vars, Counted, Contributed

\* Writing a gold table delivers what is now in both, once both exist.
LEMMA MergeDelivers ==
  ASSUME TypeOK, TypeOK', Sound, Sound', NEW r \in Runs,
         OverwritePartitions(r) \/ CreateTable(r)
  PROVE  Replica!Next \/ UNCHANGED Replica!vars
<1>1. pc[r] = "write" /\ tab[r] \in GoldTable /\ UNCHANGED <<silver, watermark>>
  BY DEF OverwritePartitions, CreateTable, TypeOK
<1>2. /\ gold' = [gold EXCEPT ![tab[r]] = @ \cup (batch[r] \X {r})]
      /\ created' = created \cup {tab[r]}
  BY <1>1, MergeAdds
<1>3. batch[r] \subseteq silver
  BY <1>1 DEF Sound, RunSound, Knows
<1>4. Counted \subseteq Counted'
  BY <1>2 DEF Counted, Contributed, TypeOK
<1>5. Counted' \ Counted \subseteq silver
  <2>1. ASSUME NEW e \in Counted', e \notin Counted PROVE e \in batch[r]
    <3>1. PICK g \in GoldTable : ~Contributed(g, e)
      BY <2>1 DEF Counted
    <3>2. PICK q \in Runs : <<e, q>> \in gold'[g]
      BY <3>1 DEF Counted, Contributed
    <3>3. <<e, q>> \notin gold[g]
      BY <3>1 DEF Contributed
    <3> QED
      BY <1>2, <3>2, <3>3 DEF TypeOK
  <2> QED
    BY <1>3, <2>1
<1>6. CASE created' # GoldTable
  <2>1. created # GoldTable
    BY <1>1, <1>2, <1>6
  <2>2. Counted = {}
    BY <2>1, NothingCounted DEF Sound
  <2>3. Counted' = {}
    <3>1. PICK g \in GoldTable : g \notin created'
      BY <1>6 DEF TypeOK
    <3>2. gold'[g] = {}
      BY <3>1 DEF Sound, AbsentEmpty
    <3> QED
      BY <3>1, <3>2 DEF Counted, Contributed
  <2> QED
    BY <1>1, <1>6, <2>1, <2>2, <2>3 DEF Replica!vars
<1>7. CASE created' = GoldTable
  <2> DEFINE S == Counted' \ Counted
  <2>1. Counted' = Counted \cup S /\ S \in SUBSET silver
    BY <1>4, <1>5
  <2>2. \A e \in silver : e.ts <= watermark => e \in Counted \cup S
    BY <2>1, CountedBacked DEF Sound
  <2>3. Replica!Backed("gold", watermark, Counted \cup S)
    BY <2>2 DEF Replica!Backed
  <2>4. Replica!Deliver("gold", S)
    BY <1>1, <1>7, <2>1, <2>3 DEF Replica!Deliver
  <2> QED
    BY <2>1, <2>4 DEF Replica!Next
<1> QED
  BY <1>6, <1>7

\* Storing the watermark vouches for events that are in both tables.
LEMMA UpsertVouches ==
  ASSUME TypeOK, TypeOK', Sound, Sound', NEW r \in Runs, Upsert(r)
  PROVE  Replica!Next
<1>1. pc[r] = "upsert" /\ UNCHANGED <<silver, gold, created>>
  BY DEF Upsert
<1>2. PICK b \in batch[r] : watermark' = b.ts
  BY DEF Upsert, IsLatest
<1>3. /\ b \in silver
      /\ \A g \in GoldTable : <<b, r>> \in gold[g]
  BY <1>1, <1>2 DEF Sound, RunSound, Knows, Merged, GoldTable
<1>4. created = GoldTable
  <2>1. ASSUME NEW g \in GoldTable PROVE g \in created
    BY <1>3, <2>1 DEF Sound, AbsentEmpty
  <2>2. created \subseteq GoldTable
    BY DEF TypeOK
  <2> QED
    BY <2>1, <2>2
<1>5. Counted' = Counted
  BY <1>1 DEF Counted, Contributed
<1>6. \A e \in silver : e.ts <= b.ts => e \in Counted
  <2>1. \A e \in silver : e.ts <= b.ts => \A g \in GoldTable : Contributed(g, e)
    BY <1>1, <1>2 DEF Sound, WatermarkCounted, Contributed
  <2> QED
    BY <2>1, StampsAreNumbers DEF Counted
<1>7. Replica!Backed("gold", b.ts, Counted)
  BY <1>6 DEF Replica!Backed
<1>8. Replica!Vouch("gold", b.ts)
  BY <1>1, <1>2, <1>4, <1>5, <1>7 DEF Replica!Vouch
<1> QED
  BY <1>3, <1>8 DEF Replica!Next

\* A new event is later than everything vouched for.
LEMMA ArriveArrives ==
  ASSUME Lone, TypeOK, Sound, Arrive
  PROVE  Replica!Next
<1>1. PICK e \in Event : /\ \A old \in silver : old.ts < e.ts
                         /\ silver' = silver \cup {e}
  BY DEF Arrive, Lone
<1>2. UNCHANGED <<gold, created, watermark>>
  BY DEF Arrive, stores
<1>3. e.ts > watermark
  BY <1>1, StampsAreNumbers DEF Sound, StampKnown
<1>4. Counted' = Counted
  BY <1>2 DEF Counted, Contributed
<1>5. Replica!Arrive("gold", e)
  BY <1>1, <1>2, <1>3, <1>4 DEF Replica!Arrive
<1> QED
  BY <1>5 DEF Replica!Next

\* Silver is replicated to gold: both tables and the watermark, which are
\* three commits, together behave as one store that delivers before it
\* vouches, whatever runs died or raised between the commits.
THEOREM AggregateImplementsReplication == Lone /\ Spec => ImplementsReplication
<1> SUFFICES ASSUME Lone PROVE Spec => Replica!Spec
  BY DEF ImplementsReplication
<1>1. Init => Replica!Init
  <2> SUFFICES ASSUME Init PROVE Replica!Init
    OBVIOUS
  <2>1. Counted = {} /\ created # GoldTable
    BY Blanks DEF Init, Counted, Contributed
  <2> QED
    BY <2>1 DEF Init, Replica!Init
<1>2. TypeOK /\ TypeOK' /\ Sound /\ Sound' /\ [Next]_vars => [Replica!Next]_(Replica!vars)
  <2> SUFFICES ASSUME TypeOK, TypeOK', Sound, Sound', [Next]_vars
               PROVE  Replica!Next \/ UNCHANGED Replica!vars
    OBVIOUS
  <2> USE DEF stores, locals
  <2>1. ASSUME NEW r \in Runs,
               \/ StartRun(r) \/ LoadWatermark(r) \/ ListSilver(r) \/ NoSilver(r)
               \/ Check(r) \/ MergeRead(r) \/ FinishSucceeded(r) \/ FinishFailed(r)
               \/ Raise(r) \/ Crash(r)
        PROVE  UNCHANGED Replica!vars
    <3>1. UNCHANGED <<silver, gold, created, watermark>>
      BY <2>1 DEF StartRun, LoadWatermark, ListSilver, NoSilver, Check, MergeRead,
         FinishSucceeded, FinishFailed, Raise, Crash
    <3> QED
      BY <3>1, ReplicaStutter
  <2>2. CASE UNCHANGED vars
    BY <2>2, ReplicaStutter DEF vars
  <2> QED
    BY <2>1, <2>2, MergeDelivers, UpsertVouches, ArriveArrives DEF Next, RunStep
<1> QED
  BY <1>1, <1>2, AggregateTyped, AggregateSound, PTL DEF Spec, Replica!Spec

-----------------------------------------------------------------------------
\* What the runs show in job_control_runs, overlapping or not.

\* A run has a row once it has started; while it is in the try block the row
\* says STARTED, and only a raised update leaves SUCCEEDED to be corrected.
Reported ==
    \A r \in Runs : /\ pc[r] = "idle" => status[r] = "none"
                    /\ pc[r] \in TryPhase => status[r] = "STARTED"
                    /\ pc[r] = "except" => status[r] \in {"STARTED", "SUCCEEDED"}

\* A step of one run that leaves the rows of job_control_runs alone.
LEMMA ReportedQuiet ==
  ASSUME TypeOK, Reported, NEW r \in Runs, status' = status,
         pc[r] \in TryPhase \/ pc'[r] \in {"done", "dead"},
         pc'[r] \in TryPhase \cup {"except", "done", "dead"},
         \A q \in Runs \ {r} : pc'[q] = pc[q]
  PROVE  Reported'
  BY DEF Reported, TryPhase

\* Every step is a step of JobControl or does not touch the rows.
LEMMA ReportedStep ==
  ASSUME TypeOK, Reported, [Next]_vars
  PROVE  Reported' /\ [Control!Next]_status
<1> USE DEF stores, locals
<1>1. ASSUME NEW r \in Runs, StartRun(r) PROVE Reported' /\ Control!Start(r)
  BY <1>1 DEF StartRun, Goto, TypeOK, Reported, TryPhase, Control!Start
<1>2. ASSUME NEW r \in Runs,
             \/ LoadWatermark(r) \/ ListSilver(r) \/ NoSilver(r) \/ Check(r)
             \/ MergeRead(r) \/ Raise(r)
      PROVE  Reported' /\ status' = status
  <2>1. pc[r] \in TryPhase /\ status' = status
    BY <1>2 DEF LoadWatermark, ListSilver, NoSilver, Check, MergeRead, Raise, TryPhase
  <2>2. PICK phase \in TryPhase \cup {"except"} : Goto(r, phase)
    BY <1>2 DEF LoadWatermark, ListSilver, NoSilver, Check, MergeRead, Raise, TryPhase
  <2> QED
    BY <2>1, <2>2, ReportedQuiet DEF Goto, TypeOK
<1>3. ASSUME NEW r \in Runs, OverwritePartitions(r) \/ CreateTable(r) \/ Upsert(r)
      PROVE  Reported' /\ status' = status
  <2>1. pc[r] \in TryPhase /\ status' = status
    BY <1>3 DEF OverwritePartitions, CreateTable, Upsert, TryPhase
  <2>2. PICK phase \in TryPhase \cup {"except"} : Goto(r, phase)
    BY <1>3 DEF OverwritePartitions, CreateTable, AfterWrite, Upsert, Returns, TryPhase
  <2> QED
    BY <2>1, <2>2, ReportedQuiet DEF Goto, TypeOK
<1>4. ASSUME NEW r \in Runs, FinishSucceeded(r) PROVE Reported' /\ Control!Succeed(r)
  <2>1. pc[r] = "finish" /\ status[r] = "STARTED"
    BY <1>4 DEF FinishSucceeded, Reported, TryPhase
  <2>2. /\ pc'[r] \in {"done", "except"}
        /\ \A q \in Runs \ {r} : pc'[q] = pc[q]
    BY <1>4 DEF FinishSucceeded, Returns, Goto, TypeOK
  <2>3. /\ status' = [status EXCEPT ![r] = "SUCCEEDED"]
        /\ status'[r] = "SUCCEEDED" /\ \A q \in Runs \ {r} : status'[q] = status[q]
    BY <1>4 DEF FinishSucceeded, TypeOK
  <2> QED
    BY <2>1, <2>2, <2>3 DEF Reported, TryPhase, Control!Succeed
<1>5. ASSUME NEW r \in Runs, FinishFailed(r) PROVE Reported' /\ Control!Fail(r)
  <2>1. pc[r] = "except" /\ status[r] \in {"STARTED", "SUCCEEDED"}
    BY <1>5 DEF FinishFailed, Reported
  <2>2. pc'[r] = "done" /\ \A q \in Runs \ {r} : pc'[q] = pc[q]
    BY <1>5 DEF FinishFailed, End, Goto, TypeOK
  <2>3. /\ status' = [status EXCEPT ![r] = "FAILED"]
        /\ \A q \in Runs \ {r} : status'[q] = status[q]
    BY <1>5 DEF FinishFailed, TypeOK
  <2> QED
    BY <2>1, <2>2, <2>3 DEF Reported, TryPhase, Control!Fail
<1>6. ASSUME NEW r \in Runs, Crash(r) PROVE Reported' /\ status' = status
  <2>1. /\ status' = status /\ pc'[r] = "dead"
        /\ \A q \in Runs \ {r} : pc'[q] = pc[q]
    BY <1>6 DEF Crash, End, Goto, TypeOK
  <2> QED
    BY <2>1, ReportedQuiet
<1>7. CASE Arrive \/ UNCHANGED vars
  BY <1>7 DEF Arrive, vars, Reported
<1> QED
  BY <1>1, <1>2, <1>3, <1>4, <1>5, <1>6, <1>7 DEF Next, RunStep, Control!Next

\* The rows of the aggregate job behave as JobControl says.
THEOREM AggregateImplementsJobControl == Spec => ImplementsJobControl
<1> SUFFICES Spec => Control!Spec
  BY DEF ImplementsJobControl
<1>1. Init => Reported /\ Control!Init
  BY DEF Init, Reported, TryPhase, Control!Init
<1> QED
  BY <1>1, ReportedStep, AggregateTyped, PTL DEF Spec, Control!Spec
=============================================================================
