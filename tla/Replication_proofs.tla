-------------------------- MODULE Replication_proofs --------------------------
(***************************************************************************)
(* What follows from the promise of a replicating job, for any tables and  *)
(* rows, and so for each job that implements it.                           *)
(***************************************************************************)
EXTENDS Replication, TLAPS

\* Rows are ordered by numbers.
Stamped == \A row \in Row : row.ts \in Nat

Typed == /\ source \in [Table -> SUBSET Row]
         /\ delivered \in [Table -> SUBSET Row]
         /\ landed \subseteq Table
         /\ watermark \in [Table -> Nat]

\* A watermark is a true statement in every state, not only when it moves:
\* what has landed holds every source row at or below it.
WatermarkTrue == \A t \in landed : Backed(t, watermark[t], delivered[t])

\* Only source rows are ever delivered.
OnlySourceRows == \A t \in Table : delivered[t] \subseteq source[t]

\* Rows below a larger bound are at least those below a smaller one.
LEMMA BackedGrows ==
  ASSUME NEW t, NEW m, NEW D, NEW E, Backed(t, m, D), D \subseteq E
  PROVE  Backed(t, m, E)
  BY DEF Backed

\* One step keeps what is known of the replica.
LEMMA ReplicaStep ==
  ASSUME Stamped, Typed, WatermarkTrue, OnlySourceRows, [Next]_vars
  PROVE  Typed' /\ WatermarkTrue' /\ OnlySourceRows'
<1>1. CASE UNCHANGED vars
  BY <1>1 DEF vars, Typed, WatermarkTrue, OnlySourceRows, Backed
<1>2. ASSUME NEW t \in Table, NEW row \in Row, Arrive(t, row)
      PROVE  Typed' /\ WatermarkTrue' /\ OnlySourceRows'
  <2>1. Typed' /\ OnlySourceRows'
    BY <1>2 DEF Arrive, Typed, OnlySourceRows
  <2>2. ASSUME NEW u \in landed PROVE Backed(u, watermark[u], delivered[u])'
    <3>1. Backed(u, watermark[u], delivered[u])
      BY DEF WatermarkTrue
    <3>2. CASE u = t
      <4>1. ~(row.ts <= watermark[t])
        BY <1>2 DEF Arrive, Stamped, Typed
      <4>2. source'[u] = source[u] \cup {row} /\ UNCHANGED <<watermark, delivered>>
        BY <1>2, <3>2 DEF Arrive, Typed
      <4> QED
        BY <3>1, <3>2, <4>1, <4>2 DEF Backed
    <3>3. CASE u # t
      <4>1. source'[u] = source[u] /\ UNCHANGED <<watermark, delivered>>
        BY <1>2, <3>3 DEF Arrive, Typed
      <4> QED
        BY <3>1, <4>1 DEF Backed
    <3> QED
      BY <3>2, <3>3
  <2> QED
    BY <1>2, <2>1, <2>2 DEF Arrive, WatermarkTrue
<1>3. ASSUME NEW t \in Table, NEW S \in SUBSET source[t], Deliver(t, S)
      PROVE  Typed' /\ WatermarkTrue' /\ OnlySourceRows'
  <2>1. /\ UNCHANGED <<source, watermark>> /\ landed' = landed \cup {t}
        /\ delivered'[t] = delivered[t] \cup S
        /\ \A u \in Table \ {t} : delivered'[u] = delivered[u]
    BY <1>3 DEF Deliver, Typed
  <2>2. Typed' /\ OnlySourceRows'
    BY <1>3, <2>1 DEF Deliver, Typed, OnlySourceRows
  <2>3. Backed(t, watermark[t], delivered[t] \cup S)
    BY <1>3, BackedGrows DEF Deliver, WatermarkTrue
  <2> QED
    BY <2>1, <2>2, <2>3 DEF WatermarkTrue, Backed, Typed
<1>4. ASSUME NEW t \in Table, NEW row \in source[t], Vouch(t, row.ts)
      PROVE  Typed' /\ WatermarkTrue' /\ OnlySourceRows'
  <2>1. row.ts \in Nat
    BY DEF Typed, Stamped
  <2>2. /\ UNCHANGED <<source, delivered, landed>> /\ watermark'[t] = row.ts
        /\ \A u \in Table \ {t} : watermark'[u] = watermark[u]
        /\ watermark' \in [Table -> Nat]
    BY <1>4, <2>1 DEF Vouch, Typed
  <2>3. Backed(t, row.ts, delivered[t])
    BY <1>4 DEF Vouch
  <2> QED
    BY <2>2, <2>3 DEF WatermarkTrue, OnlySourceRows, Backed, Typed
<1>5. CASE Lose
  BY <1>5 DEF Lose, Typed, WatermarkTrue, OnlySourceRows
<1> QED
  BY <1>1, <1>2, <1>3, <1>4, <1>5 DEF Next

\* The watermarks of a job that keeps the promise are true, and it delivers
\* nothing but source rows.
THEOREM ReplicationWatermarkTrue == Stamped /\ Spec => [](WatermarkTrue /\ OnlySourceRows)
<1> SUFFICES ASSUME Stamped PROVE Spec => [](WatermarkTrue /\ OnlySourceRows)
  OBVIOUS
<1>1. Init => Typed /\ WatermarkTrue /\ OnlySourceRows
  BY DEF Init, Typed, WatermarkTrue, OnlySourceRows
<1>2. Typed /\ WatermarkTrue /\ OnlySourceRows /\ [Next]_vars
      => Typed' /\ WatermarkTrue' /\ OnlySourceRows'
  BY ReplicaStep
<1> QED
  BY <1>1, <1>2, PTL DEF Spec
=============================================================================
