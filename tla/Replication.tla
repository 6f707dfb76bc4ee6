---------------------------- MODULE Replication ----------------------------
(***************************************************************************)
(* What a job that replicates promises, without saying how it works:       *)
(* source rows are delivered at least once, nothing that is not in the     *)
(* source is delivered, and a watermark is a true statement.  It is moved  *)
(* to m only when every source row whose ordering column is at most m has  *)
(* been delivered.  A landing directory may be lost as a whole; it comes   *)
(* back only with everything its watermark speaks for.  The ingest job is  *)
(* one from PostgreSQL to bronze, the aggregate job one from silver to     *)
(* gold.                                                                   *)
(***************************************************************************)
EXTENDS Naturals

CONSTANTS Table, \* the replicated tables
          Row    \* the rows a table may hold; a row has a field ts

VARIABLES source,    \* source[t]: the rows of table t in the source
          delivered, \* delivered[t]: the rows of t that have landed
          landed,    \* the tables that have a landing directory
          watermark  \* watermark[t]: the stored watermark of t, 0 when absent

vars == <<source, delivered, landed, watermark>>

Backed(t, m, D) == \A row \in source[t] : row.ts <= m => row \in D

Init == /\ source = [t \in Table |-> {}]
        /\ delivered = [t \in Table |-> {}]
        /\ landed = {}
        /\ watermark = [t \in Table |-> 0]

\* The source grows; a new row is later than everything already vouched for.
Arrive(t, row) == /\ row.ts > watermark[t]
                  /\ source' = [source EXCEPT ![t] = @ \cup {row}]
                  /\ UNCHANGED <<delivered, landed, watermark>>

\* Some source rows land.  A directory that was missing reappears only with
\* all the rows its watermark speaks for.
Deliver(t, S) == /\ t \in landed \/ Backed(t, watermark[t], delivered[t] \cup S)
                 /\ delivered' = [delivered EXCEPT ![t] = @ \cup S]
                 /\ landed' = landed \cup {t}
                 /\ UNCHANGED <<source, watermark>>

\* The watermark moves only over rows that have been delivered.
Vouch(t, m) == /\ t \in landed
               /\ Backed(t, m, delivered[t])
               /\ watermark' = [watermark EXCEPT ![t] = m]
               /\ UNCHANGED <<source, delivered, landed>>

\* The object store is emptied; the watermarks live elsewhere and stay.
Lose == /\ delivered' = [t \in Table |-> {}]
        /\ landed' = {}
        /\ UNCHANGED <<source, watermark>>

Next == \E t \in Table :
          \/ \E row \in Row : Arrive(t, row)
          \/ \E S \in SUBSET source[t] : Deliver(t, S)
          \/ \E row \in source[t] : Vouch(t, row.ts)
          \/ Lose

Spec == Init /\ [][Next]_vars
============================================================================
