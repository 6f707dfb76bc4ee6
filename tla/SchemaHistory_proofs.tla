------------------------- MODULE SchemaHistory_proofs -------------------------
(***************************************************************************)
(* What follows from the promise of a schema registry, for any users and   *)
(* definitions, and so for the registry that implements it.                *)
(***************************************************************************)
EXTENDS SchemaHistory, TLAPS

\* Versions are numbers from the first on, without a gap.
Numbered == /\ DOMAIN log \subseteq Nat
            /\ \A v \in DOMAIN log : First <= v
            /\ \A v \in DOMAIN log : v # First => v - 1 \in DOMAIN log

\* What a user holds is in the log.
SnapshotsTrue ==
    \A u \in User : \A snapshot \in held[u] :
        /\ snapshot.version \in DOMAIN log
        /\ log[snapshot.version] = snapshot.definition

\* Each version differs from the one before.
NoRepeats == \A v \in DOMAIN log : v + 1 \in DOMAIN log => log[v + 1] # log[v]

\* Whatever users hold, and however long, a version that exists stays as it
\* is; at most one version comes at a time.
LogStays ==
    [][/\ \A v \in DOMAIN log : v \in DOMAIN log' /\ log'[v] = log[v]
       /\ \A v, w \in DOMAIN log' \ DOMAIN log : v = w]_vars

Promised == /\ Numbered /\ SnapshotsTrue /\ NoRepeats
            /\ held = [u \in User |-> held[u]]

\* Who opens or closes the log leaves it alone; what he gets is the newest.
LEMMA OpenOrClose ==
  ASSUME Promised, NEW u \in User, Open(u) \/ Close(u)
  PROVE  Promised' /\ log' = log
<1>1. /\ log' = log
      /\ \A w \in User \ {u} : held'[w] = held[w]
      /\ held' = [w \in User |-> held'[w]]
  BY DEF Open, Close, Promised
<1>2. \A snapshot \in held'[u] : /\ snapshot.version \in DOMAIN log
                                 /\ log[snapshot.version] = snapshot.definition
  <2>1. CASE Open(u)
    <3>1. PICK v \in DOMAIN log :
             held' = [held EXCEPT ![u] = {[version |-> v, definition |-> log[v]]}]
      BY <2>1 DEF Open
    <3>2. held'[u] = {[version |-> v, definition |-> log[v]]}
      BY <3>1 DEF Promised
    <3> QED
      BY <3>2
  <2>2. CASE Close(u)
    BY <2>2 DEF Close, Promised
  <2> QED
    BY <2>1, <2>2
<1>3. SnapshotsTrue'
  BY <1>1, <1>2 DEF SnapshotsTrue, Promised
<1> QED
  BY <1>1, <1>3 DEF Promised, Numbered, NoRepeats

\* Who appends makes one new version after the newest.
LEMMA AppendOne ==
  ASSUME First \in Nat, Promised, NEW u \in User, NEW d \in Definition, Append(u, d)
  PROVE  /\ Promised'
         /\ \A v \in DOMAIN log : v \in DOMAIN log' /\ log'[v] = log[v]
         /\ \A v, w \in DOMAIN log' \ DOMAIN log : v = w
<1>1. PICK snapshot \in held[u] :
         /\ Newest(snapshot.version) /\ d # snapshot.definition
         /\ log' = [v \in DOMAIN log \cup {snapshot.version + 1} |->
                      IF v = snapshot.version + 1 THEN d ELSE log[v]]
  BY DEF Append
<1> DEFINE n == snapshot.version
<1>2. /\ n \in DOMAIN log /\ n \in Nat /\ First <= n
      /\ \A v \in DOMAIN log : v \in Nat /\ First <= v /\ v <= n
      /\ log[n] = snapshot.definition
  BY <1>1 DEF Newest, Promised, Numbered, SnapshotsTrue
<1>3. n + 1 \notin DOMAIN log
  <2>1. ~(n + 1 <= n)
    BY <1>2
  <2> QED
    BY <1>2, <2>1
<1>4. /\ DOMAIN log' = DOMAIN log \cup {n + 1} /\ log'[n + 1] = d
      /\ \A v \in DOMAIN log : log'[v] = log[v]
  BY <1>1, <1>3
<1>5. d # log[n]
  BY <1>1, <1>2
<1>6. /\ held' = [w \in User |-> held'[w]]
      /\ \A w \in User : held'[w] \subseteq held[w]
  BY DEF Append, Promised
<1> HIDE DEF n
<1>7. Numbered'
  <2>1. DOMAIN log' \subseteq Nat /\ \A v \in DOMAIN log' : First <= v
    BY <1>2, <1>4
  <2>2. ASSUME NEW v \in DOMAIN log', v # First PROVE v - 1 \in DOMAIN log'
    <3>1. CASE v \in DOMAIN log
      BY <1>4, <2>2, <3>1 DEF Promised, Numbered
    <3>2. CASE v = n + 1
      <4>1. v - 1 = n
        BY <1>2, <3>2
      <4> QED
        BY <1>2, <1>4, <4>1
    <3> QED
      BY <1>4, <3>1, <3>2
  <2> QED
    BY <2>1, <2>2 DEF Numbered
<1>8. SnapshotsTrue'
  BY <1>4, <1>6 DEF SnapshotsTrue, Promised
<1>9. NoRepeats'
  <2> SUFFICES ASSUME NEW v \in DOMAIN log', v + 1 \in DOMAIN log'
               PROVE  log'[v + 1] # log'[v]
    BY DEF NoRepeats
  <2>1. v \in DOMAIN log
    <3>1. CASE v = n + 1
      <4>1. v + 1 # n + 1 /\ ~(v + 1 <= n)
        BY <1>2, <3>1
      <4> QED
        BY <1>2, <1>4, <4>1
    <3> QED
      BY <1>4, <3>1
  <2>2. CASE v = n
    BY <1>4, <1>5, <2>1, <2>2
  <2>3. CASE v # n
    <3>1. v + 1 # n + 1
      BY <1>2, <2>1, <2>3
    <3>2. v + 1 \in DOMAIN log
      BY <1>4, <3>1
    <3> QED
      BY <1>4, <2>1, <3>2 DEF Promised, NoRepeats
  <2> QED
    BY <2>2, <2>3
<1>10. Promised'
  BY <1>6, <1>7, <1>8, <1>9 DEF Promised
<1> QED
  BY <1>4, <1>10

\* A log with at most one version has no gap and no repeats.
LEMMA HistoryStarts == ASSUME First \in Nat, Init PROVE Promised
<1>1. held = [u \in User |-> {}]
  BY DEF Init
<1>2. CASE log = [v \in {} |-> {}]
  BY <1>1, <1>2 DEF Promised, Numbered, SnapshotsTrue, NoRepeats
<1>3. CASE \E d \in Definition : log = [v \in {First} |-> d]
  <2>1. DOMAIN log = {First} /\ First + 1 # First
    BY <1>3
  <2> QED
    BY <1>1, <2>1 DEF Promised, Numbered, SnapshotsTrue, NoRepeats
<1> QED
  BY <1>2, <1>3 DEF Init

\* In a registry that keeps the promise, versions are numbered without a gap,
\* each differs from the one before, and whatever a user holds is true.
LEMMA HistoryPromised == First \in Nat /\ Spec => []Promised
<1> SUFFICES ASSUME First \in Nat PROVE Spec => []Promised
  OBVIOUS
<1>1. Promised /\ [Next]_vars => Promised'
  <2> SUFFICES ASSUME Promised, [Next]_vars PROVE Promised'
    OBVIOUS
  <2>1. CASE UNCHANGED vars
    BY <2>1 DEF vars, Promised, Numbered, SnapshotsTrue, NoRepeats
  <2> QED
    BY <2>1, OpenOrClose, AppendOne DEF Next
<1> QED
  BY <1>1, HistoryStarts, PTL DEF Spec

\* A snapshot never becomes wrong, however long it is held while others
\* register, and no two versions in a row are the same.
THEOREM HistorySnapshotsTrue ==
    First \in Nat /\ Spec => [](Numbered /\ SnapshotsTrue /\ NoRepeats)
<1>1. Promised => Numbered /\ SnapshotsTrue /\ NoRepeats
  BY DEF Promised
<1> QED
  BY <1>1, HistoryPromised, PTL

\* No version is ever changed or removed.
THEOREM HistoryLogStays == First \in Nat /\ Spec => LogStays
<1> SUFFICES ASSUME First \in Nat PROVE Spec => LogStays
  OBVIOUS
<1>1. Promised /\ [Next]_vars
      => [/\ \A v \in DOMAIN log : v \in DOMAIN log' /\ log'[v] = log[v]
          /\ \A v, w \in DOMAIN log' \ DOMAIN log : v = w]_vars
  <2> SUFFICES ASSUME Promised, Next
               PROVE  /\ \A v \in DOMAIN log : v \in DOMAIN log' /\ log'[v] = log[v]
                      /\ \A v, w \in DOMAIN log' \ DOMAIN log : v = w
    OBVIOUS
  <2> QED
    BY OpenOrClose, AppendOne DEF Next
<1> QED
  BY <1>1, HistoryPromised, PTL DEF Spec, LogStays
=============================================================================
