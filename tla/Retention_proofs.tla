-------------------------- MODULE Retention_proofs --------------------------
(***************************************************************************)
(* Proofs about the retention lambda, for any event, any set of objects,   *)
(* any batch and page size, and any number of overlapping invocations.     *)
(***************************************************************************)
EXTENDS Retention, FiniteSetTheorems, TLAPS

-----------------------------------------------------------------------------
\* Months and ranges.

\* An entry of the event has a period of whole years that starts in January
\* or in April.
LEMMA EntryTyped ==
  ASSUME NEW i \in 1 .. Len(Event)
  PROVE  /\ Event[i] \in [table : STRING, years : Nat \ {0}, start : {1, 4},
                          form : Form]
         /\ Event[i].years \in Nat /\ Event[i].start \in {1, 4}
<1> DEFINE S == [table : STRING, years : Nat \ {0}, start : {1, 4}, form : Form]
<1>1. Event \in Seq(S)
  BY RetentionAssumption
<1>2. Event[i] \in S
  <2> HIDE DEF S
  <2> QED
    BY <1>1
<1> QED
  BY <1>2

\* The month, key and partition of an object.
LEMMA ObjectTyped ==
  ASSUME NEW o \in Object
  PROVE  /\ o.month \in Month /\ o.key \in Nat /\ o.key > 0
         /\ o.month.year \in Int /\ o.month.month \in 1 .. 12
  BY RetentionAssumption DEF Month

\* Months are totally ordered.
LEMMA MonthOrder ==
  ASSUME NEW a \in Month, NEW b \in Month, NEW c \in Month
  PROVE  /\ ~Before(a, b) /\ ~Before(b, a) => a = b
         /\ Before(a, b) /\ ~Before(c, b) => Before(a, c)
         /\ ~Before(a, a)
<1>1. /\ a = [year |-> a.year, month |-> a.month]
      /\ b = [year |-> b.year, month |-> b.month]
      /\ {a.year, b.year, c.year} \subseteq Int
      /\ {a.month, b.month, c.month} \subseteq Int
  BY DEF Month
<1>2. ~Before(a, b) /\ ~Before(b, a) => a.year = b.year /\ a.month = b.month
  BY <1>1 DEF Before
<1>3. /\ Before(a, b) /\ ~Before(c, b) => Before(a, c)
      /\ ~Before(a, a)
  BY <1>1 DEF Before
<1> QED
  BY <1>1, <1>2, <1>3

\* The first month to keep is a month.
LEMMA RangeTyped ==
  ASSUME NEW ym \in Month, NEW i \in 1 .. Len(Event)
  PROVE  /\ RangeStart(ym, Event[i]) \in Month
         /\ PeriodYear(ym, Event[i].start) \in Int
  BY EntryTyped DEF RangeStart, PeriodYear, Month

\* A month lies before the start of a period exactly when the year that it
\* belongs to is an earlier one.
LEMMA PeriodOrder ==
  ASSUME NEW ym, ym.year \in Int, ym.month \in Int, NEW y \in Int, NEW s \in Int
  PROVE  /\ PeriodYear(ym, s) \in Int
         /\ Before(ym, [year |-> y, month |-> s]) <=> PeriodYear(ym, s) < y
  BY DEF PeriodYear, Before

\* Later months belong to the same or to later years.
LEMMA PeriodGrows ==
  ASSUME NEW a, a.year \in Int, a.month \in 1 .. 12, NEW s \in Int,
         NEW b, \/ b.year = a.year + 1 /\ b.month = 1 /\ a.month = 12
                \/ b.year = a.year /\ b.month = a.month + 1
  PROVE  PeriodYear(a, s) <= PeriodYear(b, s)
  BY DEF PeriodYear

\* range_start meets the rule: a month lies before it exactly when the year
\* it belongs to ended at least the retention period ago.
THEOREM RangeMeetsRule ==
  ASSUME now \in Month, NEW ym \in Month, NEW i \in 1 .. Len(Event)
  PROVE  Before(ym, RangeStart(now, Event[i])) <=> Expired(ym, Event[i])
<1>1. Event[i].years \in Nat /\ Event[i].start \in Int
  BY EntryTyped
<1>2. /\ ym.year \in Int /\ ym.month \in Int
      /\ now.year \in Int /\ now.month \in Int
  BY DEF Month
<1>3. /\ PeriodYear(ym, Event[i].start) \in Int
      /\ PeriodYear(now, Event[i].start) \in Int
  BY <1>1, <1>2, PeriodOrder
<1>4. Before(ym, RangeStart(now, Event[i]))
        <=> PeriodYear(ym, Event[i].start)
              < PeriodYear(now, Event[i].start) - Event[i].years
  BY <1>1, <1>2, <1>3, PeriodOrder DEF RangeStart
<1>5. Expired(ym, Event[i])
        <=> ~(PeriodYear(now, Event[i].start)
                < PeriodYear(ym, Event[i].start) + 1 + Event[i].years)
  BY <1>1, <1>2, <1>3, PeriodOrder DEF Expired
<1> QED
  BY <1>1, <1>3, <1>4, <1>5

\* As time goes on the first month to keep only moves forward.
LEMMA RangeMoves ==
  ASSUME now \in Month, Tick, NEW i \in 1 .. Len(Event)
  PROVE  /\ now' \in Month
         /\ ~Before(RangeStart(now', Event[i]), RangeStart(now, Event[i]))
<1>1. Event[i].years \in Nat /\ Event[i].start \in Int
  BY EntryTyped
<1>2. now.year \in Int /\ now.month \in 1 .. 12
  BY DEF Month
<1>3. /\ now' \in Month
      /\ \/ now'.year = now.year + 1 /\ now'.month = 1 /\ now.month = 12
         \/ now'.year = now.year /\ now'.month = now.month + 1
  BY <1>2 DEF Tick, Month
<1>4. /\ PeriodYear(now, Event[i].start) \in Int
      /\ PeriodYear(now', Event[i].start) \in Int
  BY <1>3, RangeTyped
<1>5. PeriodYear(now, Event[i].start) <= PeriodYear(now', Event[i].start)
  BY <1>1, <1>2, <1>3, PeriodGrows
<1> QED
  BY <1>1, <1>3, <1>4, <1>5 DEF RangeStart, Before

-----------------------------------------------------------------------------
\* Types.

\* An invocation inside apply_retention is at a valid entry of the event.
InEntry == {"years", "months", "sweep"}
Within == \A l \in Invocations : pc[l] \in InEntry =>
            entry[l] \in 1 .. Len(Event) /\ Entry(l).form = "valid"

\* The length of the event is a number.
LEMMA EventLength == Len(Event) \in Nat
<1> DEFINE S == [table : STRING, years : Nat \ {0}, start : {1, 4}, form : Form]
<1>1. Event \in Seq(S)
  BY RetentionAssumption
<1> HIDE DEF S
<1> QED
  BY <1>1

\* A result moves the loop on, but not beyond the end of the event.
LEMMA RecordTyped ==
  ASSUME TypeOK, Within, NEW l \in Invocations, entry[l] <= Len(Event), Record(l)
  PROVE  /\ pc' \in [Invocations -> Busy \cup {"idle"}]
         /\ entry' \in [Invocations -> 1 .. Len(Event) + 1]
         /\ handled' \in [Invocations -> SUBSET (1 .. Len(Event))]
         /\ outcome' \in [Invocations -> {"none", "returned", "raised", "killed"}]
         /\ Within'
<1>1. entry[l] \in 1 .. Len(Event)
  BY EventLength DEF TypeOK
<1>2. pc' \in [Invocations -> Busy \cup {"idle"}] /\ outcome' = outcome
  BY DEF TypeOK, Record, Goto, Busy
<1>3. entry' \in [Invocations -> 1 .. Len(Event) + 1]
  BY <1>1, EventLength DEF TypeOK, Record
<1>4. handled' \in [Invocations -> SUBSET (1 .. Len(Event))]
  BY <1>1 DEF TypeOK, Record
<1>5. Within'
  BY DEF TypeOK, Within, InEntry, Record, Goto, Entry
<1> QED
  BY <1>2, <1>3, <1>4, <1>5 DEF TypeOK

\* So does the end of an invocation.
LEMMA ReturnTyped ==
  ASSUME TypeOK, Within, NEW l \in Invocations,
         NEW how \in {"returned", "raised", "killed"}, Return(l, how)
  PROVE  /\ pc' \in [Invocations -> Busy \cup {"idle"}]
         /\ entry' = entry /\ handled' = handled
         /\ outcome' \in [Invocations -> {"none", "returned", "raised", "killed"}]
         /\ Within'
  BY DEF TypeOK, Return, Goto, Within, InEntry, Entry

\* A failed call or a kill stays within the bound.
LEMMA MishapTyped == ASSUME TypeOK, Mishap PROVE mishaps' \in 0 .. MaxMishaps
  BY RetentionAssumption DEF TypeOK, Mishap

\* The expired months of a listed year.
Found(l, y) == {o.month : o \in {p \in Stored(l) :
                    p.month.year = y /\ Before(p.month, cutoff[l])}}

\* Each is the month of a stored object.
LEMMA FoundMonths ==
  ASSUME NEW l, NEW y, NEW ym
  PROVE  ym \in Found(l, y) <=> \E o \in Stored(l) : /\ o.month = ym /\ ym.year = y
                                                     /\ Before(ym, cutoff[l])
  BY DEF Found

\* So it is a month.
LEMMA FoundTyped == ASSUME TypeOK, NEW l, NEW y PROVE Found(l, y) \subseteq Month
<1> SUFFICES ASSUME NEW ym \in Found(l, y) PROVE ym \in Month
  OBVIOUS
<1>1. PICK o \in Stored(l) : o.month = ym
  BY FoundMonths
<1>2. o \in Object
  BY DEF Stored, TypeOK
<1> QED
  BY <1>1, <1>2, ObjectTyped

\* Listing goes through the years one by one, and then to the sweep.
LEMMA MonthsFound ==
  ASSUME TypeOK, NEW l \in Invocations, ListMonths(l)
  PROVE  \/ years[l] = {} /\ Goto(l, "sweep") /\ UNCHANGED <<years, todo>>
         \/ \E y \in years[l] : /\ years' = [years EXCEPT ![l] = @ \ {y}]
                                /\ todo' = [todo EXCEPT ![l] = @ \cup Found(l, y)]
                                /\ pc' = pc
  BY DEF ListMonths, Found

\* Types are kept, and an entry is only worked on inside the event.
LEMMA RetentionWithin == Spec => [](TypeOK /\ Within)
<1>1. Init => TypeOK /\ Within
  <2> SUFFICES ASSUME Init PROVE TypeOK /\ Within
    OBVIOUS
  <2>1. 1 \in 1 .. Len(Event) + 1 /\ 0 \in 0 .. MaxMishaps
    BY EventLength, RetentionAssumption
  <2> QED
    BY <2>1, RetentionAssumption DEF Init, TypeOK, Within, InEntry, Busy
<1>2. TypeOK /\ Within /\ [Next]_vars => TypeOK' /\ Within'
  <2> SUFFICES ASSUME TypeOK, Within, [Next]_vars PROVE TypeOK' /\ Within'
    OBVIOUS
  <2> USE DEF listing
  <2>1. ASSUME NEW l \in Invocations, Invoke(l) PROVE TypeOK' /\ Within'
    <3>1. 1 \in 1 .. Len(Event) + 1
      BY EventLength
    <3> QED
      BY <2>1, <3>1 DEF Invoke, Goto, TypeOK, Within, InEntry, Entry, Busy
  <2>2. ASSUME NEW l \in Invocations, NextEntry(l) PROVE TypeOK' /\ Within'
    <3>1. CASE Return(l, "returned") \/ Return(l, "raised")
      BY <2>2, <3>1, ReturnTyped DEF NextEntry, TypeOK
    <3>2. CASE entry[l] <= Len(Event) /\ Record(l)
      BY <2>2, <3>2, RecordTyped DEF NextEntry, TypeOK
    <3> QED
      BY <2>2, <3>1, <3>2 DEF NextEntry
  <2>3. ASSUME NEW l \in Invocations, ComputeRange(l) PROVE TypeOK' /\ Within'
    <3>1. entry[l] \in 1 .. Len(Event)
      BY <2>3, EventLength DEF ComputeRange, TypeOK
    <3>2. cutoff' \in [Invocations -> Month]
      BY <2>3, <3>1, RangeTyped DEF ComputeRange, TypeOK, Entry
    <3>3. due' \in [Invocations -> SUBSET Object]
      BY <2>3 DEF ComputeRange, TypeOK, Stored
    <3>4. pc' \in [Invocations -> Busy \cup {"idle"}] /\ Within'
      BY <2>3, <3>1 DEF ComputeRange, TypeOK, Goto, Busy, Within, InEntry, Entry
    <3> QED
      BY <2>3, <3>2, <3>3, <3>4 DEF ComputeRange, TypeOK
  <2>4. ASSUME NEW l \in Invocations, ListYears(l) PROVE TypeOK' /\ Within'
    <3>1. {o.month.year : o \in Stored(l)} \subseteq Int
      BY ObjectTyped DEF TypeOK, Stored
    <3>2. years' \in [Invocations -> SUBSET Int]
      BY <2>4, <3>1 DEF ListYears, TypeOK
    <3>3. todo' \in [Invocations -> SUBSET Month]
      BY <2>4 DEF ListYears, TypeOK
    <3>4. pc' \in [Invocations -> Busy \cup {"idle"}] /\ Within'
      BY <2>4 DEF ListYears, TypeOK, Goto, Busy, Within, InEntry, Entry
    <3> QED
      BY <2>4, <3>2, <3>3, <3>4 DEF ListYears, TypeOK
  <2>5. ASSUME NEW l \in Invocations, ListMonths(l) PROVE TypeOK' /\ Within'
    <3>1. /\ token' \in [Invocations -> Nat] /\ more' \in [Invocations -> BOOLEAN]
          /\ batch' \in [Invocations -> SUBSET Object]
      BY <2>5 DEF ListMonths, Rewind, TypeOK
    <3>2. /\ years' \in [Invocations -> SUBSET Int]
          /\ todo' \in [Invocations -> SUBSET Month]
      <4>1. \/ UNCHANGED <<years, todo>>
            \/ \E y \in years[l] : /\ years' = [years EXCEPT ![l] = @ \ {y}]
                                   /\ todo' = [todo EXCEPT ![l] = @ \cup Found(l, y)]
        BY <2>5, MonthsFound
      <4>2. \A y : Found(l, y) \subseteq Month
        BY FoundTyped
      <4>3. CASE UNCHANGED <<years, todo>>
        BY <4>3 DEF TypeOK
      <4>4. ASSUME NEW y \in years[l], years' = [years EXCEPT ![l] = @ \ {y}]
            PROVE  years' \in [Invocations -> SUBSET Int]
        <5>1. years[l] \ {y} \in SUBSET Int
          BY DEF TypeOK
        <5> QED
          BY <4>4, <5>1 DEF TypeOK
      <4>5. ASSUME NEW y, todo' = [todo EXCEPT ![l] = @ \cup Found(l, y)]
            PROVE  todo' \in [Invocations -> SUBSET Month]
        <5>1. todo[l] \cup Found(l, y) \in SUBSET Month
          BY <4>2 DEF TypeOK
        <5> QED
          BY <4>5, <5>1 DEF TypeOK
      <4> QED
        BY <4>1, <4>3, <4>4, <4>5
    <3>3. pc' \in [Invocations -> Busy \cup {"idle"}] /\ Within'
      BY <2>5 DEF ListMonths, TypeOK, Goto, Busy, Within, InEntry, Entry
    <3> QED
      BY <2>5, <3>1, <3>2, <3>3 DEF ListMonths, TypeOK
  <2>6. ASSUME NEW l \in Invocations, Page(l) PROVE TypeOK' /\ Within'
    <3> DEFINE rest(ym) == {o \in Stored(l) : o.month = ym /\ o.key > token[l]}
               page(ym) == Least(rest(ym), PageSize)
    <3>1. \A ym : page(ym) \subseteq Object
      BY DEF TypeOK, Stored, Least
    <3>2. PICK ym \in todo[l] :
            /\ batch' = [batch EXCEPT ![l] = @ \cup page(ym)]
            /\ more' = [more EXCEPT ![l] = page(ym) # rest(ym)]
            /\ \/ page(ym) = {} /\ UNCHANGED token
               \/ \E o \in page(ym) : token' = [token EXCEPT ![l] = o.key]
      BY <2>6 DEF Page
    <3> HIDE DEF page, rest
    <3>3. token' \in [Invocations -> Nat]
      BY <3>1, <3>2, ObjectTyped DEF TypeOK
    <3>4. /\ batch' \in [Invocations -> SUBSET Object]
          /\ more' \in [Invocations -> BOOLEAN]
      BY <3>1, <3>2 DEF TypeOK
    <3>5. Within'
      BY <2>6 DEF Page, Within, Entry
    <3> QED
      BY <2>6, <3>3, <3>4, <3>5 DEF Page, TypeOK
  <2>7. ASSUME NEW l \in Invocations, DeleteBatch(l) PROVE TypeOK' /\ Within'
    <3>1. objects' \subseteq objects /\ batch' \in [Invocations -> SUBSET Object]
      BY <2>7 DEF DeleteBatch, TypeOK
    <3> QED
      BY <2>7, <3>1 DEF DeleteBatch, TypeOK, Within, Entry
  <2>8. ASSUME NEW l \in Invocations, PartitionSwept(l) PROVE TypeOK' /\ Within'
    BY <2>8 DEF PartitionSwept, Rewind, TypeOK, Within, Entry
  <2>9. ASSUME NEW l \in Invocations, TableSwept(l) PROVE TypeOK' /\ Within'
    <3>1. entry[l] <= Len(Event)
      BY <2>9, EventLength DEF TableSwept, Within, InEntry
    <3> QED
      BY <2>9, <3>1, RecordTyped DEF TableSwept, TypeOK
  <2>10. ASSUME NEW l \in Invocations, DeleteBatchErrors(l) PROVE TypeOK' /\ Within'
    <3>1. entry[l] <= Len(Event) /\ objects' \subseteq objects
      BY <2>10, EventLength DEF DeleteBatchErrors, Within, InEntry
    <3> QED
      BY <2>10, <3>1, RecordTyped, MishapTyped DEF DeleteBatchErrors, TypeOK
  <2>11. ASSUME NEW l \in Invocations, Fail(l) PROVE TypeOK' /\ Within'
    <3>1. entry[l] <= Len(Event)
      BY <2>11, EventLength DEF Fail, Within, InEntry
    <3> QED
      BY <2>11, <3>1, RecordTyped, MishapTyped DEF Fail, TypeOK
  <2>12. ASSUME NEW l \in Invocations, Kill(l) PROVE TypeOK' /\ Within'
    BY <2>12, ReturnTyped, MishapTyped DEF Kill, TypeOK
  <2>13. CASE Put
    BY <2>13 DEF Put, TypeOK, Within, Entry
  <2>14. CASE Tick
    <3>1. now' \in Month
      BY <2>14 DEF TypeOK, Tick, Month
    <3> QED
      BY <2>14, <3>1 DEF Tick, TypeOK, Within, Entry
  <2>15. CASE UNCHANGED vars
    BY <2>15 DEF vars, TypeOK, Within, Entry
  <2> QED
    BY <2>1, <2>2, <2>3, <2>4, <2>5, <2>6, <2>7, <2>8, <2>9, <2>10, <2>11,
       <2>12, <2>13, <2>14, <2>15 DEF Next, Step
<1> QED
  BY <1>1, <1>2, PTL DEF Spec

\* The bucket, the clock and the local variables of the lambda keep their
\* types.
THEOREM RetentionTyped == Spec => []TypeOK
  BY RetentionWithin, PTL

-----------------------------------------------------------------------------
\* Only what has expired is deleted.

\* What an invocation is about to delete lies before its range, and its
\* range lies in the past of the one it would compute now.
Aimed(l) ==
    /\ pc[l] \in InEntry => ~Before(RangeStart(now, Entry(l)), cutoff[l])
    /\ pc[l] \in {"months", "sweep"} =>
          \A ym \in todo[l] : Before(ym, cutoff[l])
    /\ pc[l] = "sweep" =>
          \A o \in batch[l] : o.table = Entry(l).table /\ Before(o.month, cutoff[l])

\* No step of an invocation changes what another one aims at.
LEMMA AimedElsewhere ==
  ASSUME NEW q \in Invocations, Aimed(q), now' = now,
         pc'[q] = pc[q], entry'[q] = entry[q], cutoff'[q] = cutoff[q],
         todo'[q] = todo[q], batch'[q] = batch[q]
  PROVE  Aimed(q)'
  BY DEF Aimed, Entry

\* A partition or a batch that has not been found needs no aim.
LEMMA AimedOutside == ASSUME NEW l, pc'[l] \notin InEntry PROVE Aimed(l)'
  BY DEF Aimed, InEntry

\* The least keys of a set are in the set.
LEMMA LeastWithin == ASSUME NEW S, NEW n PROVE Least(S, n) \subseteq S
  BY DEF Least

\* Every step keeps every invocation on its aim.
LEMMA RetentionAimed == Spec => [](\A l \in Invocations : Aimed(l))
<1>1. Init => \A l \in Invocations : Aimed(l)
  BY DEF Init, Aimed, InEntry
<1>2. /\ TypeOK /\ TypeOK' /\ Within /\ Within'
      /\ (\A l \in Invocations : Aimed(l)) /\ [Next]_vars
      => (\A l \in Invocations : Aimed(l))'
  <2> SUFFICES ASSUME TypeOK, TypeOK', Within, Within',
                      \A l \in Invocations : Aimed(l), [Next]_vars
               PROVE  (\A l \in Invocations : Aimed(l))'
    OBVIOUS
  <2>1. CASE Put
    BY <2>1 DEF Put, listing, Aimed, Entry
  <2>2. CASE Tick
    <3> SUFFICES ASSUME NEW l \in Invocations PROVE Aimed(l)'
      OBVIOUS
    <3>1. pc' = pc /\ entry' = entry /\ cutoff' = cutoff /\ todo' = todo /\ batch' = batch
      BY <2>2 DEF Tick, listing
    <3>2. CASE pc[l] \in InEntry
      <4>1. entry[l] \in 1 .. Len(Event)
        BY <3>2 DEF Within
      <4>2. /\ now' \in Month
            /\ ~Before(RangeStart(now', Entry(l)), RangeStart(now, Entry(l)))
        BY <2>2, <4>1, RangeMoves DEF TypeOK, Entry
      <4>3. /\ RangeStart(now, Entry(l)) \in Month /\ RangeStart(now', Entry(l)) \in Month
            /\ cutoff[l] \in Month
        BY <4>1, <4>2, RangeTyped DEF Entry, TypeOK
      <4>4. ~Before(RangeStart(now', Entry(l)), cutoff[l])
        BY <3>2, <4>2, <4>3, MonthOrder DEF Aimed
      <4> QED
        BY <3>1, <3>2, <4>4 DEF Aimed, Entry, InEntry
    <3>3. CASE pc[l] \notin InEntry
      BY <3>1, <3>3, AimedOutside
    <3> QED
      BY <3>2, <3>3
  <2>3. CASE UNCHANGED vars
    BY <2>3 DEF vars, listing, Aimed, Entry
  <2>4. ASSUME NEW l \in Invocations,
               Invoke(l) \/ NextEntry(l) \/ TableSwept(l) \/ DeleteBatchErrors(l)
                 \/ Fail(l) \/ Kill(l)
        PROVE  (\A q \in Invocations : Aimed(q))'
    <3>1. pc'[l] \notin InEntry /\ now' = now /\ cutoff' = cutoff
          /\ todo' = todo /\ batch' = batch
      BY <2>4 DEF Invoke, NextEntry, TableSwept, DeleteBatchErrors, Fail, Kill, Record,
                  Return, Goto, InEntry, TypeOK, listing
    <3>2. \A q \in Invocations \ {l} : pc'[q] = pc[q] /\ entry'[q] = entry[q]
      BY <2>4 DEF Invoke, NextEntry, TableSwept, DeleteBatchErrors, Fail, Kill, Record,
                  Return, Goto, TypeOK
    <3> QED
      BY <3>1, <3>2, AimedElsewhere, AimedOutside
  <2>5. ASSUME NEW l \in Invocations, ComputeRange(l)
        PROVE  (\A q \in Invocations : Aimed(q))'
    <3>1. pc'[l] = "years" /\ cutoff'[l] = RangeStart(now, Entry(l))
          /\ now' = now /\ entry' = entry /\ todo' = todo /\ batch' = batch
      BY <2>5 DEF ComputeRange, Goto, TypeOK, listing
    <3>2. \A q \in Invocations \ {l} : pc'[q] = pc[q] /\ cutoff'[q] = cutoff[q]
      BY <2>5 DEF ComputeRange, Goto, TypeOK
    <3>3. Aimed(l)'
      <4>1. ~Before(cutoff'[l], cutoff'[l])
        BY MonthOrder DEF TypeOK
      <4> QED
        BY <3>1, <4>1 DEF Aimed, Entry
    <3> QED
      BY <3>1, <3>2, <3>3, AimedElsewhere
  <2>6. ASSUME NEW l \in Invocations, ListYears(l)
        PROVE  (\A q \in Invocations : Aimed(q))'
    <3>1. pc[l] = "years" /\ pc'[l] = "months" /\ todo'[l] = {}
          /\ now' = now /\ entry' = entry /\ cutoff' = cutoff /\ batch' = batch
      BY <2>6 DEF ListYears, Goto, TypeOK
    <3>2. \A q \in Invocations \ {l} : pc'[q] = pc[q] /\ todo'[q] = todo[q]
      BY <2>6 DEF ListYears, Goto, TypeOK
    <3>3. Aimed(l)'
      BY <3>1 DEF Aimed, Entry, InEntry
    <3> QED
      BY <3>1, <3>2, <3>3, AimedElsewhere
  <2>7. ASSUME NEW l \in Invocations, ListMonths(l)
        PROVE  (\A q \in Invocations : Aimed(q))'
    <3>1. /\ pc[l] = "months" /\ pc'[l] \in {"months", "sweep"} /\ batch'[l] = {}
          /\ now' = now /\ entry' = entry /\ cutoff' = cutoff
      BY <2>7 DEF ListMonths, Rewind, Goto, TypeOK
    <3>2. \A q \in Invocations \ {l} : /\ pc'[q] = pc[q] /\ todo'[q] = todo[q]
                                       /\ batch'[q] = batch[q]
      BY <2>7 DEF ListMonths, Rewind, Goto, TypeOK
    <3>3. \A ym \in todo'[l] : Before(ym, cutoff[l])
      <4>1. \A ym \in todo[l] : Before(ym, cutoff[l])
        BY <3>1 DEF Aimed
      <4>2. \/ todo' = todo
            \/ \E y : todo' = [todo EXCEPT ![l] = @ \cup Found(l, y)]
        BY <2>7, MonthsFound
      <4>3. \A y : \A ym \in Found(l, y) : Before(ym, cutoff[l])
        BY FoundMonths
      <4> QED
        BY <4>1, <4>2, <4>3 DEF TypeOK
    <3>4. Aimed(l)'
      BY <3>1, <3>3 DEF Aimed, Entry, InEntry
    <3> QED
      BY <3>1, <3>2, <3>4, AimedElsewhere
  <2>8. ASSUME NEW l \in Invocations, Page(l) \/ DeleteBatch(l) \/ PartitionSwept(l)
        PROVE  (\A q \in Invocations : Aimed(q))'
    <3>1. /\ pc[l] = "sweep" /\ pc' = pc
          /\ now' = now /\ entry' = entry /\ cutoff' = cutoff
          /\ todo'[l] \subseteq todo[l]
      BY <2>8 DEF Page, DeleteBatch, PartitionSwept, TypeOK
    <3>2. \A q \in Invocations \ {l} : todo'[q] = todo[q] /\ batch'[q] = batch[q]
      BY <2>8 DEF Page, DeleteBatch, PartitionSwept, Rewind, TypeOK
    <3>3. \A o \in batch'[l] : \/ o \in batch[l]
                               \/ o \in Stored(l) /\ o.month \in todo[l]
      <4>1. CASE Page(l)
        <5>1. PICK ym \in todo[l] :
                batch' = [batch EXCEPT ![l] = @ \cup
                  Least({o \in Stored(l) : o.month = ym /\ o.key > token[l]}, PageSize)]
          BY <4>1 DEF Page
        <5> QED
          BY <5>1, LeastWithin DEF TypeOK
      <4>2. CASE DeleteBatch(l) \/ PartitionSwept(l)
        BY <4>2 DEF DeleteBatch, PartitionSwept, Rewind, TypeOK
      <4> QED
        BY <2>8, <4>1, <4>2
    <3>4. Aimed(l)'
      BY <3>1, <3>3 DEF Aimed, Entry, Stored
    <3> QED
      BY <3>1, <3>2, <3>4, AimedElsewhere
  <2> QED
    BY <2>1, <2>2, <2>3, <2>4, <2>5, <2>6, <2>7, <2>8 DEF Next, Step
<1> QED
  BY <1>1, <1>2, RetentionWithin, PTL DEF Spec

\* Whatever is deleted has expired by the rule of some entry, at that time.
THEOREM RetentionOnlyExpiredDeleted == Spec => OnlyExpiredDeleted
<1> DEFINE Due(o) == \E i \in 1 .. Len(Event) :
                        /\ Event[i].form = "valid" /\ Event[i].table = o.table
                        /\ Expired(o.month, Event[i])
<1>1. /\ TypeOK /\ Within /\ (\A l \in Invocations : Aimed(l)) /\ [Next]_vars
      => \A o \in objects \ objects' : Due(o)
  <2> SUFFICES ASSUME TypeOK, Within, \A l \in Invocations : Aimed(l), [Next]_vars,
                      NEW o \in objects \ objects'
               PROVE  Due(o)
    OBVIOUS
  <2>1. PICK l \in Invocations : pc[l] = "sweep" /\ o \in batch[l]
    BY LeastWithin DEF Next, Step, Invoke, NextEntry, ComputeRange, ListYears, ListMonths,
       Page, DeleteBatch, PartitionSwept, TableSwept, DeleteBatchErrors, Fail, Kill,
       Put, Tick, vars
  <2>2. /\ entry[l] \in 1 .. Len(Event) /\ Entry(l).form = "valid"
        /\ Entry(l).table = o.table /\ Before(o.month, cutoff[l])
        /\ ~Before(RangeStart(now, Entry(l)), cutoff[l])
    BY <2>1 DEF Within, Aimed, InEntry
  <2>3. /\ o.month \in Month /\ cutoff[l] \in Month /\ now \in Month
        /\ RangeStart(now, Entry(l)) \in Month
    BY <2>2, ObjectTyped, RangeTyped DEF TypeOK, Entry
  <2>4. Before(o.month, RangeStart(now, Entry(l)))
    BY <2>2, <2>3, MonthOrder
  <2> QED
    BY <2>2, <2>3, <2>4, RangeMeetsRule DEF Entry
<1> QED
  BY <1>1, RetentionWithin, RetentionAimed, PTL DEF Spec, OnlyExpiredDeleted

-----------------------------------------------------------------------------
\* What a result promises is gone.

\* The keys after those of a page are greater.
LEMMA LeastFirst ==
  ASSUME NEW S \in SUBSET Object, NEW n \in Nat,
         NEW o \in Least(S, n), NEW p \in S \ Least(S, n)
  PROVE  p.key > o.key
<1> DEFINE below(x) == {q \in S : q.key < x.key}
<1>1. IsFiniteSet(S)
  BY RetentionAssumption, FS_Subset
<1>2. Cardinality(below(o)) < n /\ ~(Cardinality(below(p)) < n)
  BY DEF Least
<1>3. o \in Object /\ p \in Object /\ o.key \in Nat /\ p.key \in Nat
  BY LeastWithin, ObjectTyped
<1>4. SUFFICES ASSUME p.key <= o.key PROVE FALSE
  BY <1>3
<1>5. below(p) \subseteq below(o)
  <2>1. \A q \in S : q.key \in Nat
    BY ObjectTyped
  <2> QED
    BY <1>3, <1>4, <2>1
<1>6. IsFiniteSet(below(o))
  BY <1>1, FS_Subset
<1>7. /\ Cardinality(below(p)) <= Cardinality(below(o))
      /\ Cardinality(below(p)) \in Nat /\ Cardinality(below(o)) \in Nat
  BY <1>5, <1>6, FS_Subset, FS_CardinalityType
<1> QED
  BY <1>2, <1>7

\* While an invocation works on an entry, no object that had expired when it
\* began slips through: the object is gone, or its year is still to be listed,
\* or its month is to be swept; and in the month being swept it is in the
\* batch or on a later page.
Hunted(l) ==
    /\ due[l] \subseteq written
    /\ pc[l] \in InEntry =>
          \A o \in due[l] : o.table = Entry(l).table /\ Before(o.month, cutoff[l])
    /\ pc[l] = "months" =>
          \A o \in due[l] \cap objects : o.month.year \in years[l] \/ o.month \in todo[l]
    /\ pc[l] = "sweep" => \A o \in due[l] \cap objects :
          /\ o.month \in todo[l]
          /\ Current(l, o.month) => o \in batch[l] \/ (more[l] /\ o.key > token[l])

Gone == /\ promised \subseteq written /\ PromisedGone
        /\ \A l \in Invocations : Hunted(l)

\* New objects are none that were ever written, so whatever others delete or
\* write disturbs no one's hunt.
LEMMA HuntedElsewhere ==
  ASSUME NEW q, Hunted(q), written \subseteq written', objects' \cap written \subseteq objects,
         pc'[q] = pc[q], entry'[q] = entry[q], cutoff'[q] = cutoff[q],
         years'[q] = years[q], todo'[q] = todo[q], token'[q] = token[q],
         more'[q] = more[q], batch'[q] = batch[q], due'[q] = due[q]
  PROVE  Hunted(q)'
  BY DEF Hunted, Entry, Current

\* Outside an entry there is nothing to hunt.
LEMMA HuntedOutside ==
  ASSUME NEW l, Hunted(l), pc'[l] \notin InEntry, due' = due, written \subseteq written'
  PROVE  Hunted(l)'
  BY DEF Hunted, InEntry

\* What is promised stays gone.
LEMMA PromisesKept ==
  ASSUME TypeOK, Gone, written \subseteq written', objects' \cap written \subseteq objects,
         promised' = promised
  PROVE  promised' \subseteq written' /\ PromisedGone'
  BY DEF Gone, PromisedGone

\* Listing the months of a year leaves no expired object of that year out.
LEMMA HuntMonths ==
  ASSUME TypeOK, TypeOK', Gone, NEW l \in Invocations, ListMonths(l)
  PROVE  Hunted(l)'
<1>1. /\ pc[l] = "months" /\ objects' = objects /\ written' = written
      /\ entry' = entry /\ cutoff' = cutoff /\ due' = due
      /\ token'[l] = 0 /\ more'[l] = TRUE
  BY DEF ListMonths, Rewind, TypeOK
<1>2. /\ due[l] \subseteq written
      /\ \A o \in due[l] : o.table = Entry(l).table /\ Before(o.month, cutoff[l])
      /\ \A o \in due[l] \cap objects : o.month.year \in years[l] \/ o.month \in todo[l]
  BY <1>1 DEF Gone, Hunted, InEntry
<1>3. \A o \in due'[l] : o.table = Entry(l)'.table /\ Before(o.month, cutoff'[l])
  BY <1>1, <1>2 DEF Entry
<1>4. CASE years[l] = {} /\ Goto(l, "sweep") /\ UNCHANGED <<years, todo>>
  <2>1. pc'[l] = "sweep" /\ todo' = todo
    BY <1>4 DEF Goto, TypeOK
  <2>2. \A o \in due[l] \cap objects : o.month \in todo[l] /\ o.key > 0
    BY <1>2, <1>4, ObjectTyped DEF TypeOK
  <2> QED
    BY <1>1, <1>2, <1>3, <2>1, <2>2 DEF Hunted
<1>5. CASE \E y \in years[l] : /\ years' = [years EXCEPT ![l] = @ \ {y}]
                               /\ todo' = [todo EXCEPT ![l] = @ \cup Found(l, y)]
                               /\ pc' = pc
  <2>1. PICK y \in years[l] : /\ years'[l] = years[l] \ {y}
                              /\ todo'[l] = todo[l] \cup Found(l, y)
                              /\ pc' = pc
    BY <1>5 DEF TypeOK
  <2>2. \A o \in due[l] \cap objects : o.month.year \in years'[l] \/ o.month \in todo'[l]
    <3> SUFFICES ASSUME NEW o \in due[l] \cap objects, o.month.year = y
                 PROVE  o.month \in Found(l, y)
      BY <1>2, <2>1
    <3>1. o \in Stored(l) /\ Before(o.month, cutoff[l])
      BY <1>2 DEF Stored
    <3> QED
      BY <3>1, FoundMonths
  <2> QED
    BY <1>1, <1>2, <1>3, <2>1, <2>2 DEF Hunted
<1> QED
  BY <1>4, <1>5, MonthsFound

\* A page passes no object of the swept month by.
LEMMA HuntPage ==
  ASSUME TypeOK, TypeOK', Gone, NEW l \in Invocations, Page(l)
  PROVE  Hunted(l)'
<1>1. /\ pc[l] = "sweep" /\ more[l] /\ pc' = pc /\ objects' = objects
      /\ written' = written /\ entry' = entry /\ cutoff' = cutoff /\ due' = due
      /\ todo' = todo
  BY DEF Page
<1>2. /\ due[l] \subseteq written
      /\ \A o \in due[l] : o.table = Entry(l).table /\ Before(o.month, cutoff[l])
      /\ \A o \in due[l] \cap objects :
           /\ o.month \in todo[l]
           /\ Current(l, o.month) => o \in batch[l] \/ o.key > token[l]
  BY <1>1 DEF Gone, Hunted, InEntry
<1> DEFINE rest(ym) == {o \in Stored(l) : o.month = ym /\ o.key > token[l]}
           page(ym) == Least(rest(ym), PageSize)
<1>3. PICK ym \in todo[l] :
        /\ Current(l, ym)
        /\ batch' = [batch EXCEPT ![l] = @ \cup page(ym)]
        /\ more' = [more EXCEPT ![l] = page(ym) # rest(ym)]
        /\ \/ page(ym) = {} /\ UNCHANGED token
           \/ \E o \in page(ym) : token' = [token EXCEPT ![l] = o.key]
  BY DEF Page
<1>4. rest(ym) \in SUBSET Object /\ page(ym) \subseteq rest(ym)
  BY LeastWithin DEF Stored, TypeOK
<1>5. ASSUME NEW o \in due[l] \cap objects, Current(l, o.month)
      PROVE  o \in batch'[l] \/ (more'[l] /\ o.key > token'[l])
  <2>1. o.month = ym
    BY <1>2, <1>3, <1>5, MonthOrder DEF Current, TypeOK
  <2>2. CASE o \in batch[l]
    BY <1>3, <2>2 DEF TypeOK
  <2>3. CASE o \notin batch[l]
    <3>1. o \in rest(ym) /\ o.key > token[l]
      BY <1>2, <1>5, <2>1, <2>3 DEF Stored
    <3>2. CASE o \in page(ym)
      BY <1>3, <3>2 DEF TypeOK
    <3>3. CASE o \notin page(ym)
      <4>1. \A p \in page(ym) : o.key > p.key
        BY <1>4, <3>1, <3>3, LeastFirst, RetentionAssumption
      <4>2. more'[l] = TRUE
        BY <1>3, <3>1, <3>3 DEF TypeOK
      <4> HIDE DEF page, rest
      <4>3. o.key > token'[l]
        BY <1>3, <3>1, <4>1 DEF TypeOK
      <4> QED
        BY <4>2, <4>3
    <3> QED
      BY <3>2, <3>3
  <2> QED
    BY <2>2, <2>3
<1> HIDE DEF page, rest
<1> QED
  BY <1>1, <1>2, <1>5 DEF Hunted, Entry, Current

\* Neither a batch nor the change to the next partition loses an object.
LEMMA HuntSweep ==
  ASSUME TypeOK, TypeOK', Gone, NEW l \in Invocations, DeleteBatch(l) \/ PartitionSwept(l)
  PROVE  Hunted(l)'
<1>1. /\ pc[l] = "sweep" /\ pc' = pc /\ objects' \subseteq objects
      /\ written' = written /\ entry' = entry /\ cutoff' = cutoff /\ due' = due
  BY DEF DeleteBatch, PartitionSwept
<1>2. /\ due[l] \subseteq written
      /\ \A o \in due[l] : o.table = Entry(l).table /\ Before(o.month, cutoff[l])
      /\ \A o \in due[l] \cap objects :
           /\ o.month \in todo[l]
           /\ Current(l, o.month) => o \in batch[l] \/ (more[l] /\ o.key > token[l])
  BY <1>1 DEF Gone, Hunted, InEntry
<1>3. \A o \in due'[l] : o.table = Entry(l)'.table /\ Before(o.month, cutoff'[l])
  BY <1>1, <1>2 DEF Entry
<1>4. CASE DeleteBatch(l)
  <2>1. /\ todo' = todo /\ more' = more /\ token' = token
        /\ \A o \in batch[l] : o \in batch'[l] \/ o \notin objects'
    BY <1>4 DEF DeleteBatch, TypeOK
  <2> QED
    BY <1>1, <1>2, <1>3, <2>1 DEF Hunted, Current
<1>5. CASE PartitionSwept(l)
  <2>1. /\ ~more[l] /\ batch[l] = {} /\ objects' = objects
        /\ more'[l] = TRUE /\ token'[l] = 0
    BY <1>5 DEF PartitionSwept, Rewind, TypeOK
  <2>2. PICK ym \in todo[l] : Current(l, ym) /\ todo'[l] = todo[l] \ {ym}
    BY <1>5 DEF PartitionSwept, TypeOK
  <2>3. \A o \in due[l] \cap objects : o.month \in todo'[l] /\ o.key > 0
    BY <1>2, <2>1, <2>2, ObjectTyped DEF TypeOK
  <2> QED
    BY <1>1, <1>2, <1>3, <2>1, <2>3 DEF Hunted
<1> QED
  BY <1>4, <1>5

\* The inductive invariant of the sweep.
LEMMA RetentionGone == Spec => []Gone
<1>1. Init => Gone
  BY DEF Init, Gone, PromisedGone, Hunted, InEntry
<1>2. TypeOK /\ TypeOK' /\ Gone /\ [Next]_vars => Gone'
  <2> SUFFICES ASSUME TypeOK, TypeOK', Gone, [Next]_vars PROVE Gone'
    OBVIOUS
  <2> USE DEF listing
  <2>1. \A q \in Invocations : Hunted(q)
    BY DEF Gone
  <2>2. CASE Put
    <3>1. written \subseteq written' /\ objects' \cap written \subseteq objects
      BY <2>2 DEF Put
    <3> QED
      BY <2>1, <2>2, <3>1, HuntedElsewhere, PromisesKept DEF Put, Gone
  <2>3. CASE Tick \/ UNCHANGED vars
    <3>1. /\ written' = written /\ objects' = objects /\ promised' = promised
          /\ UNCHANGED <<pc, entry, cutoff, years, todo, token, more, batch, due>>
      BY <2>3 DEF Tick, vars
    <3> QED
      BY <2>1, <3>1, HuntedElsewhere, PromisesKept DEF Gone
  <2>4. ASSUME NEW l \in Invocations,
               Invoke(l) \/ NextEntry(l) \/ DeleteBatchErrors(l) \/ Fail(l) \/ Kill(l)
        PROVE  Gone'
    <3>1. /\ pc'[l] \notin InEntry /\ objects' \subseteq objects
          /\ UNCHANGED <<written, promised, cutoff, years, todo, token, more, batch, due>>
      BY <2>4 DEF Invoke, NextEntry, DeleteBatchErrors, Fail, Kill, Record, Return, Goto,
                  InEntry, TypeOK
    <3>2. \A q \in Invocations \ {l} : pc'[q] = pc[q] /\ entry'[q] = entry[q]
      BY <2>4 DEF Invoke, NextEntry, DeleteBatchErrors, Fail, Kill, Record, Return, Goto,
                  TypeOK
    <3>3. \A q \in Invocations : Hunted(q)'
      BY <2>1, <3>1, <3>2, HuntedElsewhere, HuntedOutside
    <3> QED
      BY <3>1, <3>3, PromisesKept DEF Gone
  <2>5. ASSUME NEW l \in Invocations, TableSwept(l) PROVE Gone'
    <3>1. /\ pc[l] = "sweep" /\ todo[l] = {} /\ pc'[l] \notin InEntry
          /\ promised' = promised \cup due[l]
          /\ UNCHANGED <<objects, written, cutoff, years, todo, token, more, batch, due>>
      BY <2>5 DEF TableSwept, Record, Goto, InEntry, TypeOK
    <3>2. \A q \in Invocations \ {l} : pc'[q] = pc[q] /\ entry'[q] = entry[q]
      BY <2>5 DEF TableSwept, Record, Goto, TypeOK
    <3>3. \A q \in Invocations : Hunted(q)'
      BY <2>1, <3>1, <3>2, HuntedElsewhere, HuntedOutside
    <3>4. due[l] \subseteq written /\ due[l] \cap objects = {}
      BY <2>1, <3>1 DEF Hunted
    <3> QED
      BY <3>1, <3>3, <3>4 DEF Gone, PromisedGone
  <2>6. ASSUME NEW l \in Invocations,
               ComputeRange(l) \/ ListYears(l) \/ ListMonths(l) \/ Page(l)
                 \/ DeleteBatch(l) \/ PartitionSwept(l),
               Hunted(l)'
        PROVE  Gone'
    <3>1. written' = written /\ objects' \subseteq objects /\ promised' = promised
      BY <2>6 DEF ComputeRange, ListYears, ListMonths, Page, DeleteBatch, PartitionSwept
    <3>2. \A q \in Invocations \ {l} :
            /\ pc'[q] = pc[q] /\ entry'[q] = entry[q] /\ cutoff'[q] = cutoff[q]
            /\ years'[q] = years[q] /\ todo'[q] = todo[q] /\ token'[q] = token[q]
            /\ more'[q] = more[q] /\ batch'[q] = batch[q] /\ due'[q] = due[q]
      <4>1. CASE ComputeRange(l)
        BY <4>1 DEF ComputeRange, Goto, TypeOK
      <4>2. CASE ListYears(l)
        BY <4>2 DEF ListYears, Goto, TypeOK
      <4>3. CASE ListMonths(l)
        <5>1. \A q \in Invocations \ {l} :
                pc'[q] = pc[q] /\ years'[q] = years[q] /\ todo'[q] = todo[q]
          <6>1. CASE Goto(l, "sweep") /\ UNCHANGED <<years, todo>>
            BY <6>1 DEF Goto, TypeOK
          <6>2. ASSUME NEW y, years' = [years EXCEPT ![l] = @ \ {y}], pc' = pc,
                       todo' = [todo EXCEPT ![l] = @ \cup Found(l, y)]
                PROVE  \A q \in Invocations \ {l} :
                         pc'[q] = pc[q] /\ years'[q] = years[q] /\ todo'[q] = todo[q]
            BY <6>2 DEF TypeOK
          <6> QED
            BY <4>3, <6>1, <6>2, MonthsFound
        <5> QED
          BY <4>3, <5>1 DEF ListMonths, Rewind, TypeOK
      <4>4. CASE Page(l)
        <5>1. /\ \E b : batch' = [batch EXCEPT ![l] = b]
              /\ \E m : more' = [more EXCEPT ![l] = m]
              /\ token' = token \/ \E k : token' = [token EXCEPT ![l] = k]
          BY <4>4 DEF Page
        <5> QED
          BY <4>4, <5>1 DEF Page, TypeOK
      <4>5. CASE DeleteBatch(l)
        BY <4>5 DEF DeleteBatch, TypeOK
      <4>6. CASE PartitionSwept(l)
        BY <4>6 DEF PartitionSwept, Rewind, TypeOK
      <4> QED
        BY <2>6, <4>1, <4>2, <4>3, <4>4, <4>5, <4>6
    <3>3. \A q \in Invocations : Hunted(q)'
      BY <2>1, <2>6, <3>1, <3>2, HuntedElsewhere
    <3> QED
      BY <3>1, <3>3, PromisesKept DEF Gone
  <2>7. ASSUME NEW l \in Invocations, ComputeRange(l) PROVE Gone'
    <3>1. /\ pc'[l] = "years" /\ entry' = entry /\ written' = written
          /\ due'[l] = {o \in Stored(l) : Before(o.month, cutoff'[l])}
      BY <2>7 DEF ComputeRange, Goto, TypeOK
    <3>2. Hunted(l)'
      BY <3>1 DEF Hunted, Stored, Entry, TypeOK
    <3> QED
      BY <2>6, <2>7, <3>2
  <2>8. ASSUME NEW l \in Invocations, ListYears(l) PROVE Gone'
    <3>1. /\ pc[l] = "years" /\ pc'[l] = "months" /\ todo'[l] = {}
          /\ years'[l] = {o.month.year : o \in Stored(l)}
          /\ UNCHANGED <<objects, written, entry, cutoff, due>>
      BY <2>8 DEF ListYears, Goto, TypeOK
    <3>2. Hunted(l)
      BY <2>1
    <3>3. \A o \in due[l] \cap objects : o.month.year \in years'[l]
      BY <3>1, <3>2 DEF Hunted, InEntry, Stored
    <3>4. Hunted(l)'
      BY <3>1, <3>2, <3>3 DEF Hunted, InEntry, Entry
    <3> QED
      BY <2>6, <2>8, <3>4
  <2> QED
    BY <2>2, <2>3, <2>4, <2>5, <2>6, <2>7, <2>8, HuntMonths, HuntPage, HuntSweep
       DEF Next, Step
<1> QED
  BY <1>1, <1>2, RetentionWithin, PTL DEF Spec

\* Every object that a result without error promised to delete is gone, and
\* stays gone.
THEOREM RetentionPromisedGone == Spec => []PromisedGone
<1>1. Gone => PromisedGone
  BY DEF Gone
<1> QED
  BY <1>1, RetentionGone, PTL

-----------------------------------------------------------------------------
\* Every entry up to a malformed one is handled.

\* The loop has passed entry i of the event, which has its result.
Passed(l, i) == i \in handled[l] /\ Event[i].form # "malformed"

\* As long as an invocation runs, the entries before the current one have
\* their results; when it ends by itself, so have those that had to.
InTurn(l) ==
    /\ pc[l] # "idle" => \A i \in 1 .. Len(Event) : i < entry[l] => Passed(l, i)
    /\ pc[l] # "idle" => outcome[l] = "none"
    /\ outcome[l] \in {"returned", "raised"} =>
          \A i \in 1 .. Len(Event) :
              (\A j \in 1 .. i : Event[j].form # "malformed") => i \in handled[l]

\* An invocation that does not move keeps its results.
LEMMA InTurnElsewhere ==
  ASSUME NEW l, InTurn(l),
         UNCHANGED <<pc[l], entry[l], handled[l], outcome[l]>>
  PROVE  InTurn(l)'
  BY DEF InTurn, Passed

\* Positions in the event compare as numbers.
LEMMA Positions ==
  ASSUME TypeOK, NEW l \in Invocations
  PROVE  /\ entry[l] \in Nat /\ entry[l] >= 1 /\ entry[l] <= Len(Event) + 1
         /\ Len(Event) \in Nat
  BY EventLength DEF TypeOK

\* The loop records a result and moves on.
LEMMA RecordInTurn ==
  ASSUME TypeOK, NEW l \in Invocations, InTurn(l), pc[l] # "idle",
         entry[l] <= Len(Event), Entry(l).form # "malformed", Record(l)
  PROVE  InTurn(l)'
<1>1. /\ pc'[l] = "entry" /\ entry'[l] = entry[l] + 1
      /\ handled'[l] = handled[l] \cup {entry[l]} /\ outcome' = outcome
  BY DEF Record, Goto, TypeOK
<1>2. ASSUME NEW i \in 1 .. Len(Event), i < entry'[l] PROVE Passed(l, i)'
  <2>1. i < entry[l] \/ i = entry[l]
    BY <1>1, <1>2, Positions
  <2>2. CASE i < entry[l]
    BY <1>1, <2>2 DEF InTurn, Passed
  <2>3. CASE i = entry[l]
    BY <1>1, <2>3 DEF Passed, Entry
  <2> QED
    BY <2>1, <2>2, <2>3
<1>3. outcome'[l] = "none"
  BY <1>1 DEF InTurn
<1> QED
  BY <1>2, <1>3 DEF InTurn

\* The loop has come to its end, or to a malformed entry.
LEMMA ReturnInTurn ==
  ASSUME TypeOK, NEW l \in Invocations, InTurn(l), pc[l] # "idle",
         NEW how, Return(l, how),
         \/ how = "killed" \/ entry[l] > Len(Event)
         \/ entry[l] <= Len(Event) /\ Entry(l).form = "malformed"
  PROVE  InTurn(l)'
<1>1. /\ pc'[l] = "idle" /\ entry' = entry /\ handled' = handled /\ outcome'[l] = how
  BY DEF Return, Goto, TypeOK
<1>2. CASE how = "killed"
  BY <1>1, <1>2 DEF InTurn
<1>3. ASSUME NEW i \in 1 .. Len(Event), how # "killed",
             \A j \in 1 .. i : Event[j].form # "malformed"
      PROVE  i \in handled[l]
  <2>1. i < entry[l]
    <3>1. CASE entry[l] > Len(Event)
      BY <3>1, Positions
    <3>2. CASE entry[l] <= Len(Event) /\ Entry(l).form = "malformed"
      BY <1>3, <3>2, Positions DEF Entry
    <3> QED
      BY <1>3, <3>1, <3>2
  <2> QED
    BY <2>1 DEF InTurn, Passed
<1> QED
  BY <1>1, <1>2, <1>3 DEF InTurn

\* One step of one invocation.
LEMMA InTurnStep ==
  ASSUME TypeOK, Within, NEW l \in Invocations, InTurn(l),
         \/ Invoke(l) \/ Step(l) \/ DeleteBatchErrors(l) \/ Fail(l) \/ Kill(l)
  PROVE  InTurn(l)'
<1> USE DEF listing
<1>1. CASE Invoke(l)
  <2>1. entry'[l] = 1 /\ outcome'[l] = "none"
    BY <1>1 DEF Invoke, TypeOK
  <2> QED
    BY <2>1, EventLength DEF InTurn
<1>2. CASE NextEntry(l)
  <2>1. pc[l] = "entry"
    BY <1>2 DEF NextEntry
  <2>2. CASE entry[l] > Len(Event) /\ Return(l, "returned")
    BY <2>1, <2>2, ReturnInTurn
  <2>3. CASE /\ entry[l] <= Len(Event)
             /\ Entry(l).form = "malformed" /\ Return(l, "raised")
    BY <2>1, <2>3, ReturnInTurn
  <2>4. CASE /\ entry[l] <= Len(Event)
             /\ Entry(l).form = "bad policy" /\ Record(l)
    BY <2>1, <2>4, RecordInTurn
  <2> QED
    BY <1>2, <2>2, <2>3, <2>4 DEF NextEntry
<1>3. CASE ComputeRange(l) \/ ListYears(l) \/ ListMonths(l)
  <2>1. /\ pc[l] # "idle" /\ pc'[l] # "idle"
        /\ UNCHANGED <<entry, handled, outcome>>
    BY <1>3 DEF ComputeRange, ListYears, ListMonths, Goto, TypeOK
  <2> QED
    BY <2>1 DEF InTurn, Passed
<1>4. CASE Page(l) \/ DeleteBatch(l) \/ PartitionSwept(l)
  <2>1. UNCHANGED <<pc, entry, handled, outcome>>
    BY <1>4 DEF Page, DeleteBatch, PartitionSwept
  <2> QED
    BY <2>1, InTurnElsewhere
<1>5. CASE TableSwept(l) \/ DeleteBatchErrors(l) \/ Fail(l)
  <2>1. pc[l] \in InEntry /\ Record(l)
    BY <1>5 DEF TableSwept, DeleteBatchErrors, Fail, InEntry
  <2>2. pc[l] # "idle" /\ entry[l] <= Len(Event) /\ Entry(l).form # "malformed"
    BY <2>1, EventLength DEF Within, InEntry
  <2> QED
    BY <2>1, <2>2, RecordInTurn
<1>6. CASE Kill(l)
  BY <1>6, ReturnInTurn DEF Kill
<1> QED
  BY <1>1, <1>2, <1>3, <1>4, <1>5, <1>6 DEF Step

\* A step of one invocation does not move the others.
LEMMA StepElsewhere ==
  ASSUME TypeOK, NEW l \in Invocations, NEW k \in Invocations, k # l,
         \/ Invoke(l) \/ Step(l) \/ DeleteBatchErrors(l) \/ Fail(l) \/ Kill(l)
  PROVE  UNCHANGED <<pc[k], entry[k], handled[k], outcome[k]>>
<1>1. CASE Invoke(l) \/ NextEntry(l) \/ TableSwept(l)
  BY <1>1 DEF Invoke, NextEntry, TableSwept, Record, Return, Goto, TypeOK
<1>2. CASE DeleteBatchErrors(l) \/ Fail(l) \/ Kill(l)
  BY <1>2 DEF DeleteBatchErrors, Fail, Kill, Record, Return, Goto, TypeOK
<1>3. CASE ComputeRange(l) \/ ListYears(l) \/ ListMonths(l)
  BY <1>3 DEF ComputeRange, ListYears, ListMonths, Goto, TypeOK
<1>4. CASE Page(l) \/ DeleteBatch(l) \/ PartitionSwept(l)
  BY <1>4 DEF Page, DeleteBatch, PartitionSwept
<1> QED
  BY <1>1, <1>2, <1>3, <1>4 DEF Step

\* Whatever fails on the way, an invocation that ends by itself has handled
\* every entry before the first malformed one.
THEOREM RetentionEachEntryHandled == Spec => []EachEntryHandled
<1> DEFINE Ordered == \A l \in Invocations : InTurn(l)
<1>1. Init => Ordered
  BY DEF Init, InTurn
<1>2. TypeOK /\ Within /\ Ordered /\ [Next]_vars => Ordered'
  <2> SUFFICES ASSUME TypeOK, Within, Ordered, [Next]_vars, NEW k \in Invocations
               PROVE  InTurn(k)'
    OBVIOUS
  <2>1. ASSUME NEW l \in Invocations,
               \/ Invoke(l) \/ Step(l) \/ DeleteBatchErrors(l) \/ Fail(l) \/ Kill(l)
        PROVE  InTurn(k)'
    <3>1. CASE k = l
      BY <2>1, <3>1, InTurnStep
    <3>2. CASE k # l
      BY <2>1, <3>2, StepElsewhere, InTurnElsewhere
    <3> QED
      BY <3>1, <3>2
  <2>2. CASE Put \/ Tick \/ UNCHANGED vars
    <3>1. UNCHANGED <<pc, entry, handled, outcome>>
      BY <2>2 DEF Put, Tick, vars
    <3> QED
      BY <3>1, InTurnElsewhere
  <2> QED
    BY <2>1, <2>2 DEF Next
<1>3. Ordered => EachEntryHandled
  BY DEF InTurn, EachEntryHandled
<1> QED
  BY <1>1, <1>2, <1>3, RetentionWithin, PTL DEF Spec

-----------------------------------------------------------------------------
\* Every step of an invocation brings it nearer to its end.

\* The order of the natural numbers, as a relation.
Less == {pair \in Nat \X Nat : pair[1] < pair[2]}

\* It is well founded.
LEMMA LessWellFounded == IsWellFoundedOn(Less, Nat)
<1>1. Less = OpToRel(<, Nat)
  BY DEF Less, OpToRel
<1> QED
  BY <1>1, NatLessThanWellFounded

\* A page of a listing that is not exhausted is not empty.
LEMMA LeastSome ==
  ASSUME NEW S \in SUBSET Object, S # {}, NEW n \in Nat \ {0}
  PROVE  Least(S, n) # {}
<1> DEFINE keys == {o.key : o \in S}
<1>1. keys \subseteq Nat /\ keys # {}
  BY ObjectTyped
<1>2. PICK k \in keys : \A other \in keys : <<other, k>> \notin Less
  <2> HIDE DEF keys
  <2> QED
    BY <1>1, LessWellFounded, WFMin
<1>3. PICK o \in S : o.key = k
  OBVIOUS
<1>4. \A p \in S : ~(p.key < o.key)
  BY <1>1, <1>2, <1>3 DEF Less
<1>5. {p \in S : p.key < o.key} = {}
  BY <1>4
<1>6. Cardinality({p \in S : p.key < o.key}) = 0
  BY <1>5, FS_EmptySet
<1> QED
  BY <1>3, <1>6 DEF Least

\* A page moves the listing on, or ends it.
LEMMA PageDescends ==
  ASSUME TypeOK, NEW l \in Invocations, Page(l)
  PROVE  Descends(l)
<1> DEFINE rest(ym) == {o \in Stored(l) : o.month = ym /\ o.key > token[l]}
           page(ym) == Least(rest(ym), PageSize)
<1>1. /\ pc' = pc /\ entry' = entry /\ years' = years /\ todo' = todo /\ more[l]
  BY DEF Page
<1>2. PICK ym \in todo[l] :
        /\ batch' = [batch EXCEPT ![l] = @ \cup page(ym)]
        /\ more' = [more EXCEPT ![l] = page(ym) # rest(ym)]
        /\ \/ page(ym) = {} /\ UNCHANGED token
           \/ \E o \in page(ym) : token' = [token EXCEPT ![l] = o.key]
  BY DEF Page
<1>3. rest(ym) \in SUBSET Object /\ page(ym) \subseteq rest(ym)
  BY LeastWithin DEF Stored, TypeOK
<1>4. CASE page(ym) = {} /\ UNCHANGED token
  <2>1. rest(ym) = {}
    BY <1>3, <1>4, LeastSome, RetentionAssumption
  <2>2. more'[l] = FALSE
    BY <1>2, <1>4, <2>1 DEF TypeOK
  <2>3. Ahead(l)' = Ahead(l)
    BY <1>4 DEF Ahead
  <2> QED
    BY <1>1, <2>2, <2>3 DEF Descends
<1>5. ASSUME NEW o \in page(ym), token' = [token EXCEPT ![l] = o.key]
      PROVE  Descends(l)
  <2>1. o \in Object /\ o.key > token[l] /\ token'[l] = o.key
    BY <1>3, <1>5 DEF TypeOK
  <2>2. token[l] \in Nat /\ o.key \in Nat /\ \A p \in Object : p.key \in Nat
    BY <2>1, ObjectTyped DEF TypeOK
  <2>3. o \in Ahead(l) /\ ~(o.key > o.key)
    BY <2>1, <2>2 DEF Ahead
  <2>4. Ahead(l)' = {p \in Object : p.key > o.key}
    BY <2>1 DEF Ahead
  <2>5. Fewer(Ahead(l)', Ahead(l))
    BY <2>1, <2>2, <2>3, <2>4 DEF Fewer, Ahead
  <2> QED
    BY <1>1, <2>5 DEF Descends
<1> HIDE DEF page, rest
<1> QED
  BY <1>2, <1>4, <1>5

\* Listing the months of a year, deleting a batch and leaving a partition
\* each use something up.
LEMMA SweepDescends ==
  ASSUME TypeOK, NEW l \in Invocations,
         ListMonths(l) \/ DeleteBatch(l) \/ PartitionSwept(l)
  PROVE  Descends(l)
<1>1. entry' = entry
  BY DEF ListMonths, DeleteBatch, PartitionSwept
<1>2. CASE ListMonths(l)
  <2>1. pc[l] = "months"
    BY <1>2 DEF ListMonths
  <2>2. CASE Goto(l, "sweep")
    BY <1>1, <2>1, <2>2 DEF Goto, TypeOK, Descends
  <2>3. ASSUME NEW y \in years[l], years' = [years EXCEPT ![l] = @ \ {y}], pc' = pc
        PROVE  Descends(l)
    <3>1. years'[l] = years[l] \ {y}
      BY <2>3 DEF TypeOK
    <3>2. Fewer(years'[l], years[l])
      BY <3>1 DEF Fewer
    <3> QED
      BY <1>1, <2>3, <3>2 DEF Descends
  <2> QED
    BY <1>2, <2>2, <2>3 DEF ListMonths
<1>3. CASE DeleteBatch(l)
  <2> DEFINE full == Least(batch[l], BatchSize)
  <2>1. /\ pc' = pc /\ years' = years /\ todo' = todo /\ token' = token /\ more' = more
        /\ batch'[l] = batch[l] \ full
    BY <1>3 DEF DeleteBatch, TypeOK
  <2>2. batch[l] \in SUBSET Object
    BY DEF TypeOK
  <2>3. batch[l] # {}
    <3>1. Cardinality({}) = 0 /\ ~(0 >= BatchSize)
      BY FS_EmptySet, RetentionAssumption
    <3>2. Cardinality(batch[l]) >= BatchSize \/ batch[l] # {}
      BY <1>3 DEF DeleteBatch, Ready
    <3> QED
      BY <3>1, <3>2
  <2>4. full # {} /\ full \subseteq batch[l]
    BY <2>2, <2>3, LeastSome, LeastWithin, RetentionAssumption
  <2>5. Fewer(batch'[l], batch[l])
    BY <2>1, <2>4 DEF Fewer
  <2>6. Ahead(l)' = Ahead(l)
    BY <2>1 DEF Ahead
  <2> QED
    BY <1>1, <2>1, <2>5, <2>6 DEF Descends
<1>4. CASE PartitionSwept(l)
  <2>1. PICK ym \in todo[l] : todo' = [todo EXCEPT ![l] = @ \ {ym}]
    BY <1>4 DEF PartitionSwept
  <2>2. todo'[l] = todo[l] \ {ym}
    BY <2>1 DEF TypeOK
  <2>3. Fewer(todo'[l], todo[l])
    BY <2>1, <2>2 DEF Fewer
  <2>4. pc' = pc /\ years' = years
    BY <1>4 DEF PartitionSwept
  <2> QED
    BY <1>1, <2>3, <2>4 DEF Descends
<1> QED
  BY <1>2, <1>3, <1>4

\* What an invocation does.
Moves(l) == Step(l) \/ DeleteBatchErrors(l) \/ Fail(l) \/ Kill(l)

\* All of it brings the invocation nearer to its end.
LEMMA MovesDescend ==
  ASSUME TypeOK, NEW l \in Invocations, Moves(l)
  PROVE  Descends(l)
<1>1. CASE NextEntry(l) \/ TableSwept(l) \/ DeleteBatchErrors(l) \/ Fail(l) \/ Kill(l)
  <2>1. pc'[l] = "idle" \/ Record(l)
    BY <1>1 DEF NextEntry, TableSwept, DeleteBatchErrors, Fail, Kill, Return, Goto, TypeOK
  <2>2. ASSUME Record(l) PROVE entry'[l] > entry[l]
    <3>1. entry[l] \in Nat /\ entry'[l] = entry[l] + 1
      BY <2>2, EventLength DEF Record, TypeOK
    <3> QED
      BY <3>1
  <2> QED
    BY <2>1, <2>2 DEF Descends
<1>2. CASE ComputeRange(l) \/ ListYears(l)
  BY <1>2 DEF ComputeRange, ListYears, Goto, TypeOK, Descends
<1> QED
  BY <1>1, <1>2, PageDescends, SweepDescends DEF Moves, Step

\* No loop of an invocation starts over or waits, whatever fails and whatever
\* others write and delete.
THEOREM RetentionEachStepDescends == Spec => EachStepDescends
<1>1. TypeOK /\ [Next]_vars
      => [\A l \in Invocations :
            Step(l) \/ DeleteBatchErrors(l) \/ Fail(l) \/ Kill(l) => Descends(l)]_vars
  BY MovesDescend DEF Moves
<1> QED
  BY <1>1, RetentionTyped, PTL DEF Spec, EachStepDescends

-----------------------------------------------------------------------------
\* There is no end to getting nearer: the order is well founded.

\* The years and months that objects may have are finitely many.
ObjectYears == {o.month.year : o \in Object}
ObjectMonths == {o.month : o \in Object}

\* They are the image of a finite set.
LEMMA ObjectsFinite == IsFiniteSet(ObjectYears) /\ IsFiniteSet(ObjectMonths)
<1>1. IsFiniteSet(Object)
  BY RetentionAssumption
<1>2. [o \in Object |-> o.month.year] \in Surjection(Object, ObjectYears)
  BY DEF ObjectYears, Surjection
<1>3. [o \in Object |-> o.month] \in Surjection(Object, ObjectMonths)
  BY DEF ObjectMonths, Surjection
<1> QED
  BY <1>1, <1>2, <1>3, FS_Surjection

\* What is listed are years and months of objects.
Listed == \A l \in Invocations : years[l] \subseteq ObjectYears /\ todo[l] \subseteq ObjectMonths

\* A step keeps the listed years and months of an invocation, or removes
\* some, or finds those of stored objects.
LEMMA ListingSteps ==
  ASSUME TypeOK, Listed, NEW l \in Invocations,
         Invoke(l) \/ Step(l) \/ DeleteBatchErrors(l) \/ Fail(l) \/ Kill(l)
  PROVE  Listed'
<1> USE DEF listing
<1>1. CASE \/ Invoke(l) \/ NextEntry(l) \/ ComputeRange(l) \/ Page(l) \/ DeleteBatch(l)
           \/ TableSwept(l) \/ DeleteBatchErrors(l) \/ Fail(l) \/ Kill(l)
  <2>1. UNCHANGED <<years, todo>>
    BY <1>1 DEF Invoke, NextEntry, ComputeRange, Page, DeleteBatch, TableSwept,
       DeleteBatchErrors, Fail, Kill
  <2> QED
    BY <2>1 DEF Listed
<1>2. CASE ListYears(l)
  <2>1. {o.month.year : o \in Stored(l)} \subseteq ObjectYears
    BY DEF Stored, TypeOK, ObjectYears
  <2>2. /\ years' = [years EXCEPT ![l] = {o.month.year : o \in Stored(l)}]
        /\ todo' = [todo EXCEPT ![l] = {}]
    BY <1>2 DEF ListYears
  <2> QED
    BY <2>1, <2>2 DEF Listed, TypeOK
<1>3. CASE ListMonths(l)
  <2>1. ASSUME NEW y PROVE Found(l, y) \subseteq ObjectMonths
    <3> SUFFICES ASSUME NEW ym \in Found(l, y) PROVE ym \in ObjectMonths
      OBVIOUS
    <3>1. PICK o \in Stored(l) : o.month = ym
      BY FoundMonths
    <3>2. o \in Object
      BY DEF Stored, TypeOK
    <3> QED
      BY <3>1, <3>2 DEF ObjectMonths
  <2>2. CASE UNCHANGED <<years, todo>>
    BY <2>2 DEF Listed
  <2>3. ASSUME NEW y \in years[l], years' = [years EXCEPT ![l] = @ \ {y}],
               todo' = [todo EXCEPT ![l] = @ \cup Found(l, y)]
        PROVE  Listed'
    BY <2>1, <2>3 DEF Listed, TypeOK
  <2> QED
    BY <1>3, <2>2, <2>3, MonthsFound
<1>4. CASE PartitionSwept(l)
  <2>1. PICK ym \in todo[l] : todo' = [todo EXCEPT ![l] = @ \ {ym}]
    BY <1>4 DEF PartitionSwept
  <2>2. years' = years
    BY <1>4 DEF PartitionSwept
  <2> QED
    BY <2>1, <2>2 DEF Listed, TypeOK
<1> QED
  BY <1>1, <1>2, <1>3, <1>4 DEF Step

\* So what is listed is always finite.
LEMMA RetentionListed == Spec => []Listed
<1>1. Init => Listed
  BY DEF Init, Listed
<1>2. TypeOK /\ Listed /\ [Next]_vars => Listed'
  <2> SUFFICES ASSUME TypeOK, Listed, [Next]_vars PROVE Listed'
    OBVIOUS
  <2>1. CASE Put \/ Tick \/ UNCHANGED vars
    BY <2>1 DEF Put, Tick, vars, listing, Listed
  <2> QED
    BY <2>1, ListingSteps DEF Next
<1> QED
  BY <1>1, <1>2, RetentionTyped, PTL DEF Spec

\* What is left to do for an invocation, as seven numbers, the ones that
\* count most first.
PhasesLeft(phase) == CASE phase = "entry" -> 3 [] phase = "years" -> 2
                       [] phase = "months" -> 1 [] OTHER -> 0

Left(l) == [i \in 1 .. 7 |-> CASE i = 1 -> Len(Event) + 1 - entry[l]
                               [] i = 2 -> PhasesLeft(pc[l])
                               [] i = 3 -> Cardinality(years[l])
                               [] i = 4 -> Cardinality(todo[l])
                               [] i = 5 -> Cardinality(Ahead(l))
                               [] i = 6 -> IF more[l] THEN 1 ELSE 0
                               [] i = 7 -> Cardinality(batch[l])]

Measure == [1 .. 7 -> Nat]
Below == LexProductOrdering(Less, Nat, 7)

\* The steps of an invocation lower what is left for it, unless they end it;
\* the steps of others and of the world around it do not change it.
MeasureFalls ==
    [][\A l \in Invocations : pc[l] # "idle" /\ pc'[l] # "idle" =>
         IF Moves(l) THEN <<Left(l)', Left(l)>> \in Below ELSE Left(l)' = Left(l)]_vars

\* What is left is never lowered infinitely often: with MeasureFalls, an
\* invocation takes finitely many steps before it ends.
THEOREM RetentionDescentEnds == IsWellFoundedOn(Below, Measure)
  BY LessWellFounded, WFLexProductOrdering DEF Below, Measure

\* A proper part of a finite set is smaller.
LEMMA FewerIsLess ==
  ASSUME NEW S, NEW T, IsFiniteSet(T), Fewer(S, T)
  PROVE  <<Cardinality(S), Cardinality(T)>> \in Less
<1>1. /\ IsFiniteSet(S) /\ Cardinality(S) <= Cardinality(T)
      /\ Cardinality(T) # Cardinality(S)
  BY FS_Subset DEF Fewer
<1>2. Cardinality(S) \in Nat /\ Cardinality(T) \in Nat
  BY <1>1, FS_CardinalityType
<1> QED
  BY <1>1, <1>2 DEF Less

\* The sets that Left counts are finite.
LEMMA LeftFinite ==
  ASSUME TypeOK, Listed, NEW l \in Invocations
  PROVE  /\ IsFiniteSet(years[l]) /\ IsFiniteSet(todo[l])
         /\ IsFiniteSet(Ahead(l)) /\ IsFiniteSet(batch[l])
<1>1. Ahead(l) \in SUBSET Object /\ batch[l] \in SUBSET Object
  BY DEF TypeOK, Ahead
<1>2. years[l] \in SUBSET ObjectYears /\ todo[l] \in SUBSET ObjectMonths
  BY DEF Listed
<1> QED
  BY <1>1, <1>2, ObjectsFinite, FS_Subset, RetentionAssumption

\* What is left is seven natural numbers.
LEMMA LeftTyped ==
  ASSUME TypeOK, Listed, NEW l \in Invocations
  PROVE  Left(l) \in Measure
<1>1. Len(Event) + 1 - entry[l] \in Nat
  BY EventLength DEF TypeOK
<1>2. PhasesLeft(pc[l]) \in Nat
  BY DEF PhasesLeft
<1>3. /\ Cardinality(years[l]) \in Nat /\ Cardinality(todo[l]) \in Nat
      /\ Cardinality(Ahead(l)) \in Nat /\ Cardinality(batch[l]) \in Nat
  BY LeftFinite, FS_CardinalityType
<1> QED
  BY <1>1, <1>2, <1>3 DEF Left, Measure

\* Of seven numbers, the first that differs is less.
FirstLess(a, b) ==
    \E j \in 1 .. 7 : /\ \A i \in 1 .. 7 : i < j => a[i] = b[i]
                      /\ <<a[j], b[j]>> \in Less

\* It decides.
LEMMA BelowAt ==
  ASSUME NEW a \in Measure, NEW b \in Measure, FirstLess(a, b)
  PROVE  <<a, b>> \in Below
<1>1. PICK j \in 1 .. 7 : /\ \A i \in 1 .. 7 : i < j => a[i] = b[i]
                          /\ <<a[j], b[j]>> \in Less
  BY DEF FirstLess
<1>2. \A i \in 1 .. (j - 1) : a[i] = b[i]
  <2> SUFFICES ASSUME NEW i \in 1 .. (j - 1) PROVE a[i] = b[i]
    OBVIOUS
  <2>1. i \in 1 .. 7 /\ i < j
    OBVIOUS
  <2> QED
    BY <1>1, <2>1
<1> QED
  BY <1>1, <1>2 DEF Measure, Below, LexProductOrdering

\* Getting nearer to the end lowers what is left.
LEMMA DescentLowers ==
  ASSUME TypeOK, TypeOK', Listed, Listed', NEW l \in Invocations,
         Descends(l), pc[l] # "idle", pc'[l] # "idle"
  PROVE  <<Left(l)', Left(l)>> \in Below
<1>1. Left(l) \in Measure
  BY LeftTyped
<1>2. Left(l)' \in Measure
  <2>1. Len(Event) + 1 - entry'[l] \in Nat
    BY EventLength DEF TypeOK
  <2>2. PhasesLeft(pc'[l]) \in Nat
    BY DEF PhasesLeft
  <2>3. Ahead(l)' \in SUBSET Object /\ batch'[l] \in SUBSET Object
    BY DEF TypeOK, Ahead
  <2>4. years'[l] \in SUBSET ObjectYears /\ todo'[l] \in SUBSET ObjectMonths
    BY DEF Listed
  <2>5. /\ IsFiniteSet(years'[l]) /\ IsFiniteSet(todo'[l])
        /\ IsFiniteSet(Ahead(l)') /\ IsFiniteSet(batch'[l])
    BY <2>3, <2>4, ObjectsFinite, FS_Subset, RetentionAssumption
  <2>6. /\ Cardinality(years'[l]) \in Nat /\ Cardinality(todo'[l]) \in Nat
        /\ Cardinality(Ahead(l)') \in Nat /\ Cardinality(batch'[l]) \in Nat
    BY <2>5, FS_CardinalityType
  <2> QED
    BY <2>1, <2>2, <2>6 DEF Left, Measure
<1> DEFINE new == Left(l)'
           old == Left(l)
<1>3. /\ new[1] = Len(Event) + 1 - entry'[l] /\ old[1] = Len(Event) + 1 - entry[l]
      /\ new[2] = PhasesLeft(pc'[l]) /\ old[2] = PhasesLeft(pc[l])
      /\ new[3] = Cardinality(years'[l]) /\ old[3] = Cardinality(years[l])
      /\ new[4] = Cardinality(todo'[l]) /\ old[4] = Cardinality(todo[l])
      /\ new[5] = Cardinality(Ahead(l)') /\ old[5] = Cardinality(Ahead(l))
      /\ new[6] = (IF more'[l] THEN 1 ELSE 0) /\ old[6] = (IF more[l] THEN 1 ELSE 0)
      /\ new[7] = Cardinality(batch'[l]) /\ old[7] = Cardinality(batch[l])
  BY DEF Left
<1>4. /\ IsFiniteSet(years[l]) /\ IsFiniteSet(todo[l])
      /\ IsFiniteSet(Ahead(l)) /\ IsFiniteSet(batch[l])
  BY LeftFinite
<1>5. 1 .. 7 = {1, 2, 3, 4, 5, 6, 7}
  OBVIOUS
<1>6. ASSUME entry'[l] > entry[l] PROVE FirstLess(new, old)
  <2>1. <<new[1], old[1]>> \in Less
    <3>1. /\ Len(Event) \in Nat /\ entry[l] \in 1 .. Len(Event) + 1
          /\ entry'[l] \in 1 .. Len(Event) + 1
      BY EventLength DEF TypeOK
    <3>2. /\ Len(Event) + 1 - entry'[l] \in Nat /\ Len(Event) + 1 - entry[l] \in Nat
          /\ Len(Event) + 1 - entry'[l] < Len(Event) + 1 - entry[l]
      BY <1>6, <3>1
    <3> QED
      BY <1>3, <3>2 DEF Less
  <2>2. \A i \in 1 .. 7 : i < 1 => new[i] = old[i]
    BY <1>5
  <2> HIDE DEF new, old
  <2> QED
    BY <2>1, <2>2 DEF FirstLess
<1>7. ASSUME entry'[l] = entry[l],
             <<pc[l], pc'[l]>> \in
               {<<"entry", "years">>, <<"years", "months">>, <<"months", "sweep">>}
      PROVE  FirstLess(new, old)
  <2>1. <<new[2], old[2]>> \in Less
    BY <1>3, <1>7 DEF PhasesLeft, Less
  <2>2. \A i \in 1 .. 7 : i < 2 => new[i] = old[i]
    BY <1>3, <1>5, <1>7
  <2> HIDE DEF new, old
  <2> QED
    BY <2>1, <2>2 DEF FirstLess
<1>8. ASSUME entry'[l] = entry[l], pc'[l] = pc[l], Fewer(years'[l], years[l])
      PROVE  FirstLess(new, old)
  <2>1. <<new[3], old[3]>> \in Less
    BY <1>3, <1>4, <1>8, FewerIsLess
  <2>2. \A i \in 1 .. 7 : i < 3 => new[i] = old[i]
    BY <1>3, <1>5, <1>8
  <2> HIDE DEF new, old
  <2> QED
    BY <2>1, <2>2 DEF FirstLess
<1>9. ASSUME entry'[l] = entry[l], pc'[l] = pc[l], years'[l] = years[l],
             Fewer(todo'[l], todo[l])
      PROVE  FirstLess(new, old)
  <2>1. <<new[4], old[4]>> \in Less
    BY <1>3, <1>4, <1>9, FewerIsLess
  <2>2. \A i \in 1 .. 7 : i < 4 => new[i] = old[i]
    BY <1>3, <1>5, <1>9
  <2> HIDE DEF new, old
  <2> QED
    BY <2>1, <2>2 DEF FirstLess
<1>10. ASSUME entry'[l] = entry[l], pc'[l] = pc[l], years'[l] = years[l],
              todo'[l] = todo[l], Fewer(Ahead(l)', Ahead(l))
       PROVE  FirstLess(new, old)
  <2>1. <<new[5], old[5]>> \in Less
    BY <1>3, <1>4, <1>10, FewerIsLess
  <2>2. \A i \in 1 .. 7 : i < 5 => new[i] = old[i]
    BY <1>3, <1>5, <1>10
  <2> HIDE DEF new, old
  <2> QED
    BY <2>1, <2>2 DEF FirstLess
<1>11. ASSUME entry'[l] = entry[l], pc'[l] = pc[l], years'[l] = years[l],
              todo'[l] = todo[l], Ahead(l)' = Ahead(l), more[l], ~more'[l]
       PROVE  FirstLess(new, old)
  <2>1. <<new[6], old[6]>> \in Less
    BY <1>3, <1>11 DEF Less
  <2>2. \A i \in 1 .. 7 : i < 6 => new[i] = old[i]
    BY <1>3, <1>5, <1>11
  <2> HIDE DEF new, old
  <2> QED
    BY <2>1, <2>2 DEF FirstLess
<1>12. ASSUME entry'[l] = entry[l], pc'[l] = pc[l], years'[l] = years[l],
              todo'[l] = todo[l], Ahead(l)' = Ahead(l), more'[l] = more[l],
              Fewer(batch'[l], batch[l])
       PROVE  FirstLess(new, old)
  <2>1. <<new[7], old[7]>> \in Less
    BY <1>3, <1>4, <1>12, FewerIsLess
  <2>2. \A i \in 1 .. 7 : i < 7 => new[i] = old[i]
    BY <1>3, <1>5, <1>12
  <2> HIDE DEF new, old
  <2> QED
    BY <2>1, <2>2 DEF FirstLess
<1>13. FirstLess(new, old)
  BY <1>6, <1>7, <1>8, <1>9, <1>10, <1>11, <1>12 DEF Descends
<1> QED
  BY <1>1, <1>2, <1>13, BelowAt

\* The rest of a step's state: what an invocation has listed.
LEMMA ListingElsewhere ==
  ASSUME TypeOK, NEW l \in Invocations, NEW k \in Invocations, k # l,
         Invoke(l) \/ Moves(l)
  PROVE  UNCHANGED <<years[k], todo[k], token[k], more[k], batch[k]>>
<1> USE DEF listing
<1>1. CASE \/ Invoke(l) \/ NextEntry(l) \/ ComputeRange(l) \/ TableSwept(l)
           \/ DeleteBatchErrors(l) \/ Fail(l) \/ Kill(l)
  <2>1. UNCHANGED listing
    BY <1>1 DEF Invoke, NextEntry, ComputeRange, TableSwept, DeleteBatchErrors, Fail, Kill
  <2> QED
    BY <2>1
<1>2. CASE ListYears(l)
  BY <1>2 DEF ListYears, TypeOK
<1>3. CASE ListMonths(l)
  BY <1>3 DEF ListMonths, Rewind, TypeOK
<1>4. CASE Page(l)
  <2>1. /\ UNCHANGED <<years, todo>>
        /\ \E S : batch' = [batch EXCEPT ![l] = S]
        /\ \E b : more' = [more EXCEPT ![l] = b]
        /\ token' = token \/ \E n : token' = [token EXCEPT ![l] = n]
    BY <1>4 DEF Page
  <2> QED
    BY <2>1 DEF TypeOK
<1>5. CASE DeleteBatch(l)
  BY <1>5 DEF DeleteBatch, TypeOK
<1>6. CASE PartitionSwept(l)
  BY <1>6 DEF PartitionSwept, Rewind, TypeOK
<1> QED
  BY <1>1, <1>2, <1>3, <1>4, <1>5, <1>6 DEF Moves, Step

\* What is left for an invocation is only changed by its own steps.
LEMMA LeftKept ==
  ASSUME TypeOK, [Next]_vars, NEW l \in Invocations, pc[l] # "idle", ~Moves(l)
  PROVE  Left(l)' = Left(l)
<1>1. UNCHANGED <<pc[l], entry[l], years[l], todo[l], token[l], more[l], batch[l]>>
  <2>1. CASE Put \/ Tick \/ UNCHANGED vars
    BY <2>1 DEF Put, Tick, vars, listing
  <2>2. ASSUME NEW k \in Invocations, Invoke(k) \/ Moves(k)
        PROVE  UNCHANGED <<pc[l], entry[l], years[l], todo[l], token[l], more[l], batch[l]>>
    <3>1. k # l
      BY <2>2 DEF Invoke
    <3> QED
      BY <2>2, <3>1, StepElsewhere, ListingElsewhere DEF Moves
  <2> QED
    BY <2>1, <2>2 DEF Next, Moves
<1>2. Ahead(l)' = Ahead(l)
  BY <1>1 DEF Ahead
<1> QED
  BY <1>1, <1>2 DEF Left

\* With RetentionDescentEnds: an invocation takes finitely many steps, so it
\* ends unless it is left alone, whatever fails and whatever others do.
THEOREM RetentionMeasureFalls == Spec => MeasureFalls
<1>1. TypeOK /\ TypeOK' /\ Listed /\ Listed' /\ [Next]_vars
      => [\A l \in Invocations : pc[l] # "idle" /\ pc'[l] # "idle" =>
            IF Moves(l) THEN <<Left(l)', Left(l)>> \in Below
            ELSE Left(l)' = Left(l)]_vars
  BY MovesDescend, DescentLowers, LeftKept
<1> QED
  BY <1>1, RetentionTyped, RetentionListed, PTL DEF Spec, MeasureFalls
=============================================================================
