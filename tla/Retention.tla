----------------------------- MODULE Retention -----------------------------
(***************************************************************************)
(* The retention lambda (src/data/test_scripts/data_retention.py).  Each   *)
(* invocation walks through the entries of its event; for a valid entry it *)
(* computes the first month to keep, lists the year/month partitions of    *)
(* the table, and deletes every object of the earlier ones, page by page   *)
(* and batch by batch.                                                     *)
(*                                                                         *)
(* S3 has no snapshots: each listing and each delete_objects call is a     *)
(* step of its own, between which writers add objects, the month changes,  *)
(* and other invocations run (EventBridge may deliver an event twice).  A  *)
(* call may raise, delete_objects may report errors for some keys, and the *)
(* lambda may be killed by its timeout; the schedule invokes it again.     *)
(***************************************************************************)
EXTENDS Integers, Sequences, FiniteSets

CONSTANTS Invocations, \* the invocations that may be in progress at once
          Event,       \* the event: a sequence of entries
          Object,      \* the objects that writers may put
          FirstNow,    \* the month in which the behaviour starts
          MaxNow,      \* bound: the month at which the clock stops
          BatchSize,   \* DELETE_BATCH_SIZE
          PageSize,    \* the keys in a page of list_objects_v2
          MaxMishaps   \* bound: failed calls and kills in a behaviour

Month == [year : Int, month : 1 .. 12]

\* (year, month) tuples are compared lexicographically.
Before(a, b) == a.year < b.year \/ (a.year = b.year /\ a.month < b.month)

\* What is wrong with an entry: nothing; its policy, or its URI, so that
\* apply_retention raises at once; or its form, so that lambda_handler does.
Form == {"valid", "bad policy", "malformed"}

ASSUME RetentionAssumption ==
    /\ Event \in Seq([table : STRING, years : Nat \ {0}, start : {1, 4},
                      form : Form])
    /\ IsFiniteSet(Object)
    /\ \A o \in Object : /\ o.month \in Month /\ o.key \in Nat \ {0}
                         /\ o.table \in STRING
    /\ FirstNow \in Month /\ MaxNow \in Month
    /\ BatchSize \in Nat \ {0} /\ PageSize \in Nat \ {0} /\ MaxMishaps \in Nat

VARIABLES
    now,      \* the current month
    objects,  \* the objects in the bucket
    written,  \* the objects ever put; Spark never reuses a file name
    pc,       \* where the invocation is
    entry,    \* the position of the current entry in the event
    cutoff,   \* range_start of the current entry
    years,    \* the listed years whose months are still to be listed
    todo,     \* the expired partitions found and not yet swept
    token,    \* the last key of the last page of the current partition
    more,     \* FALSE: the last page of the current partition was read
    batch,    \* the listed keys not yet deleted
    handled,  \* the entries that have a result
    outcome,  \* how the last invocation ended
    due,      \* history: the expired objects present when listing began
    promised, \* history: the objects that some result promises are gone
    mishaps   \* how many calls failed and invocations were killed

listing == <<years, todo, token, more, batch>>
vars == <<now, objects, written, pc, entry, cutoff, listing, handled, outcome,
          due, promised, mishaps>>

Busy == {"entry", "years", "months", "sweep"}

TypeOK ==
    /\ now \in Month
    /\ objects \subseteq written /\ written \subseteq Object
    /\ pc \in [Invocations -> Busy \cup {"idle"}]
    /\ entry \in [Invocations -> 1 .. Len(Event) + 1]
    /\ cutoff \in [Invocations -> Month]
    /\ years \in [Invocations -> SUBSET Int]
    /\ todo \in [Invocations -> SUBSET Month]
    /\ token \in [Invocations -> Nat]
    /\ more \in [Invocations -> BOOLEAN]
    /\ batch \in [Invocations -> SUBSET Object]
    /\ handled \in [Invocations -> SUBSET (1 .. Len(Event))]
    /\ outcome \in [Invocations -> {"none", "returned", "raised", "killed"}]
    /\ due \in [Invocations -> SUBSET Object]
    /\ promised \subseteq Object
    /\ mishaps \in 0 .. MaxMishaps

Init ==
    /\ now = FirstNow
    /\ objects = {} /\ written = {}
    /\ pc = [l \in Invocations |-> "idle"]
    /\ entry = [l \in Invocations |-> 1]
    /\ cutoff = [l \in Invocations |-> FirstNow]
    /\ years = [l \in Invocations |-> {}] /\ todo = [l \in Invocations |-> {}]
    /\ token = [l \in Invocations |-> 0] /\ more = [l \in Invocations |-> TRUE]
    /\ batch = [l \in Invocations |-> {}]
    /\ handled = [l \in Invocations |-> {}]
    /\ outcome = [l \in Invocations |-> "none"]
    /\ due = [l \in Invocations |-> {}] /\ promised = {}
    /\ mishaps = 0

-----------------------------------------------------------------------------
\* The retention range.

\* The calendar or fiscal year that month ym belongs to.
PeriodYear(ym, start) == IF ym.month >= start THEN ym.year ELSE ym.year - 1

\* Fault: the current period counts as one of the retained years.
RangeStart_Short(ym, e) ==
    [year |-> PeriodYear(ym, e.start) - e.years + 1, month |-> e.start]

\* range_start: the first month that entry e keeps in month ym.
RangeStart(ym, e) ==
    [year |-> PeriodYear(ym, e.start) - e.years, month |-> e.start]

-----------------------------------------------------------------------------
\* One invocation.

Entry(l) == Event[entry[l]]
Goto(l, phase) == pc' = [pc EXCEPT ![l] = phase]
Stored(l) == {o \in objects : o.table = Entry(l).table}
Mishap == mishaps < MaxMishaps /\ mishaps' = mishaps + 1

Invoke(l) ==
    /\ pc[l] = "idle"
    /\ Goto(l, "entry")
    /\ entry' = [entry EXCEPT ![l] = 1]
    /\ handled' = [handled EXCEPT ![l] = {}]
    /\ outcome' = [outcome EXCEPT ![l] = "none"]
    /\ UNCHANGED <<now, objects, written, cutoff, listing, due, promised, mishaps>>

\* The invocation is over; its local variables are gone.
Return(l, how) ==
    /\ Goto(l, "idle")
    /\ outcome' = [outcome EXCEPT ![l] = how]
    /\ UNCHANGED <<entry, handled>>

\* Fault: a result moves the loop on twice.
Record_Skips(l) ==
    /\ Goto(l, "entry")
    /\ handled' = [handled EXCEPT ![l] = @ \cup {entry[l]}]
    /\ entry' = [entry EXCEPT ![l] = @ + 2]
    /\ UNCHANGED outcome

\* The current entry gets its result, and the loop goes on.
Record(l) ==
    /\ Goto(l, "entry")
    /\ handled' = [handled EXCEPT ![l] = @ \cup {entry[l]}]
    /\ entry' = [entry EXCEPT ![l] = @ + 1]
    /\ UNCHANGED outcome

\* The error of one table does not keep the others from being processed.
NextEntry(l) ==
    /\ pc[l] = "entry"
    /\ \/ entry[l] > Len(Event) /\ Return(l, "returned")
       \/ /\ entry[l] <= Len(Event)
          /\ \/ Entry(l).form = "malformed" /\ Return(l, "raised")
             \/ Entry(l).form = "bad policy" /\ Record(l)
    /\ UNCHANGED <<now, objects, written, cutoff, listing, due, promised, mishaps>>

\* Every entry reads the clock anew.
ComputeRange(l) ==
    /\ pc[l] = "entry" /\ entry[l] <= Len(Event)
    /\ Entry(l).form = "valid"
    /\ Goto(l, "years")
    /\ cutoff' = [cutoff EXCEPT ![l] = RangeStart(now, Entry(l))]
    /\ due' = [due EXCEPT ![l] = {o \in Stored(l) : Before(o.month, cutoff'[l])}]
    /\ UNCHANGED <<now, objects, written, entry, listing, handled, outcome,
                   promised, mishaps>>

ListYears(l) ==
    /\ pc[l] = "years"
    /\ Goto(l, "months")
    /\ years' = [years EXCEPT ![l] = {o.month.year : o \in Stored(l)}]
    /\ todo' = [todo EXCEPT ![l] = {}]
    /\ UNCHANGED <<now, objects, written, entry, cutoff, token, more, batch,
                   handled, outcome, due, promised, mishaps>>

\* Start at the head of a partition.
Rewind(l) == /\ token' = [token EXCEPT ![l] = 0]
             /\ more' = [more EXCEPT ![l] = TRUE]
             /\ batch' = [batch EXCEPT ![l] = {}]

\* The months of one listed year; of these, the ones to delete.
ListMonths(l) ==
    /\ pc[l] = "months"
    /\ IF years[l] = {}
       THEN Goto(l, "sweep") /\ UNCHANGED <<years, todo>>
       ELSE \E y \in years[l] :
              /\ \A other \in years[l] : y <= other
              /\ years' = [years EXCEPT ![l] = @ \ {y}]
              /\ todo' = [todo EXCEPT ![l] = @ \cup
                    {o.month : o \in {p \in Stored(l) :
                        p.month.year = y /\ Before(p.month, cutoff[l])}}]
              /\ UNCHANGED pc
    /\ Rewind(l)
    /\ UNCHANGED <<now, objects, written, entry, cutoff, handled, outcome, due,
                   promised, mishaps>>

\* The partitions are swept from the oldest to the latest.
Current(l, ym) == ym \in todo[l] /\ \A other \in todo[l] : ~Before(other, ym)

\* The n objects of S with the least keys, or all of them.
Least(S, n) == {o \in S : Cardinality({p \in S : p.key < o.key}) < n}

\* Fault: the next page is not asked for with the token of the last one.
Page_Again(l) ==
    /\ pc[l] = "sweep" /\ more[l] /\ Cardinality(batch[l]) < BatchSize
    /\ \E ym \in todo[l] :
          /\ Current(l, ym)
          /\ LET rest == {o \in Stored(l) : o.month = ym /\ o.key > token[l]}
                 page == Least(rest, PageSize)
             IN /\ batch' = [batch EXCEPT ![l] = @ \cup page]
                /\ more' = [more EXCEPT ![l] = page # rest]
    /\ UNCHANGED <<now, objects, written, pc, entry, cutoff, years, todo, token,
                   handled, outcome, due, promised, mishaps>>

Page(l) ==
    /\ pc[l] = "sweep" /\ more[l] /\ Cardinality(batch[l]) < BatchSize
    /\ \E ym \in todo[l] :
          /\ Current(l, ym)
          /\ LET rest == {o \in Stored(l) : o.month = ym /\ o.key > token[l]}
                 page == Least(rest, PageSize)
             IN /\ batch' = [batch EXCEPT ![l] = @ \cup page]
                /\ more' = [more EXCEPT ![l] = page # rest]
                /\ \/ page = {} /\ UNCHANGED token
                   \/ \E o \in page :
                         /\ \A p \in page : p.key <= o.key
                         /\ token' = [token EXCEPT ![l] = o.key]
    /\ UNCHANGED <<now, objects, written, pc, entry, cutoff, years, todo, handled,
                   outcome, due, promised, mishaps>>

\* A full batch, or after the last page what is left.
Ready(l) == Cardinality(batch[l]) >= BatchSize \/ (~more[l] /\ batch[l] # {})

DeleteBatch(l) ==
    /\ pc[l] = "sweep" /\ Ready(l)
    /\ LET full == Least(batch[l], BatchSize)
       IN /\ objects' = objects \ full
          /\ batch' = [batch EXCEPT ![l] = @ \ full]
    /\ UNCHANGED <<now, written, pc, entry, cutoff, years, todo, token, more,
                   handled, outcome, due, promised, mishaps>>

\* delete_objects reports an error for some keys: the others are gone, and
\* the rest of the table is left as it is.
DeleteBatchErrors(l) ==
    /\ pc[l] = "sweep" /\ Ready(l)
    /\ \E gone \in SUBSET Least(batch[l], BatchSize) :
          /\ gone # Least(batch[l], BatchSize)
          /\ objects' = objects \ gone
    /\ Record(l) /\ Mishap
    /\ UNCHANGED <<now, written, cutoff, listing, due, promised>>

\* Fault: the keys left after the last full batch are dropped.
PartitionSwept_Partial(l) ==
    /\ pc[l] = "sweep" /\ ~more[l] /\ Cardinality(batch[l]) < BatchSize
    /\ \E ym \in todo[l] : /\ Current(l, ym)
                           /\ todo' = [todo EXCEPT ![l] = @ \ {ym}]
    /\ Rewind(l)
    /\ UNCHANGED <<now, objects, written, pc, entry, cutoff, years, handled,
                   outcome, due, promised, mishaps>>

PartitionSwept(l) ==
    /\ pc[l] = "sweep" /\ ~more[l] /\ batch[l] = {}
    /\ \E ym \in todo[l] : /\ Current(l, ym)
                           /\ todo' = [todo EXCEPT ![l] = @ \ {ym}]
    /\ Rewind(l)
    /\ UNCHANGED <<now, objects, written, pc, entry, cutoff, years, handled,
                   outcome, due, promised, mishaps>>

\* No expired partition is left: the table gets a result without error.
TableSwept(l) ==
    /\ pc[l] = "sweep" /\ todo[l] = {}
    /\ Record(l)
    /\ promised' = promised \cup due[l]
    /\ UNCHANGED <<now, objects, written, cutoff, listing, due, mishaps>>

-----------------------------------------------------------------------------
\* What can go wrong, and the world around the lambda.

\* Fault: the error of a table is not caught.
Fail_Raises(l) ==
    /\ pc[l] \in {"years", "months", "sweep"}
    /\ Return(l, "raised") /\ Mishap
    /\ UNCHANGED <<now, objects, written, cutoff, listing, due, promised>>

\* A call to S3 raises inside apply_retention.
Fail(l) ==
    /\ pc[l] \in {"years", "months", "sweep"}
    /\ Record(l) /\ Mishap
    /\ UNCHANGED <<now, objects, written, cutoff, listing, due, promised>>

\* The lambda runs into its timeout.
Kill(l) ==
    /\ pc[l] # "idle"
    /\ Return(l, "killed") /\ Mishap
    /\ UNCHANGED <<now, objects, written, cutoff, listing, due, promised>>

\* A job writes a file, possibly into a partition that has expired.
Put == /\ \E o \in Object \ written : /\ objects' = objects \cup {o}
                                      /\ written' = written \cup {o}
       /\ UNCHANGED <<now, pc, entry, cutoff, listing, handled, outcome, due,
                      promised, mishaps>>

Tick == /\ Before(now, MaxNow)
        /\ now' = IF now.month = 12 THEN [year |-> now.year + 1, month |-> 1]
                  ELSE [now EXCEPT !.month = @ + 1]
        /\ UNCHANGED <<objects, written, pc, entry, cutoff, listing, handled,
                       outcome, due, promised, mishaps>>

Step(l) == \/ NextEntry(l) \/ ComputeRange(l) \/ ListYears(l) \/ ListMonths(l)
           \/ Page(l) \/ DeleteBatch(l) \/ PartitionSwept(l) \/ TableSwept(l)

Next == \/ \E l \in Invocations : Invoke(l) \/ Step(l)
        \/ \E l \in Invocations : DeleteBatchErrors(l) \/ Fail(l) \/ Kill(l)
        \/ Put \/ Tick

Spec == Init /\ [][Next]_vars

\* The lambda runtime keeps executing an invocation, and the EventBridge
\* rule keeps invoking.  Nothing is assumed of writers, clock or failures.
FairSpec == Spec /\ \A l \in Invocations : WF_vars(Step(l)) /\ WF_vars(Invoke(l))

-----------------------------------------------------------------------------
\* Properties.

\* The retention rule: the calendar or fiscal year that month ym belongs to
\* ended at least the retention period ago.
Expired(ym, e) ==
    LET over == [year |-> PeriodYear(ym, e.start) + 1 + e.years, month |-> e.start]
    IN ~Before(now, over)

\* An object is deleted only when the rule of some valid entry for its table
\* allows it now, however long ago the listing and the range were computed
\* and whichever invocations overlap.
OnlyExpiredDeleted ==
    [][\A o \in objects \ objects' : \E i \in 1 .. Len(Event) :
          /\ Event[i].form = "valid" /\ Event[i].table = o.table
          /\ Expired(o.month, Event[i])]_vars

\* A result without error is a promise: every object that had expired when
\* its table was listed is gone, across pages, batches and partitions.
PromisedGone == promised \cap objects = {}

\* When an invocation ends by itself, each entry up to the first malformed
\* one, which ends it, has a result: the failure of one table does not keep
\* the others waiting.
EachEntryHandled ==
    \A l \in Invocations : outcome[l] \in {"returned", "raised"} =>
        \A i \in 1 .. Len(Event) :
            (\A j \in 1 .. i : Event[j].form # "malformed") => i \in handled[l]

Fewer(S, T) == S \subseteq T /\ S # T

\* What is still ahead of the listing of a partition.
Ahead(l) == {o \in Object : o.key > token[l]}

\* The step ends the invocation, or moves it on to a later entry or phase; or
\* fewer years, partitions, keys ahead, pages or listed keys are left, what
\* comes first in this order being what counts.
Descends(l) ==
    \/ pc'[l] = "idle"
    \/ entry'[l] > entry[l]
    \/ /\ entry'[l] = entry[l]
       /\ \/ <<pc[l], pc'[l]>> \in
               {<<"entry", "years">>, <<"years", "months">>, <<"months", "sweep">>}
          \/ /\ pc'[l] = pc[l]
             /\ \/ Fewer(years'[l], years[l])
                \/ /\ years'[l] = years[l]
                   /\ \/ Fewer(todo'[l], todo[l])
                      \/ /\ todo'[l] = todo[l]
                         /\ \/ Fewer(Ahead(l)', Ahead(l))
                            \/ /\ Ahead(l)' = Ahead(l)
                               /\ \/ more[l] /\ ~more'[l]
                                  \/ more'[l] = more[l] /\ Fewer(batch'[l], batch[l])

\* Every step of an invocation brings it nearer to its end, in an order that
\* goes down only finitely often: no pagination starts over, whatever others
\* write and delete between the pages, and no loop waits for a failed call.
EachStepDescends ==
    [][\A l \in Invocations :
         Step(l) \/ DeleteBatchErrors(l) \/ Fail(l) \/ Kill(l) => Descends(l)]_vars

\* What has expired is deleted in the end, whatever calls failed and
\* whichever invocations were killed, by a later invocation.
ExpiredObjectsGo ==
    \A o \in Object : \A i \in 1 .. Len(Event) :
        (/\ o \in objects /\ o.table = Event[i].table
         /\ Event[i].form = "valid" /\ Expired(o.month, Event[i]))
            ~> o \notin objects
=============================================================================
