--------------------------- MODULE Monitor_proofs ---------------------------
(***************************************************************************)
(* Proofs about the monitor: type correctness, that no failed run is       *)
(* missed as long as polls come in time, and that its alerts stop.         *)
(***************************************************************************)
EXTENDS Monitor, TLAPS

\* The unnamed parts of the assumption, for arithmetic.
LEMMA Numbers ==
    /\ NJobs \in Nat /\ NJobs >= 1 /\ Interval \in Nat /\ Window \in Nat
    /\ MaxLag \in Nat /\ MaxDelay \in Nat /\ MaxMishaps \in Nat /\ Old \in Nat
    /\ Old > Window + MaxDelay /\ Old >= MaxLag /\ Interval >= 1
BY MonitorAssumption

\* Ageing stays within the ages that are told apart.
LEMMA OlderTyped == ASSUME NEW a \in Age PROVE Older(a) \in Age
BY Numbers DEF Older, Age

\* Mishaps stay within their bound.
LEMMA MishapTyped == ASSUME TypeOK, Mishap PROVE mishaps' \in 0 .. MaxMishaps
BY Numbers DEF TypeOK, Mishap

\* Sleep puts the locals of the poll back to their initial values.
LEMMA SleepTyped ==
    ASSUME Sleep
    PROVE  /\ phase' \in Phase /\ timer' \in 0 .. Interval /\ began' \in Age
           /\ rows' \subseteq Runs /\ job' \in Job
BY Numbers DEF Sleep, Phase, Age, Job

\* The ages, the phases and the histories stay what they are declared to be.
THEOREM MonitorTyped == Spec => []TypeOK
<1>1. Init => TypeOK
  BY Numbers DEF Init, TypeOK, Control!Init, Age, Phase, Job
<1>2. TypeOK /\ [Next]_vars => TypeOK'
  <2> SUFFICES ASSUME TypeOK, [Next]_vars PROVE TypeOK'
    OBVIOUS
  <2>1. ASSUME NEW r \in Runs, StartRun(r) PROVE TypeOK'
    BY <2>1 DEF TypeOK, StartRun, Control!Start, poll, history
  <2>2. ASSUME NEW r \in Runs, NEW v \in {"SUCCEEDED", "FAILED"}, FinishRun(r, v)
        PROVE  TypeOK'
    BY <2>2, Numbers DEF TypeOK, FinishRun, poll, history
  <2>3. ASSUME NEW r \in Runs, Commit(r) PROVE TypeOK'
    <3>1. status' \in [Runs -> {"none", "STARTED", "SUCCEEDED", "FAILED"}]
      BY <2>3 DEF TypeOK, Commit, Control!Succeed, Control!Fail
    <3>2. stamp[r] \in Age
      BY Numbers DEF TypeOK, Age
    <3>3. age' \in [Runs -> Age]
      BY <2>3, <3>2 DEF TypeOK, Commit
    <3> QED
      BY <2>3, <3>1, <3>3, Numbers DEF TypeOK, Commit, Settled, poll, history
  <2>4. ASSUME NEW r \in Runs, Rollback(r) PROVE TypeOK'
    BY <2>4, Numbers DEF TypeOK, Rollback, Settled, poll, history
  <2>5. CASE WakeUp
    BY <2>5 DEF TypeOK, WakeUp, Phase, table, history
  <2>6. CASE Connect
    BY <2>6, Numbers DEF TypeOK, Connect, Unalerted, Failed, Phase, Age, table
  <2>7. CASE FetchFailed
    BY <2>7 DEF TypeOK, FetchFailed, Failed, Phase, table, history
  <2>8. ASSUME NEW r \in rows, Alert(r) PROVE TypeOK'
    <3>1. r \in Runs
      BY DEF TypeOK
    <3> QED
      BY <2>8, <3>1 DEF TypeOK, Alert, table
  <2>9. CASE AllAlerted
    BY <2>9 DEF TypeOK, AllAlerted, Phase, table
  <2>10. CASE CheckFreshness
    <3>1. stale' \in [Job -> BOOLEAN] /\ due' \subseteq Runs
      BY <2>10 DEF TypeOK, CheckFreshness
    <3>2. CASE job = NJobs
      BY <2>10, <3>1, <3>2, SleepTyped DEF TypeOK, CheckFreshness, table
    <3>3. CASE job # NJobs
      <4>1. job' \in Job
        BY <2>10, <3>3, Numbers DEF TypeOK, CheckFreshness, Job
      <4> QED
        BY <2>10, <3>1, <3>3, <4>1 DEF TypeOK, CheckFreshness, table
    <3> QED
      BY <3>2, <3>3
  <2>11. CASE DatabaseError
    BY <2>11, SleepTyped, MishapTyped DEF TypeOK, DatabaseError, table
  <2>12. CASE Crash
    <3>1. mishaps' \in 0 .. MaxMishaps
      BY <2>12, MishapTyped DEF Crash
    <3> QED
      BY <2>12, <3>1, Numbers DEF TypeOK, Crash, Phase, Age, Job, table
  <2>13. CASE Restart
    BY <2>13 DEF TypeOK, Restart, Phase, table, history
  <2>14. CASE Tick
    <3>1. age' \in [Runs -> Age] /\ polled' \in Age
      BY <2>14, OlderTyped, Numbers DEF TypeOK, Tick, Age
    <3>2. began' \in Age
      BY <2>14, OlderTyped, Numbers DEF TypeOK, Tick, Age
    <3>3. stamp' \in [Runs -> 0 .. MaxLag]
      BY <2>14, Numbers DEF TypeOK, Tick
    <3>4. timer' \in 0 .. Interval
      BY <2>14, Numbers DEF TypeOK, Tick
    <3> QED
      BY <2>14, <3>1, <3>2, <3>3, <3>4 DEF TypeOK, Tick
  <2>15. CASE UNCHANGED vars
    BY <2>15 DEF TypeOK, vars, table, poll, history
  <2> QED
    BY <2>1, <2>2, <2>3, <2>4, <2>5, <2>6, <2>7, <2>8, <2>9, <2>10, <2>11, <2>12,
       <2>13, <2>14, <2>15 DEF Next, MonitorStep
<1> QED
  BY <1>1, <1>2, PTL DEF Spec

-----------------------------------------------------------------------------
(***************************************************************************)
(* No failed run is missed.  The argument: a run that the last complete    *)
(* poll did not see was committed after that poll began, so its ended_at   *)
(* is at most MaxLag older than the poll.  When the next poll begins in    *)
(* time, the run is still within the window of that poll's NOW(); the time *)
(* from NOW() to the query does not matter, since both ages grow.          *)
(***************************************************************************)

\* The run ended at most MaxLag before the moment of age a.
Close(r, a) == a = Old \/ age[r] <= a + MaxLag

Watched == Unalerted \ risked

UnseenIsClose == \A r \in Watched : Close(r, polled)
NewIsClose == phase \in {"failed", "alert"} => \A r \in Watched \ due : Close(r, began)
DueIsRecent == phase = "failed" => \A r \in due : r \in Failed /\ Recent(r)
DueIsFetched == phase = "alert" => due \subseteq rows
DueInPoll == phase \notin {"failed", "alert"} => due = {}

Promise == UnseenIsClose /\ NewIsClose /\ DueIsRecent /\ DueIsFetched /\ DueInPoll

\* A run and a poll that are close stay close when both grow older.
LEMMA OlderCloseness ==
    ASSUME TypeOK, NEW r \in Runs, NEW a \in Age, Close(r, a),
           age'[r] \in Age, age'[r] <= age[r] + 1
    PROVE  Older(a) = Old \/ age'[r] <= Older(a) + MaxLag
<1>1. age[r] \in Age
  BY DEF TypeOK
<1> QED
  BY <1>1, Numbers DEF Close, Older, Age

\* A step that leaves the runs' statuses, ages and alerts alone.
LEMMA QuietPromise ==
    ASSUME Promise,
           UNCHANGED <<status, age, alerts>>, risked \subseteq risked',
           polled' = polled,
           \/ due' = {} /\ phase' \notin {"failed", "alert"}
           \/ UNCHANGED <<phase, began, rows, due>>
    PROVE  Promise'
<1>1. UnseenIsClose'
  BY DEF Promise, UnseenIsClose, Watched, Unalerted, Failed, Close
<1>2. CASE due' = {} /\ phase' \notin {"failed", "alert"}
  BY <1>1, <1>2 DEF Promise, NewIsClose, DueIsRecent, DueIsFetched, DueInPoll
<1>3. CASE UNCHANGED <<phase, began, rows, due>>
  <2>1. NewIsClose'
    BY <1>3 DEF Promise, NewIsClose, Watched, Unalerted, Failed, Close
  <2>2. DueIsRecent'
    BY <1>3 DEF Promise, DueIsRecent, Failed, Recent
  <2> QED
    BY <1>1, <1>3, <2>1, <2>2 DEF Promise, DueIsFetched, DueInPoll
<1> QED
  BY <1>2, <1>3

\* Every state keeps the promise.
THEOREM MonitorPromise == Spec => []Promise
<1>1. Init => Promise
  BY DEF Init, Control!Init, Promise, UnseenIsClose, NewIsClose, DueIsRecent,
         DueIsFetched, DueInPoll, Watched, Unalerted, Failed
<1>2. TypeOK /\ TypeOK' /\ Promise /\ [Next]_vars => Promise'
  <2> SUFFICES ASSUME TypeOK, TypeOK', Promise, [Next]_vars PROVE Promise'
    OBVIOUS
  <2>1. ASSUME NEW r \in Runs, StartRun(r) PROVE Promise'
    <3>1. Failed' = Failed
      BY <2>1 DEF StartRun, Control!Start, Failed, TypeOK
    <3> QED
      BY <2>1, <3>1 DEF StartRun, poll, history, Promise, UnseenIsClose, NewIsClose,
         DueIsRecent, DueIsFetched, DueInPoll, Watched, Unalerted, Close, Recent
  <2>2. ASSUME NEW r \in Runs, NEW v \in {"SUCCEEDED", "FAILED"}, FinishRun(r, v)
        PROVE  Promise'
    BY <2>2, QuietPromise DEF FinishRun, poll, history
  <2>3. ASSUME NEW r \in Runs, Commit(r) PROVE Promise'
    <3>1. \A q \in Runs : q # r => age'[q] = age[q] /\ (q \in Failed' <=> q \in Failed)
      BY <2>3 DEF TypeOK, Commit, Control!Succeed, Control!Fail, Failed
    <3>2. r \notin Failed
      BY <2>3 DEF Commit, Control!Succeed, Control!Fail, Failed
    <3>3. \A a \in Age : age'[r] <= a + MaxLag
      <4>1. age'[r] = stamp[r] /\ stamp[r] \in 0 .. MaxLag
        BY <2>3 DEF TypeOK, Commit
      <4> QED
        BY <4>1, Numbers DEF Age
    <3>4. /\ UNCHANGED <<phase, began, rows, alerts, polled, due, risked>>
          /\ polled \in Age /\ began \in Age
      BY <2>3 DEF Commit, Settled, poll, history, TypeOK
    <3>5. \A a \in Age : \A q \in Runs : Close(q, a) => (a = Old \/ age'[q] <= a + MaxLag)
      BY <3>1, <3>3 DEF Close
    <3>6. \A q \in Watched' : q \in Watched \/ q = r
      BY <3>1, <3>4 DEF Watched, Unalerted, Failed
    <3>7. UnseenIsClose'
      BY <3>3, <3>4, <3>5, <3>6 DEF Promise, UnseenIsClose, Close, Watched, Unalerted, Failed
    <3>8. NewIsClose'
      BY <3>3, <3>4, <3>5, <3>6 DEF Promise, NewIsClose, Close, Watched, Unalerted, Failed
    <3>9. DueIsRecent'
      <4> SUFFICES ASSUME phase' = "failed", NEW q \in due'
                   PROVE  q \in Failed' /\ Recent(q)'
        BY DEF DueIsRecent
      <4>1. q \in Failed /\ Recent(q)
        BY <3>4 DEF Promise, DueIsRecent
      <4>2. q \in Runs /\ q # r
        BY <3>2, <4>1 DEF Failed
      <4> QED
        BY <3>1, <3>4, <4>1, <4>2 DEF Recent
    <3> QED
      BY <3>4, <3>7, <3>8, <3>9 DEF Promise, DueIsFetched, DueInPoll
  <2>4. ASSUME NEW r \in Runs, Rollback(r) PROVE Promise'
    BY <2>4, QuietPromise DEF Rollback, Settled, poll, history
  <2>5. CASE WakeUp
    <3>1. due = {}
      BY <2>5 DEF WakeUp, Promise, DueInPoll
    <3> QED
      BY <2>5, <3>1, QuietPromise DEF WakeUp, table, history
  <2>6. CASE Connect
    <3>1. /\ UNCHANGED <<status, age, alerts, polled, rows>> /\ began' = 0 /\ phase' = "failed"
          /\ due' = Unalerted \ risked' /\ Watched' = due'
      BY <2>6 DEF Connect, table, Watched, Unalerted, Failed
    <3>2. due' \subseteq Watched
      BY <2>6 DEF Connect, Watched
    <3>3. UnseenIsClose'
      BY <3>1, <3>2 DEF Promise, UnseenIsClose, Close
    <3>4. ASSUME NEW r \in due' PROVE age[r] <= Window
      <4>1. polled + MaxLag <= Window
        BY <2>6, <3>1, <3>4, Numbers DEF Connect, TypeOK, Age
      <4>2. Close(r, polled) /\ polled \in Age /\ age[r] \in Age
        BY <3>2, <3>4 DEF Promise, UnseenIsClose, TypeOK, Watched, Unalerted, Failed
      <4> QED
        BY <4>1, <4>2, Numbers DEF Close, Age
    <3>5. DueIsRecent'
      <4> SUFFICES ASSUME NEW r \in due' PROVE r \in Failed' /\ Recent(r)'
        BY DEF DueIsRecent
      <4>1. r \in Failed /\ r \in Runs
        BY <3>2 DEF Watched, Unalerted, Failed
      <4>2. age'[r] - began' <= Window
        BY <3>1, <3>4, <4>1 DEF TypeOK, Age
      <4> QED
        BY <3>1, <4>1, <4>2 DEF Recent, Failed
    <3> QED
      BY <3>1, <3>3, <3>5 DEF Promise, NewIsClose, DueIsFetched, DueInPoll
  <2>7. CASE FetchFailed
    <3>1. due \subseteq rows'
      BY <2>7 DEF FetchFailed, Promise, DueIsRecent
    <3> QED
      BY <2>7, <3>1 DEF FetchFailed, table, history, Promise, UnseenIsClose, NewIsClose,
         DueIsRecent, DueIsFetched, DueInPoll, Watched, Unalerted, Failed, Close
  <2>8. ASSUME NEW r \in rows, Alert(r) PROVE Promise'
    <3>1. /\ UNCHANGED <<status, age, phase, began, polled, risked>>
          /\ phase = "alert" /\ rows' = rows \ {r} /\ due' = due \ {r}
          /\ r \in Runs /\ alerts' = [alerts EXCEPT ![r] = @ + 1]
      BY <2>8 DEF Alert, table, TypeOK
    <3>2. Watched' \subseteq Watched \ {r}
      BY <3>1 DEF Watched, Unalerted, Failed, TypeOK
    <3> QED
      BY <3>1, <3>2 DEF Promise, UnseenIsClose, NewIsClose, DueIsRecent, DueIsFetched,
         DueInPoll, Close
  <2>9. CASE AllAlerted
    <3>1. due = {} /\ phase = "alert" /\ phase' = "fresh"
      BY <2>9 DEF AllAlerted, Promise, DueIsFetched
    <3>2. UNCHANGED <<status, age, alerts, risked, due>> /\ polled' = began
      BY <2>9 DEF AllAlerted, table
    <3>3. UnseenIsClose'
      BY <3>1, <3>2 DEF Promise, NewIsClose, UnseenIsClose, Watched, Unalerted, Failed, Close
    <3> QED
      BY <3>1, <3>2, <3>3 DEF Promise, NewIsClose, DueIsRecent, DueIsFetched, DueInPoll
  <2>10. CASE CheckFreshness
    <3>1. due = {}
      BY <2>10 DEF CheckFreshness, Promise, DueInPoll
    <3> QED
      BY <2>10, <3>1, QuietPromise DEF CheckFreshness, Sleep, table
  <2>11. CASE DatabaseError
    BY <2>11, QuietPromise DEF DatabaseError, Sleep, table
  <2>12. CASE Crash
    BY <2>12, QuietPromise DEF Crash, table
  <2>13. CASE Restart
    <3>1. due = {}
      BY <2>13 DEF Restart, Promise, DueInPoll
    <3> QED
      BY <2>13, <3>1, QuietPromise DEF Restart, table, history
  <2>14. CASE Tick
    <3>1. /\ UNCHANGED <<status, phase, rows, alerts, due, risked>>
          /\ polled' = Older(polled) /\ polled \in Age /\ began \in Age
      BY <2>14 DEF Tick, TypeOK
    <3>2. \A r \in Runs : age'[r] \in Age /\ age[r] \in Age
      BY DEF TypeOK
    <3>3. \A r \in Runs : age'[r] <= age[r] + 1
      BY <2>14, <3>2, Numbers DEF Tick, Older, Age
    <3>4. Watched' = Watched /\ Watched \subseteq Runs /\ Failed' = Failed
      BY <3>1 DEF Watched, Unalerted, Failed
    <3>5. UnseenIsClose'
      BY <3>1, <3>2, <3>3, <3>4, OlderCloseness DEF Promise, UnseenIsClose, Close
    <3>6. NewIsClose'
      <4>1. phase \in {"failed", "alert"} => began' = Older(began)
        BY <2>14 DEF Tick
      <4> QED
        BY <3>1, <3>2, <3>3, <3>4, <4>1, OlderCloseness DEF Promise, NewIsClose, Close
    <3>7. DueIsRecent'
      <4> SUFFICES ASSUME phase = "failed", NEW r \in due PROVE r \in Failed /\ Recent(r)'
        BY <3>1, <3>4 DEF DueIsRecent
      <4>1. r \in Failed /\ r \in Runs /\ age[r] - began <= Window
        BY DEF Promise, DueIsRecent, Recent, Failed
      <4>2. began' = began + 1
        BY <2>14, <3>1, Numbers DEF Tick, Older, Age
      <4>3. age'[r] - began' <= Window
        BY <3>1, <3>2, <3>3, <4>1, <4>2, Numbers DEF Age
      <4> QED
        BY <4>1, <4>3 DEF Recent
    <3> QED
      BY <3>1, <3>5, <3>6, <3>7 DEF Promise, DueIsFetched, DueInPoll
  <2>15. CASE UNCHANGED vars
    BY <2>15, QuietPromise DEF vars, table, poll, history
  <2> QED
    BY <2>1, <2>2, <2>3, <2>4, <2>5, <2>6, <2>7, <2>8, <2>9, <2>10, <2>11, <2>12,
       <2>13, <2>14, <2>15 DEF Next, MonitorStep
<1> QED
  BY <1>1, <1>2, MonitorTyped, PTL DEF Spec

\* A poll that has gone through its rows owes no alert any more: every run
\* that had failed before it began has been alerted, unless it came too late.
THEOREM MonitorMissesNoFailure == Spec => []NoFailureMissed
<1>1. Promise => NoFailureMissed
  BY DEF Promise, DueInPoll, NoFailureMissed
<1> QED
  BY <1>1, MonitorPromise, PTL

-----------------------------------------------------------------------------
(***************************************************************************)
(* Alerts are bounded.  The argument: a run that was alerted n times, m of *)
(* them without the sleep that follows a poll, is (n - m) * Interval old   *)
(* when the next poll begins, and from Window on it is not fetched.  What  *)
(* is still missing of that age is Slack.                                  *)
(***************************************************************************)

\* Multiplication and the neighbours of a factor.
LEMMA MulNext ==
    ASSUME NEW x \in Int, NEW i \in Nat
    PROVE  /\ x * i \in Int /\ (x + 1) * i = x * i + i /\ (x - 1) * i = x * i - i
           /\ x <= 0 => x * i <= 0
OBVIOUS

\* A product of two numbers that are not negative is not negative.
LEMMA MulSigned == ASSUME NEW x \in Int, NEW i \in Nat, x >= 0 PROVE x * i >= 0
OBVIOUS

\* Multiplication distributes over a difference.
LEMMA MulMinus ==
    ASSUME NEW x \in Int, NEW y \in Int, NEW i \in Nat
    PROVE  (x - y) * i = x * i - y * i
OBVIOUS

\* The remainder of a division is less than the divisor.
LEMMA DivRemainder ==
    ASSUME NEW w \in Nat, NEW i \in Nat \ {0}
    PROVE  w \div i \in Int /\ w < (w \div i) * i + i /\ w \div i >= 0
OBVIOUS

\* The quotient is the largest factor that stays below the dividend.
LEMMA DivLargest ==
    ASSUME NEW w \in Nat, NEW i \in Nat \ {0}, NEW x \in Int, x * i <= w
    PROVE  x <= w \div i
<1> DEFINE d == w \div i
<1>1. d \in Int /\ w < d * i + i
  BY DivRemainder
<1>2. SUFFICES ASSUME x >= d + 1 PROVE FALSE
  BY <1>1
<1>3. (x - d - 1) * i >= 0
  BY <1>1, <1>2, MulSigned
<1>4. (x - d - 1) * i = x * i - d * i - i
  BY <1>1, MulMinus, MulNext
<1> HIDE DEF d
<1>5. x * i \in Int /\ d * i \in Int
  BY <1>1, MulNext
<1> QED
  BY <1>1, <1>3, <1>4, <1>5

Span(r) == (alerts[r] - mishaps) * Interval

Slack(r) == IF phase = "asleep" THEN timer
            ELSE IF phase = "failed" THEN 0 - began
            ELSE IF phase \in {"alert", "fresh"} /\ r \notin rows THEN Interval
            ELSE 0

OnlyFailedAlerted == \A r \in Runs : alerts[r] > 0 => status[r] = "FAILED"
AgedEnough(r) == alerts[r] > 0 => age[r] = Old \/ Span(r) <= age[r] + Slack(r)
FetchedInTime == phase = "alert" => \A r \in rows : status[r] = "FAILED" /\ Span(r) <= Window
QueryInTime == phase = "failed" => began <= MaxDelay

Spaced ==
    /\ OnlyFailedAlerted /\ (\A r \in Runs : AgedEnough(r))
    /\ FetchedInTime /\ QueryInTime /\ AlertsBounded

\* The span of a run is a number, and not positive before its first alert.
LEMMA SpanFacts ==
    ASSUME TypeOK, NEW r \in Runs
    PROVE  /\ Span(r) \in Int /\ alerts[r] \in Nat /\ mishaps \in Nat /\ age[r] \in Age
           /\ alerts[r] = 0 => Span(r) <= 0
<1>1. alerts[r] \in Nat /\ mishaps \in Nat /\ age[r] \in Age
  BY Numbers DEF TypeOK
<1>2. alerts[r] - mishaps \in Int /\ (alerts[r] = 0 => alerts[r] - mishaps <= 0)
  BY <1>1
<1> QED
  BY <1>1, <1>2, MulNext, Numbers DEF Span

\* The slack of a run is at most one interval.
LEMMA SlackFacts ==
    ASSUME TypeOK, NEW r \in Runs PROVE Slack(r) \in Int /\ Slack(r) <= Interval
BY Numbers DEF TypeOK, Slack, Age

\* A mishap takes one interval off every span.
LEMMA SpanMishap ==
    ASSUME TypeOK, NEW r \in Runs, Mishap, alerts' = alerts
    PROVE  Span(r)' = Span(r) - Interval
<1>1. alerts[r] - mishaps \in Int /\ alerts'[r] - mishaps' = (alerts[r] - mishaps) - 1
  BY SpanFacts DEF Mishap
<1> QED
  BY <1>1, MulNext, Numbers DEF Span

\* Steps that alert nothing, without a mishap, and after which no less time
\* is left.
LEMMA QuietSpacing ==
    ASSUME TypeOK, Spaced, UNCHANGED <<age, alerts, mishaps>>,
           \A r \in Runs : status[r] = "FAILED" => status'[r] = "FAILED",
           \A r \in Runs : Slack(r) <= Slack(r)' /\ Slack(r)' \in Int,
           FetchedInTime', QueryInTime'
    PROVE  Spaced'
<1>1. \A r \in Runs : Span(r)' = Span(r)
  BY DEF Span
<1>2. \A r \in Runs : AgedEnough(r)'
  BY <1>1, SpanFacts, SlackFacts DEF Spaced, AgedEnough, Age
<1>3. AlertsBounded' /\ OnlyFailedAlerted'
  BY DEF Spaced, AlertsBounded, OnlyFailedAlerted
<1> QED
  BY <1>2, <1>3 DEF Spaced

\* Steps of the jobs that begin or settle nothing the monitor can see.
LEMMA OutsideSpacing ==
    ASSUME TypeOK, Spaced, UNCHANGED <<age, poll, alerts, mishaps>>,
           \A r \in Runs : status[r] = "FAILED" => status'[r] = "FAILED"
    PROVE  Spaced'
<1>1. \A r \in Runs : Slack(r)' = Slack(r)
  BY DEF Slack, poll
<1>2. FetchedInTime' /\ QueryInTime'
  BY DEF Spaced, FetchedInTime, QueryInTime, Span, poll, TypeOK
<1> QED
  BY <1>1, <1>2, SlackFacts, QuietSpacing

\* Steps that end the poll with a mishap.
LEMMA MishapSpacing ==
    ASSUME TypeOK, TypeOK', Spaced, Mishap, UNCHANGED <<status, age, alerts>>,
           phase' \in {"asleep", "down"}, phase' = "asleep" => timer' = Interval
    PROVE  Spaced'
<1>1. ASSUME NEW r \in Runs PROVE AgedEnough(r)'
  <2>1. Slack(r)' >= 0 /\ Slack(r)' \in Int
    BY Numbers DEF Slack
  <2>2. Span(r)' = Span(r) - Interval
    BY SpanMishap
  <2> QED
    BY <2>1, <2>2, SpanFacts, SlackFacts, Numbers DEF Spaced, AgedEnough, Age
<1>2. AlertsBounded'
  <2>1. Window \div Interval \in Int
    BY DivRemainder, MonitorAssumption
  <2>2. mishaps' = mishaps + 1
    BY DEF Mishap
  <2> QED
    BY <2>1, <2>2, SpanFacts DEF Spaced, AlertsBounded
<1> QED
  BY <1>1, <1>2 DEF Spaced, OnlyFailedAlerted, FetchedInTime, QueryInTime

\* Alerts keep their distance.
THEOREM MonitorSpaced == Spec => []Spaced
<1>1. Init => Spaced
  <2> SUFFICES ASSUME Init PROVE Spaced
    OBVIOUS
  <2>1. \A r \in Runs : alerts[r] = 0
    BY DEF Init
  <2>2. mishaps = 0 /\ Window \div Interval \in Int /\ Window \div Interval >= 0
    BY DivRemainder, MonitorAssumption DEF Init
  <2>3. 0 <= Window \div Interval + 1 + 0
    BY <2>2
  <2>4. AlertsBounded
    BY <2>1, <2>2, <2>3 DEF AlertsBounded
  <2> QED
    BY <2>1, <2>4 DEF Init, Spaced, OnlyFailedAlerted, AgedEnough, FetchedInTime, QueryInTime
<1>2. TypeOK /\ TypeOK' /\ Spaced /\ [Next]_vars => Spaced'
  <2> SUFFICES ASSUME TypeOK, TypeOK', Spaced, [Next]_vars PROVE Spaced'
    OBVIOUS
  <2>1. ASSUME NEW r \in Runs, StartRun(r) PROVE Spaced'
    <3>1. \A q \in Runs : status[q] = "FAILED" => status'[q] = "FAILED"
      BY <2>1 DEF StartRun, Control!Start, TypeOK
    <3> QED
      BY <2>1, <3>1, OutsideSpacing DEF StartRun, history
  <2>2. ASSUME NEW r \in Runs, NEW v \in {"SUCCEEDED", "FAILED"}, FinishRun(r, v)
        PROVE  Spaced'
    BY <2>2, OutsideSpacing DEF FinishRun, history
  <2>3. ASSUME NEW r \in Runs, Commit(r) PROVE Spaced'
    <3>1. /\ status[r] # "FAILED" /\ UNCHANGED <<poll, alerts, mishaps>>
          /\ \A q \in Runs : q # r => age'[q] = age[q] /\ status'[q] = status[q]
      BY <2>3 DEF Commit, Control!Succeed, Control!Fail, Settled, history, TypeOK
    <3>2. alerts[r] = 0
      BY <3>1, SpanFacts DEF Spaced, OnlyFailedAlerted
    <3>3. \A q \in Runs : AgedEnough(q)'
      <4>1. ASSUME NEW q \in Runs, q # r PROVE AgedEnough(q)'
        <5>1. UNCHANGED <<phase, timer, began, rows, age[q], alerts[q], mishaps>>
          BY <3>1, <4>1 DEF poll
        <5>2. Slack(q)' = Slack(q) /\ Span(q)' = Span(q)
          BY <5>1 DEF Slack, Span
        <5> QED
          BY <5>1, <5>2 DEF Spaced, AgedEnough
      <4>2. AgedEnough(r)'
        BY <3>1, <3>2 DEF AgedEnough
      <4> QED
        BY <4>1, <4>2
    <3>4. FetchedInTime'
      <4> SUFFICES ASSUME phase = "alert", NEW q \in rows
                   PROVE  status'[q] = "FAILED" /\ Span(q)' <= Window
        BY <3>1 DEF FetchedInTime, poll
      <4>1. status[q] = "FAILED" /\ Span(q) <= Window /\ q \in Runs
        BY DEF Spaced, FetchedInTime, TypeOK
      <4> QED
        BY <3>1, <4>1 DEF Span
    <3>5. OnlyFailedAlerted'
      BY <3>1, <3>2 DEF Spaced, OnlyFailedAlerted
    <3>6. QueryInTime' /\ AlertsBounded'
      BY <3>1 DEF Spaced, QueryInTime, AlertsBounded, poll
    <3> QED
      BY <3>3, <3>4, <3>5, <3>6 DEF Spaced
  <2>4. ASSUME NEW r \in Runs, Rollback(r) PROVE Spaced'
    BY <2>4, OutsideSpacing DEF Rollback, Settled, history
  <2>5. CASE WakeUp
    <3>1. \A r \in Runs : Slack(r)' = 0 /\ Slack(r) = 0
      BY <2>5 DEF WakeUp, Slack
    <3>2. FetchedInTime' /\ QueryInTime'
      BY <2>5 DEF WakeUp, FetchedInTime, QueryInTime
    <3>3. UNCHANGED <<status, age, alerts, mishaps>>
      BY <2>5 DEF WakeUp, table, history
    <3> QED
      BY <3>1, <3>2, <3>3, QuietSpacing
  <2>6. CASE Connect
    <3>1. \A r \in Runs : Slack(r)' = 0 /\ Slack(r) = 0
      BY <2>6 DEF Connect, Slack
    <3>2. FetchedInTime' /\ QueryInTime'
      BY <2>6, Numbers DEF Connect, FetchedInTime, QueryInTime
    <3> QED
      BY <2>6, <3>1, <3>2, QuietSpacing DEF Connect, table
  <2>7. CASE FetchFailed
    <3>1. /\ UNCHANGED <<status, age, alerts, mishaps, began>>
          /\ phase = "failed" /\ phase' = "alert"
          /\ rows' = {r \in Failed : Recent(r)} /\ began \in Age /\ began <= MaxDelay
      BY <2>7 DEF FetchFailed, table, history, Spaced, QueryInTime, TypeOK
    <3>2. ASSUME NEW r \in Runs PROVE Slack(r) <= Slack(r)' /\ Slack(r)' \in Int
      BY <3>1, Numbers DEF Slack, Age
    <3>3. ASSUME NEW r \in rows' PROVE status'[r] = "FAILED" /\ Span(r)' <= Window
      <4>1. r \in Runs /\ status[r] = "FAILED" /\ age[r] - began <= Window
        BY <3>1 DEF Failed, Recent
      <4>2. Span(r)' = Span(r) /\ Slack(r) = 0 - began
        BY <3>1 DEF Span, Slack
      <4>3. age[r] # Old
        BY <3>1, <4>1, Numbers DEF Age
      <4>4. CASE alerts[r] = 0
        BY <3>1, <4>1, <4>2, <4>4, SpanFacts, Numbers
      <4>5. CASE alerts[r] > 0
        <5>1. Span(r) <= age[r] + (0 - began)
          BY <4>1, <4>2, <4>3, <4>5 DEF Spaced, AgedEnough
        <5> QED
          BY <3>1, <4>1, <4>2, <5>1, SpanFacts, Numbers DEF Age
      <4> QED
        BY <4>1, <4>4, <4>5, SpanFacts
    <3>4. FetchedInTime' /\ QueryInTime'
      BY <3>1, <3>3 DEF FetchedInTime, QueryInTime
    <3> QED
      BY <3>1, <3>2, <3>4, QuietSpacing
  <2>8. ASSUME NEW r \in rows, Alert(r) PROVE Spaced'
    <3>1. /\ UNCHANGED <<status, age, phase, mishaps>> /\ phase = "alert"
          /\ rows' = rows \ {r} /\ alerts' = [alerts EXCEPT ![r] = @ + 1]
          /\ r \in Runs /\ status[r] = "FAILED" /\ Span(r) <= Window
      BY <2>8 DEF Alert, table, TypeOK, Spaced, FetchedInTime
    <3>2. \A q \in Runs : q # r => alerts'[q] = alerts[q] /\ Span(q)' = Span(q)
                                   /\ Slack(q)' = Slack(q)
      BY <3>1 DEF TypeOK, Span, Slack
    <3>3. alerts'[r] = alerts[r] + 1
      BY <3>1 DEF TypeOK
    <3>4. Span(r)' = Span(r) + Interval
      <4>1. alerts[r] - mishaps \in Int
            /\ alerts'[r] - mishaps' = (alerts[r] - mishaps) + 1
        BY <3>1, <3>3, SpanFacts
      <4> QED
        BY <4>1, MulNext, Numbers DEF Span
    <3>5. AgedEnough(r)'
      <4>1. Slack(r)' = Interval /\ Slack(r) = 0
        BY <3>1 DEF Slack
      <4>2. age'[r] = Old \/ Span(r) <= age'[r]
        <5>1. CASE alerts[r] = 0
          BY <3>1, <5>1, SpanFacts DEF Age
        <5>2. CASE alerts[r] > 0
          BY <3>1, <4>1, <5>2, SpanFacts DEF Spaced, AgedEnough, Age
        <5> QED
          BY <3>1, <5>1, <5>2, SpanFacts
      <4> QED
        BY <3>1, <3>4, <4>1, <4>2, SpanFacts, Numbers DEF AgedEnough, Age
    <3>6. \A q \in Runs : q # r => AgedEnough(q)'
      BY <3>1, <3>2 DEF Spaced, AgedEnough
    <3>7. OnlyFailedAlerted'
      BY <3>1, <3>2 DEF Spaced, OnlyFailedAlerted
    <3>8. FetchedInTime'
      BY <3>1, <3>2 DEF Spaced, FetchedInTime, TypeOK
    <3>9. AlertsBounded'
      <4>1. alerts[r] - mishaps <= Window \div Interval
        BY <3>1, DivLargest, SpanFacts, MonitorAssumption DEF Span
      <4>2. Window \div Interval \in Int
        BY DivRemainder, MonitorAssumption
      <4>3. alerts'[r] <= Window \div Interval + 1 + mishaps'
        BY <3>1, <3>3, <4>1, <4>2, SpanFacts
      <4> QED
        BY <3>1, <3>2, <4>3 DEF Spaced, AlertsBounded
    <3> QED
      BY <3>1, <3>5, <3>6, <3>7, <3>8, <3>9 DEF Spaced, QueryInTime
  <2>9. CASE AllAlerted
    <3>1. \A r \in Runs : Slack(r)' = Slack(r)
      BY <2>9 DEF AllAlerted, Slack
    <3> QED
      BY <2>9, <3>1, SlackFacts, QuietSpacing
      DEF AllAlerted, table, FetchedInTime, QueryInTime
  <2>10. CASE CheckFreshness
    <3>1. UNCHANGED <<status, age, alerts, mishaps>>
          /\ (phase' \in {"fresh", "asleep"}) /\ phase = "fresh"
      BY <2>10 DEF CheckFreshness, Sleep, table
    <3>2. ASSUME NEW r \in Runs PROVE Slack(r) <= Slack(r)' /\ Slack(r)' \in Int
      <4>1. CASE Sleep
        <5>1. Slack(r)' = Interval
          BY <4>1 DEF Sleep, Slack
        <5> QED
          BY <5>1, SlackFacts, Numbers
      <4>2. CASE UNCHANGED <<phase, timer, began, rows>>
        <5>1. Slack(r)' = Slack(r)
          BY <4>2 DEF Slack
        <5> QED
          BY <5>1, SlackFacts
      <4> QED
        BY <2>10, <4>1, <4>2 DEF CheckFreshness
    <3> QED
      BY <3>1, <3>2, QuietSpacing DEF FetchedInTime, QueryInTime
  <2>11. CASE DatabaseError
    BY <2>11, MishapSpacing DEF DatabaseError, Sleep, table
  <2>12. CASE Crash
    BY <2>12, MishapSpacing DEF Crash, table
  <2>13. CASE Restart
    <3>1. \A r \in Runs : Slack(r)' = 0 /\ Slack(r) = 0
      BY <2>13 DEF Restart, Slack
    <3> QED
      BY <2>13, <3>1, QuietSpacing DEF Restart, table, history, FetchedInTime, QueryInTime
  <2>14. CASE Tick
    <3>1. UNCHANGED <<status, phase, rows, alerts, mishaps>>
      BY <2>14 DEF Tick
    <3>2. \A r \in Runs : Span(r)' = Span(r)
      BY <3>1 DEF Span
    <3>3. timer' \in Nat /\ timer \in Nat /\ began \in Age
          /\ timer' >= timer - 1 /\ (phase = "failed" => began' = began + 1)
          /\ (phase = "failed" => began' <= MaxDelay)
      BY <2>14, Numbers DEF Tick, Older, TypeOK, Age
    <3>4. ASSUME NEW r \in Runs PROVE AgedEnough(r)'
      <4> SUFFICES ASSUME alerts[r] > 0, age'[r] # Old PROVE Span(r) <= age'[r] + Slack(r)'
        BY <3>1, <3>2 DEF AgedEnough
      <4>1. age'[r] = Older(age[r]) /\ age[r] \in Age
        BY <2>14 DEF Tick, TypeOK, Spaced, OnlyFailedAlerted
      <4>2. age[r] # Old /\ age'[r] = age[r] + 1
        BY <4>1, Numbers DEF Older, Age
      <4>3. Slack(r)' >= Slack(r) - 1 /\ Slack(r)' \in Int
        BY <3>1, <3>3, Numbers DEF Slack, Age
      <4>4. Span(r) <= age[r] + Slack(r)
        BY <4>2 DEF Spaced, AgedEnough
      <4> QED
        BY <4>1, <4>2, <4>3, <4>4, SpanFacts, SlackFacts DEF Age
    <3>5. FetchedInTime' /\ QueryInTime' /\ OnlyFailedAlerted' /\ AlertsBounded'
      BY <3>1, <3>2, <3>3 DEF Spaced, FetchedInTime, QueryInTime, OnlyFailedAlerted,
         AlertsBounded, TypeOK
    <3> QED
      BY <3>4, <3>5 DEF Spaced
  <2>15. CASE UNCHANGED vars
    BY <2>15, OutsideSpacing DEF vars, table, history
  <2> QED
    BY <2>1, <2>2, <2>3, <2>4, <2>5, <2>6, <2>7, <2>8, <2>9, <2>10, <2>11, <2>12,
       <2>13, <2>14, <2>15 DEF Next, MonitorStep
<1> QED
  BY <1>1, <1>2, MonitorTyped, PTL DEF Spec

\* No failed run is alerted more often than polls fit into the window, plus
\* once, plus once for each mishap.
THEOREM MonitorAlertsBounded == Spec => []AlertsBounded
BY MonitorSpaced, PTL DEF Spaced

-----------------------------------------------------------------------------
\* The jobs that the monitor watches are the jobs that write the table.

\* The runs the monitor is checked against do what JobControl promises, and
\* nothing else: the ingest and the aggregate job are proved to do the same
\* (IngestImplementsJobControl, AggregateImplementsJobControl).  No step of
\* the monitor writes to job_control_runs.
THEOREM MonitorWatchesJobControl == Spec => Control!Spec
<1>1. Init => Control!Init
  BY DEF Init
<1>2. [Next]_vars => [Control!Next]_status
  <2> SUFFICES ASSUME [Next]_vars PROVE [Control!Next]_status
    OBVIOUS
  <2> USE DEF table, poll, history
  <2>1. ASSUME NEW r \in Runs, StartRun(r) \/ Commit(r) PROVE Control!Next
    BY <2>1 DEF StartRun, Commit, Control!Next
  <2>2. ASSUME NEW r \in Runs, Rollback(r) PROVE UNCHANGED status
    BY <2>2 DEF Rollback
  <2>3. ASSUME NEW r \in Runs, NEW v, FinishRun(r, v) PROVE UNCHANGED status
    BY <2>3 DEF FinishRun
  <2>4. CASE MonitorStep
    BY <2>4 DEF MonitorStep, WakeUp, Connect, FetchFailed, Alert, AllAlerted, CheckFreshness
  <2>5. CASE DatabaseError \/ Crash \/ Restart \/ Tick \/ UNCHANGED vars
    BY <2>5 DEF DatabaseError, Crash, Restart, Tick, vars
  <2> QED
    BY <2>1, <2>2, <2>3, <2>4, <2>5 DEF Next
<1> QED
  BY <1>1, <1>2, PTL DEF Spec, Control!Spec
=============================================================================
