------------------------------- MODULE Monitor -------------------------------
(***************************************************************************)
(* The data-quality monitor (src/data/monitor/monitor.py), a daemon that   *)
(* polls job_control_runs while jobs write to it.  A poll opens a          *)
(* connection, alerts on the runs that failed within the alert window,     *)
(* checks that each job has succeeded recently, and sleeps.                *)
(*                                                                         *)
(* Time matters here, but only as distances: a timestamp is represented by *)
(* its age, which grows with every Tick and stays at Old once nothing in   *)
(* the code can tell it from an older one.  So time has no end and the     *)
(* state space is finite.  Three moments must be told apart: NOW() of an   *)
(* update or of a query is when its transaction began, an update becomes   *)
(* visible when it commits, and a query sees what is visible when it is    *)
(* executed.                                                               *)
(***************************************************************************)
EXTENDS Integers

CONSTANTS Runs,       \* the run ids
          NJobs,      \* the jobs, in the order of the code: ingest, ...
          JobOf,      \* job_control_runs.job_name
          Interval,   \* POLL_INTERVAL
          Window,     \* ALERT_WINDOW_MINUTES
          Freshness,  \* JOB_FRESHNESS_HOURS
          MaxLag,     \* bound: from NOW() to the commit of finish_run
          MaxDelay,   \* bound: from NOW() to the execution of a query
          Old,        \* ages from here on are not told apart
          MaxMishaps  \* bound: database errors and crashes of the monitor

Job == 1 .. NJobs

ASSUME MonitorAssumption ==
    /\ NJobs \in Nat \ {0} /\ JobOf \in [Runs -> Job]
    /\ Interval \in Nat \ {0} /\ Window \in Nat /\ Freshness \in Nat
    /\ MaxLag \in Nat /\ MaxDelay \in Nat /\ MaxMishaps \in Nat
    /\ Old \in Nat /\ Old > Window + MaxDelay
    /\ Old > Freshness /\ Old >= MaxLag

VARIABLES
    status,   \* job_control_runs.status
    age,      \* the age of job_control_runs.ended_at
    verdict,  \* the status a finish_run that has not committed will store
    stamp,    \* the age of its NOW()
    phase,    \* where the monitor is in poll_once()
    timer,    \* what is left of time.sleep(POLL_INTERVAL)
    began,    \* the age of the poll's transaction, its NOW()
    rows,     \* the failed runs that are fetched and not yet alerted
    job,      \* the job whose freshness is checked
    stale,    \* the last verdict of the freshness check about each job
    alerts,   \* history: how often a failed run was alerted
    polled,   \* history: the age of the last poll that alerted all its rows
    due,      \* history: the runs to which the poll still owes an alert
    risked,   \* history: the failed runs to which a poll that came too late
              \* did not owe one
    mishaps   \* how many database errors and crashes happened

table == <<status, age, verdict, stamp>>
poll == <<phase, timer, began, rows, job>>
history == <<alerts, polled, due, risked>>
vars == <<table, poll, stale, history, mishaps>>

Age == 0 .. Old
Phase == {"down", "connect", "failed", "alert", "fresh", "asleep"}

TypeOK ==
    /\ status \in [Runs -> {"none", "STARTED", "SUCCEEDED", "FAILED"}]
    /\ age \in [Runs -> Age]
    /\ verdict \in [Runs -> {"none", "SUCCEEDED", "FAILED"}]
    /\ stamp \in [Runs -> 0 .. MaxLag]
    /\ phase \in Phase
    /\ timer \in 0 .. Interval
    /\ began \in Age
    /\ rows \subseteq Runs
    /\ job \in Job
    /\ stale \in [Job -> BOOLEAN]
    /\ alerts \in [Runs -> Nat]
    /\ polled \in Age
    /\ due \subseteq Runs
    /\ risked \subseteq Runs
    /\ mishaps \in 0 .. MaxMishaps

Control == INSTANCE JobControl

Init ==
    /\ Control!Init
    /\ age = [r \in Runs |-> 0]
    /\ verdict = [r \in Runs |-> "none"] /\ stamp = [r \in Runs |-> 0]
    /\ phase = "down" /\ timer = 0 /\ began = 0 /\ rows = {}
    /\ job = 1
    /\ stale = [j \in Job |-> FALSE]
    /\ alerts = [r \in Runs |-> 0] /\ polled = 0
    /\ due = {} /\ risked = {}
    /\ mishaps = 0

-----------------------------------------------------------------------------
\* The jobs, as the monitor sees them.

StartRun(r) ==
    /\ Control!Start(r)
    /\ UNCHANGED <<age, verdict, stamp, poll, stale, history, mishaps>>

\* finish_run begins its update; a run that succeeded may still fail, when
\* its process raises after the update took effect.
FinishRun(r, v) ==
    /\ verdict[r] = "none"
    /\ status[r] = "STARTED" \/ (status[r] = "SUCCEEDED" /\ v = "FAILED")
    /\ verdict' = [verdict EXCEPT ![r] = v]
    /\ stamp' = [stamp EXCEPT ![r] = 0]
    /\ UNCHANGED <<status, age, poll, stale, history, mishaps>>

Settled(r) == /\ verdict' = [verdict EXCEPT ![r] = "none"]
              /\ stamp' = [stamp EXCEPT ![r] = 0]
              /\ UNCHANGED <<poll, stale, history, mishaps>>

Commit(r) ==
    /\ \/ verdict[r] = "SUCCEEDED" /\ Control!Succeed(r)
       \/ verdict[r] = "FAILED" /\ Control!Fail(r)
    /\ age' = [age EXCEPT ![r] = stamp[r]]
    /\ Settled(r)

\* The job is killed before its update commits.
Rollback(r) ==
    /\ verdict[r] # "none"
    /\ UNCHANGED <<status, age>>
    /\ Settled(r)

-----------------------------------------------------------------------------
\* The monitor.

\* The connection is closed, or left to the garbage collector, and main()
\* sleeps.
Sleep ==
    /\ phase' = "asleep" /\ timer' = Interval
    /\ began' = 0 /\ rows' = {} /\ job' = 1

WakeUp ==
    /\ phase = "asleep" /\ timer = 0
    /\ phase' = "connect"
    /\ UNCHANGED <<table, timer, began, rows, job, stale, history, mishaps>>

Failed == {r \in Runs : status[r] = "FAILED"}

Unalerted == {r \in Failed : alerts[r] = 0}

\* get_conn(), and BEGIN with the first statement.
Connect ==
    /\ phase = "connect"
    /\ phase' = "failed" /\ began' = 0
    /\ risked' = IF polled + MaxLag > Window THEN risked \cup Unalerted ELSE risked
    /\ due' = Unalerted \ risked'
    /\ UNCHANGED <<table, timer, rows, job, stale, alerts, polled, mishaps>>

\* Fault: ">" in the WHERE clause.
Recent_Strict(r) == age[r] - began < Window

\* ended_at >= NOW() - Window
Recent(r) == age[r] - began <= Window

FetchFailed ==
    /\ phase = "failed"
    /\ phase' = "alert"
    /\ rows' = {r \in Failed : Recent(r)}
    /\ UNCHANGED <<table, timer, began, job, stale, history, mishaps>>

\* Fault: an emitted row is not consumed.
Alert_NotConsumed(r) ==
    /\ phase = "alert"
    /\ \A q \in rows : age[r] <= age[q]
    /\ alerts' = [alerts EXCEPT ![r] = @ + 1] /\ due' = due \ {r}
    /\ UNCHANGED <<table, phase, timer, began, rows, job, stale, polled, risked, mishaps>>

\* The run that ended last comes first.
Alert(r) ==
    /\ phase = "alert"
    /\ \A q \in rows : age[r] <= age[q]
    /\ rows' = rows \ {r}
    /\ alerts' = [alerts EXCEPT ![r] = @ + 1] /\ due' = due \ {r}
    /\ UNCHANGED <<table, phase, timer, began, job, stale, polled, risked, mishaps>>

AllAlerted ==
    /\ phase = "alert" /\ rows = {}
    /\ phase' = "fresh"
    /\ polled' = began
    /\ UNCHANGED <<table, timer, began, rows, job, stale, alerts, due, risked, mishaps>>

Succeeded(j) == {r \in Runs : JobOf[r] = j /\ status[r] = "SUCCEEDED"}

Fresh(j) == \E r \in Succeeded(j) : age[r] <= Freshness

\* Fault: a job that has never succeeded is passed over.
CheckFreshness_NoneIsFresh ==
    /\ phase = "fresh"
    /\ stale' = [stale EXCEPT ![job] = Succeeded(job) # {} /\ ~Fresh(job)]
    /\ IF job = NJobs
       THEN Sleep /\ due' = {}
       ELSE job' = job + 1 /\ UNCHANGED <<phase, timer, began, rows, due>>
    /\ UNCHANGED <<table, alerts, polled, risked, mishaps>>

\* Fault: the loop over the jobs runs one too far.
CheckFreshness_Overrun ==
    /\ phase = "fresh"
    /\ stale' = [stale EXCEPT ![job] = ~Fresh(job)]
    /\ IF job > NJobs
       THEN Sleep /\ due' = {}
       ELSE job' = job + 1 /\ UNCHANGED <<phase, timer, began, rows, due>>
    /\ UNCHANGED <<table, alerts, polled, risked, mishaps>>

\* The maximum of ended_at over the successful runs of the next job, if
\* there are any, is compared with the clock; main() sleeps after the last.
CheckFreshness ==
    /\ phase = "fresh"
    /\ stale' = [stale EXCEPT ![job] = ~Fresh(job)]
    /\ IF job = NJobs
       THEN Sleep /\ due' = {}
       ELSE job' = job + 1 /\ UNCHANGED <<phase, timer, began, rows, due>>
    /\ UNCHANGED <<table, alerts, polled, risked, mishaps>>

MonitorStep ==
    \/ WakeUp \/ Connect \/ FetchFailed \/ (\E r \in rows : Alert(r))
    \/ AllAlerted \/ CheckFreshness

Mishap == mishaps < MaxMishaps /\ mishaps' = mishaps + 1

\* OperationalError, of the connection or of a query: retried next poll.
DatabaseError ==
    /\ phase \in {"connect", "failed", "fresh"}
    /\ Mishap
    /\ Sleep /\ due' = {}
    /\ UNCHANGED <<table, stale, alerts, polled, risked>>

\* Any other exception, and every stop of the container.
Crash ==
    /\ phase # "down"
    /\ Mishap
    /\ phase' = "down" /\ timer' = 0
    /\ began' = 0 /\ rows' = {} /\ job' = 1 /\ due' = {}
    /\ UNCHANGED <<table, stale, alerts, polled, risked>>

\* "restart: unless-stopped"; main() polls before it sleeps.
Restart ==
    /\ phase = "down"
    /\ phase' = "connect"
    /\ UNCHANGED <<table, timer, began, rows, job, stale, history, mishaps>>

-----------------------------------------------------------------------------
\* Time.

Older(a) == IF a = Old THEN Old ELSE a + 1

\* The ages of what is there grow; a sleep comes to its end.
Tick ==
    /\ phase = "failed" => began < MaxDelay
    /\ \A r \in Runs : verdict[r] # "none" => stamp[r] < MaxLag
    /\ age' = [r \in Runs |-> IF status[r] \in {"SUCCEEDED", "FAILED"}
                              THEN Older(age[r]) ELSE 0]
    /\ stamp' = [r \in Runs |-> IF verdict[r] # "none" THEN stamp[r] + 1 ELSE 0]
    /\ timer' = IF timer = 0 THEN 0 ELSE timer - 1
    /\ began' = IF phase \in {"failed", "alert"} THEN Older(began) ELSE 0
    /\ polled' = Older(polled)
    /\ UNCHANGED <<status, verdict, phase, rows, job, stale, alerts, due, risked, mishaps>>

Next ==
    \/ \E r \in Runs : StartRun(r) \/ Commit(r) \/ Rollback(r)
    \/ \E r \in Runs, v \in {"SUCCEEDED", "FAILED"} : FinishRun(r, v)
    \/ MonitorStep \/ DatabaseError \/ Crash \/ Restart
    \/ Tick

Spec == Init /\ [][Next]_vars

\* Time passes, the monitor executes its loop, its container is restarted,
\* and the database decides every update.  Nothing is assumed of the jobs:
\* a run may be killed and stay STARTED.
FairSpec ==
    /\ Spec
    /\ WF_vars(Tick) /\ WF_vars(MonitorStep) /\ WF_vars(Restart)
    /\ \A r \in Runs : WF_vars(Commit(r) \/ Rollback(r))

-----------------------------------------------------------------------------
\* Properties.

\* When a poll has gone through its rows, every run that had failed before
\* the poll began has been alerted, by this poll or by an earlier one, also
\* when polls failed or were cut short by a crash.  The exceptions are the
\* runs that had failed when a poll began more than the window, less the
\* commit lag, after the last complete one.
NoFailureMissed == phase = "fresh" => due = {}

\* A failed run is repeated by every poll of its window, and no more: once
\* more after every crash at worst.
AlertsBounded == \A r \in Runs : alerts[r] <= Window \div Interval + 1 + mishaps

\* A job without a recent success is reported as stale in the end, or
\* succeeds again: so runs that are killed and stay STARTED, which the first
\* check never sees, do not go unnoticed.
StaleReported == \A j \in Job : ~Fresh(j) ~> stale[j] \/ Fresh(j)
=============================================================================
