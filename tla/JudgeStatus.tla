----------------------------- MODULE JudgeStatus -----------------------------
(***************************************************************************)
(* What GET /api/system/status says of the judge servers.  A server        *)
(* publishes the result of its startup self check and then a heartbeat     *)
(* every Interval, each time by an upsert of its row of judge_instances;   *)
(* the HTTP server adds up the rows whose heartbeat is not stale.          *)
(*                                                                         *)
(* Time is counted in ticks.  The heartbeat thread is not late: a tick     *)
(* does not pass over a heartbeat that is due.                             *)
(***************************************************************************)
EXTENDS Naturals, FiniteSets

CONSTANTS
    Instances,    \* the judge server processes, by instance_id
    WorkerCount,  \* JUDGE_WORKER_COUNT
    Interval,     \* JUDGE_HEARTBEAT_INTERVAL_MS
    StaleAfter,   \* JUDGE_HEARTBEAT_STALE_AFTER_MS
    Horizon       \* the last tick (bound)

VARIABLES
    now,        \* the clock of the database
    process,    \* where main of a server is, and when its next heartbeat is due
    busy,       \* busy_worker_count_ of a server
    row,        \* its row of judge_instances
    lastCheck   \* who published the last self check, and its result

judgeStatusVars == <<now, process, busy, row, lastCheck>>

NoRow == [exists |-> FALSE]
NoCheck == [status |-> "unknown", at |-> 0]
NotStarted == [state |-> "off", due |-> 0, endedAt |-> 0, published |-> FALSE]

Init ==
    /\ now = 0
    /\ process = [i \in Instances |-> NotStarted]
    /\ busy = [i \in Instances |-> 0]
    /\ row = [i \in Instances |-> NoRow]
    /\ lastCheck = NoCheck

IsUp(i) == process[i].state = "up"

-----------------------------------------------------------------------------
(* judge_runtime_status_reporter *)

\* Mutant of Upserted: ON CONFLICT DO NOTHING.
UpsertedOnce(i, check) ==
    IF row[i].exists THEN row[i]
    ELSE [exists |-> TRUE, beat |-> now,
          workers |-> WorkerCount, active |-> busy[i], check |-> check]

\* The row of server i after upsert_judge_instance_status; a heartbeat says
\* nothing of the self check (check is empty) and keeps what is there.
Upserted(i, check) ==
    [exists |-> TRUE, beat |-> now,
     workers |-> WorkerCount, active |-> busy[i],
     check |-> IF row[i].exists /\ check = {} THEN row[i].check ELSE check]

\* A self check that ended with `status` now.
CheckOf(status) == {[status |-> status, at |-> now]}

Up == [state |-> "up", due |-> now + Interval, endedAt |-> 0, published |-> TRUE]
Ended == [state |-> "ended", due |-> 0, endedAt |-> now, published |-> FALSE]

\* The sandbox works, the result is published and the threads start.
CheckPasses(i) ==
    /\ process[i] = NotStarted
    /\ row' = [row EXCEPT ![i] = Upserted(i, CheckOf("passed"))]
    /\ process' = [process EXCEPT ![i] = Up]
    /\ lastCheck' = [status |-> "passed", at |-> now]
    /\ UNCHANGED <<now, busy>>

\* The server reports that its check failed and does not start.
CheckFails(i) ==
    /\ process[i] = NotStarted
    /\ row' = [row EXCEPT ![i] = Upserted(i, CheckOf("failed"))]
    /\ process' = [process EXCEPT ![i] = Ended]
    /\ lastCheck' = [status |-> "failed", at |-> now]
    /\ UNCHANGED <<now, busy>>

\* The result cannot be published: the server does not start either.
PublishFails(i) ==
    /\ process[i] = NotStarted
    /\ process' = [process EXCEPT ![i] = Ended]
    /\ UNCHANGED <<now, busy, row, lastCheck>>

Heartbeat(i) ==
    /\ IsUp(i)
    /\ now >= process[i].due
    /\ row' = [row EXCEPT ![i] = Upserted(i, {})]
    /\ process' = [process EXCEPT ![i].due = now + Interval, ![i].published = TRUE]
    /\ UNCHANGED <<now, busy, lastCheck>>

\* publish_heartbeat returns an error, which is logged.
HeartbeatFails(i) ==
    /\ IsUp(i)
    /\ now >= process[i].due
    /\ process' = [process EXCEPT ![i].due = now + Interval, ![i].published = FALSE]
    /\ UNCHANGED <<now, busy, row, lastCheck>>

-----------------------------------------------------------------------------
(* The servers and the clock *)

\* A worker leases a submission, or gives up its busy_worker_guard.
ChangeBusy(i) ==
    /\ IsUp(i)
    /\ \E n \in 0..WorkerCount :
           /\ n \in {busy[i] + 1, busy[i] - 1}
           /\ busy' = [busy EXCEPT ![i] = n]
    /\ UNCHANGED <<now, process, row, lastCheck>>

Die(i) ==
    /\ IsUp(i)
    /\ process' = [process EXCEPT ![i] = Ended]
    /\ busy' = [busy EXCEPT ![i] = 0]
    /\ UNCHANGED <<now, row, lastCheck>>

Tick ==
    /\ now < Horizon
    /\ \A i \in Instances : IsUp(i) => process[i].due > now
    /\ now' = now + 1
    /\ UNCHANGED <<process, busy, row, lastCheck>>

Next ==
    \/ \E i \in Instances :
           \/ CheckPasses(i) \/ CheckFails(i) \/ PublishFails(i)
           \/ Heartbeat(i) \/ HeartbeatFails(i)
           \/ ChangeBusy(i) \/ Die(i)
    \/ Tick

Spec == Init /\ [][Next]_judgeStatusVars

-----------------------------------------------------------------------------
(* system_service::get_status, as a function of the table and the clock *)

\* The rows whose heartbeat is at most StaleAfter old.
LiveInstances == {i \in Instances : row[i].exists /\ row[i].beat + StaleAfter >= now}

\* The workers of the live servers, of each as many as its row counts: their
\* number is the SUM of the query.
Configured == UNION {{i} \X (1 .. row[i].workers) : i \in LiveInstances}
Active == UNION {{i} \X (1 .. row[i].active) : i \in LiveInstances}

ConfiguredWorkerCount == Cardinality(Configured)
ActiveWorkerCount == Cardinality(Active)

\* The checks of the rows that have a last_sandbox_self_check_at, dead or live.
Checks == UNION {row[i].check : i \in {j \in Instances : row[j].exists}}

\* The check that is reported: one of the latest.
LastCheck ==
    IF Checks = {} THEN {NoCheck}
    ELSE {c \in Checks : \A d \in Checks : d.at <= c.at}

-----------------------------------------------------------------------------
(* Properties *)

\* Of the workers that are reported as configured, no more than all are
\* reported as active.
ActiveWithinConfigured == ActiveWorkerCount <= ConfiguredWorkerCount

\* A server whose last heartbeat was published is reported as live, when
\* heartbeats are more frequent than they are stale.
LiveIsReported ==
    Interval <= StaleAfter
        => \A i \in Instances :
               IsUp(i) /\ process[i].published => i \in LiveInstances

\* A server that ended is not reported as live any more once StaleAfter has
\* passed, nor are its workers.
DeadIsForgotten ==
    \A i \in Instances :
        process[i].state = "ended" /\ now > process[i].endedAt + StaleAfter
            => i \notin LiveInstances

\* The self check that is reported is the last one that was published, whatever
\* heartbeats came after it.
LastCheckIsReported ==
    lastCheck \in LastCheck /\ \A c \in LastCheck : c.at = lastCheck.at
=============================================================================
