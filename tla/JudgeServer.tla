----------------------------- MODULE JudgeServer -----------------------------
(***************************************************************************)
(* What the threads of the judge servers share: the testcase snapshots     *)
(* (SnapshotCache), the sandbox directories and the wait for a child       *)
(* (Sandbox), the work and the notifications (JudgeWorkers), and what the  *)
(* system status says of it all (JudgeStatus).  These touch no variable of *)
(* each other: a behaviour of the servers is one of each of them.          *)
(***************************************************************************)
EXTENDS SnapshotCache

CONSTANTS
    Threads, Main, Dirs, NoDir, NoThread, TimeLimit, CallsFail,   \* of Sandbox
    Submissions,                                                  \* of JudgeWorkers
    Instances, WorkerCount, Interval, StaleAfter, Horizon         \* of JudgeStatus

ASSUME ThreadsAssumption == NoThread \notin Threads \cup {Main}
ASSUME DirsAssumption == NoDir \notin Dirs
ASSUME TimeAssumption == {TimeLimit, Interval, StaleAfter, Horizon} \subseteq Nat
ASSUME InstancesAssumption == IsFiniteSet(Instances) /\ WorkerCount \in Nat
ASSUME SomebodyWorks == Workers # {}

VARIABLES
    server, slot, mutex, artifacts, run, child, left, scratch, old,   \* of Sandbox
    queue, worker, announced, busy,                              \* of JudgeWorkers
    now, process, active, row, lastCheck                         \* of JudgeStatus

Sandboxes == INSTANCE Sandbox WITH dir <- artifacts

Crowd == INSTANCE JudgeWorkers WITH Nobody <- None

Status == INSTANCE JudgeStatus WITH busy <- active

ServerSpec == Spec /\ Sandboxes!Spec /\ Crowd!Spec /\ Status!Spec

-----------------------------------------------------------------------------
(* Safety.  DirectoriesAreWhole and WholeDirectoryIsKept are               *)
(* SnapshotCache's own.                                                    *)

\* No directory is lost or taken away: a staging directory is of the worker that holds
\* the lock or was left by a crash (temp_dir); a sandbox directory is in the cache or in
\* use, is there until its run returns, and has the policy of its profile
\* (acquire_sandbox_artifacts, invalidate_all).
DirectoriesAreKept ==
    /\ TypeOK
    /\ StagingIsCleanedUp
    /\ Sandboxes!RunKeepsItsDirectory
    /\ Sandboxes!NoDirectoryIsLost
    /\ Sandboxes!RunHasItsPolicy

\* A worker that restarts has emptied the cache of sandbox directories for good: none from
\* before comes back into it, though other threads build and run meanwhile
\* (invalidate_all_sandbox_artifacts, acquire_sandbox_artifacts).
RestartRenewsTheCache == Sandboxes!NoOldDirectoryIsCached

\* A run that is over has no child left, and its result shows the text of its own child
\* (wait_wall_clock, acquire_thread_local_scratch_files).
RunsAreSeparate == Sandboxes!ChildIsReaped /\ Sandboxes!TextIsOfTheRun

\* The count of busy workers is true; no more are reported than configured, a server
\* is reported while it lives and forgotten when it has ended, and the last self check
\* stays known (busy_worker_guard, system_service::get_status, upsert_judge_instance_status).
StatusIsTrue ==
    /\ Crowd!TypeOK
    /\ Crowd!BusyIsCounted
    /\ Status!ActiveWithinConfigured
    /\ Status!LiveIsReported
    /\ Status!DeadIsForgotten
    /\ Status!LastCheckIsReported
=============================================================================
