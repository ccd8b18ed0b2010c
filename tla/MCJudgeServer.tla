---------------------------- MODULE MCJudgeServer ----------------------------
(***************************************************************************)
(* The parts of JudgeServer in one run: `part` says which instance of      *)
(* which of them a behaviour is of, and the variables of the others stand  *)
(* still.                                                                  *)
(***************************************************************************)
EXTENDS JudgeServer, TLC

CONSTANTS p1, p2, w1, w2, w3, t1, t2, d1, d2, d3, s1, s2, i1, i2

VARIABLE part

snapshotVars == vars
sandboxVars == <<server, slot, mutex, artifacts, run, child, left, scratch, old>>
workersVars == <<queue, worker, announced, busy>>
statusVars == <<now, process, active, row, lastCheck>>

-----------------------------------------------------------------------------
(* The instances *)

InTwoProcesses == w1 :> p1 @@ w2 :> p1 @@ w3 :> p2

\* The module extended here is of the workers of two processes; in this the worker of
\* the second does nothing, and a directory of an older schema may be found.
OneProcess == INSTANCE SnapshotCache WITH Found <- {"absent", "whole", "outdated"}

\* Two threads share the directories; no time passes, and no child writes.  In the
\* instance that is extended here one thread waits for children that may never end, and
\* calls fail.
Shared == INSTANCE Sandbox WITH TimeLimit <- 1, CallsFail <- FALSE, dir <- artifacts

-----------------------------------------------------------------------------
PartsInit ==
    /\ part \in {"one process", "two processes", "shared", "wait", "crowd", "pair", "status"}
    /\ IF part = "one process" THEN OneProcess!Init ELSE Init
    /\ part \notin {"one process", "two processes"} => \A v \in Versions : dir[v] = NoDirectory
    /\ Sandboxes!Init
    /\ Crowd!Init
    /\ Status!Init

\* The third worker of "pair" is never made.
PairNext == Crowd!Next /\ worker'[w3] = worker[w3]

PartsNext ==
    /\ \/ /\ \/ part = "one process" /\ OneProcess!Next /\ pc'[w3] = "idle"
             \/ part = "two processes" /\ Next /\ failures' <= 1
          /\ UNCHANGED <<sandboxVars, workersVars, statusVars>>
       \/ /\ \/ /\ part = "shared"
                /\ Shared!Next
                /\ scratch' = scratch /\ \A t \in {t1, t2, Main} : run'[t].age = 0
             \/ /\ part = "wait"
                /\ Sandboxes!Next
                /\ run'[t2] = run[t2] /\ artifacts'[d3] = artifacts[d3]
          /\ UNCHANGED <<snapshotVars, workersVars, statusVars>>
       \/ /\ \/ part = "crowd" /\ Crowd!Next
             \/ part = "pair" /\ PairNext
          /\ UNCHANGED <<snapshotVars, sandboxVars, statusVars>>
       \/ /\ part = "status"
          /\ Status!Next
          /\ UNCHANGED <<snapshotVars, sandboxVars, workersVars>>
    /\ UNCHANGED part

\* The fairness of SnapshotCache, of Sandbox and of JudgeWorkers, each of its part.
PartsFairness ==
    /\ \A w \in Workers : WF_snapshotVars(part = "two processes" /\ AcquireStep(w))
    /\ \A t \in {t1, Main} :
        /\ WF_sandboxVars(part = "wait" /\ Sandboxes!ThreadStep(t))
        /\ WF_sandboxVars(part = "wait" /\ Sandboxes!Tick(t))
    /\ \A w \in {w1, w2} :
        /\ WF_workersVars(part = "pair" /\ Crowd!WorkerStep(w))
        /\ SF_workersVars(part = "pair" /\ Crowd!Lock(w))
        /\ SF_workersVars(part = "pair" /\ Crowd!Lease(w))
        /\ SF_workersVars(part = "pair" /\ Crowd!WaitTimesOut(w))
    /\ \A s \in {s1, s2} : WF_workersVars(part = "pair" /\ Crowd!LeaseExpires(s))

PartsSpec ==
    PartsInit /\ [][PartsNext]_<<part, snapshotVars, sandboxVars, workersVars, statusVars>> /\ PartsFairness

-----------------------------------------------------------------------------
(* Liveness of the instances.  What speaks of no part holds of a component *)
(* that stands still, too.                                                 *)

\* A child that never ends does not hold its thread, and no worker keeps the lock of a
\* problem (wait_wall_clock, problem_lock_registry::lock).
EveryWaitEnds ==
    /\ part = "wait" => Sandboxes!EveryWaitEnds
    /\ part = "two processes" => LockIsGivenBack

\* Never do all workers wait, with nothing to read, while a submission is ready; one
\* that can be leased is taken up; and a worker that failed works again
\* (judge_worker::run, wait_for_work, run_judge_worker_loop).
WorkIsTaken ==
    /\ [] Crowd!NobodySleepsOnNews
    /\ part = "pair" => Crowd!WorkIsTaken
    /\ part = "pair" => \A w \in {w1, w2} : worker[w].step = "delayed" ~> Crowd!IsListening(w)
=============================================================================
