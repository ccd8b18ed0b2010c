------------------------------- MODULE Sandbox -------------------------------
(***************************************************************************)
(* sandbox_runner::run and the sandbox directories it shares.  A directory *)
(* holds the root file system and the seccomp policy of one profile; the   *)
(* threads of a judge server share it through a cache behind one mutex,    *)
(* and a run keeps it by a shared_ptr until it returns.  Each thread has   *)
(* one pair of scratch files, which takes the output of all its runs.      *)
(*                                                                         *)
(* A child stands for its process group.  Output and error output are one  *)
(* text, of which only matters whose it is.                                *)
(***************************************************************************)
EXTENDS Naturals, FiniteSets

CONSTANTS
    Threads,   \* the worker threads
    Main,      \* the thread that makes the startup self check
    Dirs,      \* the sandbox directories that may exist at once (bound)
    NoDir,     \* a shared_ptr that is empty
    NoThread,  \* the mutex of the cache is free
    TimeLimit, \* time_limit in ticks of the steady clock
    CallsFail  \* whether wait4, killpg and setpgid may fail

VARIABLES
    server,  \* where main is
    slot,    \* compile_artifacts_ and run_artifacts_
    mutex,   \* who is in acquire_sandbox_artifacts
    dir,     \* /tmp/oj_nsjail_*: its condition and its policy
    run,     \* the run of a thread
    child,   \* the child that a thread waits for
    left,    \* a child the thread stopped waiting for
    scratch, \* whose text is in the thread's scratch files
    old      \* history: the directories made before the cache was last emptied

sandboxVars == <<server, slot, mutex, dir, run, child, left, scratch, old>>

Profiles == {"compile", "run"}
Everybody == Threads \union {Main}
Removed == [condition |-> "removed", policy |-> "run"]
NoRun == [step |-> "none", profile |-> "run", dir |-> NoDir,
          age |-> 0, killed |-> FALSE, text |-> {}]

\* A thread between two runs; the last one returned a result or an error.
Between(t) == run[t].step \in {"none", "returned", "failed"}

\* The directory has all that validate_sandbox_artifacts asks for.
IsWhole(d) == dir[d].condition = "whole"

Init ==
    /\ server = "checking"
    /\ slot = [p \in Profiles |-> NoDir]
    /\ mutex = NoThread
    /\ dir = [d \in Dirs |-> Removed]
    /\ run = [t \in Everybody |-> NoRun]
    /\ child = [t \in Everybody |-> "none"]
    /\ left = [t \in Everybody |-> "none"]
    /\ scratch = [t \in Everybody |-> {}]
    /\ old = {}

-----------------------------------------------------------------------------
(* Who holds a directory *)

\* The directory that the shared_ptr of a run of t keeps.
Uses(runs, t) == runs[t].dir

Holds(slots, runs, d) ==
    \/ \E p \in Profiles : slots[p] = d
    \/ \E t \in Everybody : Uses(runs, t) = d

\* Every directory whose last shared_ptr is gone is removed.
Released(slots, runs) ==
    [d \in Dirs |-> IF Holds(slots, runs, d) THEN dir[d] ELSE Removed]

\* The run of thread t is over.
Over(t, step, text) ==
    [run EXCEPT ![t] =
        [NoRun EXCEPT !.step = step, !.killed = run[t].killed, !.text = text]]

\* run returns an error.
Fail(t) ==
    /\ run' = Over(t, "failed", {})
    /\ dir' = Released(slot, run')

-----------------------------------------------------------------------------
(* A run *)

\* What is left in the scratch files when a run begins.
ResetScratch(t) == {}

\* The scratch files are made or emptied.
StartRun(t, profile) ==
    /\ Between(t)
    /\ t \in Threads => server = "serving"
    /\ t = Main => server = "checking" /\ run[t] = NoRun /\ profile = "run"
    /\ scratch' = [scratch EXCEPT ![t] = ResetScratch(t)]
    /\ run' = [run EXCEPT ![t] =
           [NoRun EXCEPT !.step = "locking", !.profile = profile]]
    /\ UNCHANGED <<server, slot, mutex, dir, child, left, old>>

\* An argument is refused, or the scratch files cannot be emptied.
StartRunFails(t) ==
    /\ Between(t)
    /\ t \in Threads => server = "serving"
    /\ t = Main => server = "checking" /\ run[t] = NoRun
    /\ run' = [run EXCEPT ![t] = [NoRun EXCEPT !.step = "failed"]]
    /\ UNCHANGED <<server, slot, mutex, dir, child, left, scratch, old>>

\* get_cache_slot
SlotOf(profile) == profile

Lock(t) ==
    /\ run[t].step = "locking"
    /\ mutex = NoThread
    /\ mutex' = t
    /\ run' = [run EXCEPT ![t].step = "validating"]
    /\ UNCHANGED <<server, slot, dir, child, left, scratch, old>>

\* The cached directory is there and is whole.
IsUsable(profile) ==
    slot[SlotOf(profile)] # NoDir /\ IsWhole(slot[SlotOf(profile)])

UseCached(t) ==
    LET profile == run[t].profile IN
    /\ run[t].step = "validating"
    /\ IsUsable(profile)
    /\ run' = [run EXCEPT ![t].step = "prepared", ![t].dir = slot[SlotOf(profile)]]
    /\ mutex' = NoThread
    /\ UNCHANGED <<server, slot, dir, child, left, scratch, old>>

\* The slot is emptied and a directory with a fresh name is made.
BeginBuild(t) ==
    LET profile == run[t].profile IN
    /\ run[t].step = "validating"
    /\ ~ IsUsable(profile)
    /\ slot' = [slot EXCEPT ![SlotOf(profile)] = NoDir]
    /\ \E d \in Dirs :
           /\ dir[d] = Removed
           /\ run' = [run EXCEPT ![t].step = "building", ![t].dir = d]
           /\ dir' = [Released(slot', run') EXCEPT ![d] =
                  [condition |-> "whole", policy |-> profile]]
           /\ old' = old \ {d}
    /\ UNCHANGED <<server, mutex, child, left, scratch>>

\* temp_dir::create fails, after the slot was emptied.
CreateFails(t) ==
    /\ run[t].step = "validating"
    /\ ~ IsUsable(run[t].profile)
    /\ slot' = [slot EXCEPT ![SlotOf(run[t].profile)] = NoDir]
    /\ run' = Over(t, "failed", {})
    /\ dir' = Released(slot', run')
    /\ mutex' = NoThread
    /\ UNCHANGED <<server, child, left, scratch, old>>

\* The layout, the policy file and the mount points are there.
FinishBuild(t) ==
    /\ run[t].step = "building"
    /\ slot' = [slot EXCEPT ![SlotOf(run[t].profile)] = run[t].dir]
    /\ run' = [run EXCEPT ![t].step = "prepared"]
    /\ mutex' = NoThread
    /\ UNCHANGED <<server, dir, child, left, scratch, old>>

\* Mutant of BuildFails: the directory is not removed with its temp_dir.
BuildFailsDirty(t) ==
    /\ run[t].step = "building"
    /\ run' = Over(t, "failed", {})
    /\ mutex' = NoThread
    /\ UNCHANGED <<server, slot, dir, child, left, scratch, old>>

\* One of them cannot be made.
BuildFails(t) ==
    /\ run[t].step = "building"
    /\ Fail(t)
    /\ mutex' = NoThread
    /\ UNCHANGED <<server, slot, child, left, scratch, old>>

\* The arguments are made, the input is opened and the child is forked.
Fork(t) ==
    /\ run[t].step = "prepared"
    /\ child' = [child EXCEPT ![t] = "running"]
    /\ run' = [run EXCEPT ![t].step = "waiting"]
    /\ dir' = Released(slot, run')
    /\ UNCHANGED <<server, slot, mutex, left, scratch, old>>

\* The workspace cannot be mounted, the input not opened, or fork fails.
ForkFails(t) ==
    /\ run[t].step = "prepared"
    /\ Fail(t)
    /\ UNCHANGED <<server, slot, mutex, child, left, scratch, old>>

-----------------------------------------------------------------------------
(* The child *)

Write(t) ==
    /\ child[t] = "running"
    /\ scratch' = [scratch EXCEPT ![t] = @ \union {"own"}]
    /\ UNCHANGED <<server, slot, mutex, dir, run, child, left, old>>

\* It ends: by itself, for want of a sandbox or at a limit of nsjail.
Exit(t) ==
    /\ child[t] = "running"
    /\ child' = [child EXCEPT ![t] = "exited"]
    /\ UNCHANGED <<server, slot, mutex, dir, run, left, scratch, old>>

LeftChildWrites(t) ==
    /\ left[t] = "running"
    /\ scratch' = [scratch EXCEPT ![t] = @ \union {"earlier"}]
    /\ UNCHANGED <<server, slot, mutex, dir, run, child, left, old>>

LeftChildExits(t) ==
    /\ left[t] = "running"
    /\ left' = [left EXCEPT ![t] = "exited"]
    /\ UNCHANGED <<server, slot, mutex, dir, run, child, scratch, old>>

-----------------------------------------------------------------------------
(* wait_wall_clock *)

Tick(t) ==
    /\ run[t].step = "waiting"
    /\ run[t].age <= TimeLimit
    /\ run' = [run EXCEPT ![t].age = @ + 1]
    /\ UNCHANGED <<server, slot, mutex, dir, child, left, scratch, old>>

\* elapsed > time_limit, and killpg was not called yet.
IsLate(t) == run[t].age > TimeLimit /\ ~ run[t].killed

Reap(t) ==
    /\ run[t].step = "waiting"
    /\ child[t] = "exited"
    /\ child' = [child EXCEPT ![t] = "none"]
    /\ run' = [run EXCEPT ![t].step = "reaped"]
    /\ UNCHANGED <<server, slot, mutex, dir, left, scratch, old>>

\* Mutant of Kill: the wait is over when the signal is sent.
KillAndReturn(t) ==
    /\ run[t].step = "waiting"
    /\ child[t] = "running"
    /\ IsLate(t)
    /\ run' = [run EXCEPT ![t].killed = TRUE, ![t].step = "reaped"]
    /\ child' = [child EXCEPT ![t] = "exited"]
    /\ UNCHANGED <<server, slot, mutex, dir, left, scratch, old>>

\* wait4 finds the child running, which may end before killpg.
Kill(t) ==
    /\ run[t].step = "waiting"
    /\ child[t] \in {"running", "exited"}
    /\ IsLate(t)
    /\ run' = [run EXCEPT ![t].killed = TRUE]
    /\ child' = [child EXCEPT ![t] = "exited"]
    /\ UNCHANGED <<server, slot, mutex, dir, left, scratch, old>>

\* setpgid of the parent, wait4 or killpg fails: nobody waits any more.
Abandon(t) ==
    /\ CallsFail
    /\ run[t].step = "waiting"
    /\ Fail(t)
    /\ child' = [child EXCEPT ![t] = "none"]
    /\ left' = [left EXCEPT ![t] = child[t]]
    /\ UNCHANGED <<server, slot, mutex, scratch, old>>

\* The scratch files are read from their start.
ReturnResult(t) ==
    /\ run[t].step = "reaped"
    /\ run' = Over(t, "returned", scratch[t])
    /\ dir' = Released(slot, run')
    /\ UNCHANGED <<server, slot, mutex, child, left, scratch, old>>

ReadFails(t) ==
    /\ run[t].step = "reaped"
    /\ Fail(t)
    /\ UNCHANGED <<server, slot, mutex, child, left, scratch, old>>

-----------------------------------------------------------------------------
(* The server *)

\* startup_self_check is passed, and its result published.
Serve ==
    /\ server = "checking"
    /\ run[Main].step = "returned"
    /\ ~ run[Main].killed
    /\ server' = "serving"
    /\ UNCHANGED <<slot, mutex, dir, run, child, left, scratch, old>>

\* No namespaces, no sandbox, or /usr/bin/true did not succeed in it.
RefuseToServe ==
    /\ server = "checking"
    /\ Between(Main)
    /\ server' = "refused"
    /\ UNCHANGED <<slot, mutex, dir, run, child, left, scratch, old>>

\* Mutant of CacheIsFree: the cache is emptied without its mutex.
CacheIsAnybodys == TRUE

\* invalidate_all_sandbox_artifacts can take the mutex.
CacheIsFree == mutex = NoThread

\* A worker that stopped empties the cache before it starts again.
Invalidate(t) ==
    /\ server = "serving"
    /\ t \in Threads
    /\ Between(t)
    /\ CacheIsFree
    /\ slot' = [p \in Profiles |-> NoDir]
    /\ dir' = Released(slot', run)
    /\ old' = {d \in Dirs : dir'[d] # Removed}
    /\ UNCHANGED <<server, mutex, run, child, left, scratch>>

\* Something outside takes a file of a directory under /tmp away.
BreakDir(d) ==
    /\ IsWhole(d)
    /\ dir' = [dir EXCEPT ![d].condition = "broken"]
    /\ UNCHANGED <<server, slot, mutex, run, child, left, scratch, old>>

ThreadStep(t) ==
    \/ Lock(t) \/ UseCached(t) \/ BeginBuild(t) \/ FinishBuild(t)
    \/ Fork(t) \/ Reap(t) \/ Kill(t) \/ ReturnResult(t)

Failure(t) ==
    \/ StartRunFails(t) \/ CreateFails(t) \/ BuildFails(t) \/ ForkFails(t)
    \/ Abandon(t) \/ ReadFails(t)

ChildStep(t) == Write(t) \/ Exit(t) \/ LeftChildWrites(t) \/ LeftChildExits(t)

Next ==
    \/ \E t \in Everybody :
           \/ \E profile \in Profiles : StartRun(t, profile)
           \/ ThreadStep(t) \/ Failure(t) \/ ChildStep(t)
           \/ Tick(t) \/ Invalidate(t)
    \/ Serve \/ RefuseToServe
    \/ \E d \in Dirs : BreakDir(d)

\* The clock and the threads go on; no call need fail and no child need end.
Fairness ==
    \A t \in Everybody : WF_sandboxVars(ThreadStep(t)) /\ WF_sandboxVars(Tick(t))

Spec == Init /\ [][Next]_sandboxVars /\ Fairness

-----------------------------------------------------------------------------
(* Properties *)

\* The directory of a run is not removed before the run returns, although
\* other threads empty the cache and fill it again meanwhile.
RunKeepsItsDirectory ==
    \A t \in Everybody : run[t].dir # NoDir => dir[run[t].dir] # Removed

\* A directory that nobody will use or remove again is not left in /tmp: each
\* is in the cache or in use (build_sandbox_artifacts, invalidate_all).
NoDirectoryIsLost ==
    \A d \in Dirs : dir[d] # Removed =>
        \/ \E p \in Profiles : slot[p] = d
        \/ \E t \in Everybody : run[t].dir = d

\* A program runs under the policy made for its profile: a submission is not
\* run under the policy of the compilers.
RunHasItsPolicy ==
    \A t \in Everybody : run[t].dir # NoDir => dir[run[t].dir].policy = run[t].profile

\* The text of a result was written by the child of that run, unless the thread
\* once stopped waiting for a child (acquire_thread_local_scratch_files).
TextIsOfTheRun ==
    \A t \in Everybody : "earlier" \in run[t].text => left[t] # "none"

\* When a run is over, its child is too: none is left to be reaped.
ChildIsReaped ==
    \A t \in Everybody : Between(t) => child[t] = "none"

\* When a worker that failed has emptied the cache, no directory from before comes back
\* into it, not even one that another thread was building or using meanwhile: what
\* made the worker fail is not found in the cache again.
NoOldDirectoryIsCached == \A p \in Profiles : slot[p] \notin old

\* A child that never ends does not hold its thread for ever.
EveryWaitEnds ==
    \A t \in Everybody : run[t].step = "waiting" ~> Between(t)

=============================================================================
