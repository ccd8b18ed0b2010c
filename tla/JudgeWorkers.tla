---------------------------- MODULE JudgeWorkers ----------------------------
(***************************************************************************)
(* The worker threads of a judge server: how they are made and made again, *)
(* how they wait for work, and how the runtime registry counts them.       *)
(*                                                                         *)
(* A worker looks for a submission over one connection and LISTENs on      *)
(* another, so that a notification sent while it looks is there when it    *)
(* begins to wait.  A submission that is enqueued is announced; one whose  *)
(* lease runs out is found when a wait times out.                          *)
(***************************************************************************)
EXTENDS Naturals, FiniteSets

CONSTANTS
    Workers,      \* the worker threads
    Submissions,  \* what may be in submission_queue
    Nobody        \* no worker has the submission

VARIABLES
    queue,      \* the row of a submission, and who has locked or leased it
    worker,     \* where a worker thread is, and with what submission
    announced,  \* whether a worker has a notification to read
    busy        \* busy_worker_count_

judgeWorkersVars == <<queue, worker, announced, busy>>

Absent == [state |-> "absent", by |-> Nobody]
Ready == [state |-> "ready", by |-> Nobody]

\* The lease of a submission ran out, and no notification says so.
Overdue == [state |-> "overdue", by |-> Nobody]

CanBeLeased(s) == queue[s] \in {Ready, Overdue}

\* The worker has its connections.
IsListening(w) == worker[w].step \notin {"delayed", "building"}

At(w, step) == [worker EXCEPT ![w].step = step]

Init ==
    /\ queue = [s \in Submissions |-> Absent]
    /\ worker = [w \in Workers |-> [step |-> "building", task |-> {}]]
    /\ announced = [w \in Workers |-> FALSE]
    /\ busy = 0

-----------------------------------------------------------------------------
(* run_judge_worker_loop *)

\* The connections are made and the worker LISTENs.  A worker that cannot be
\* built tries again a second later: a stutter.
Build(w) ==
    /\ worker[w].step = "building"
    /\ worker' = At(w, "leasing")
    /\ announced' = [announced EXCEPT ![w] = FALSE]
    /\ UNCHANGED <<queue, busy>>

\* WORKER_RESTART_DELAY is over.
Restart(w) ==
    /\ worker[w].step = "delayed"
    /\ worker' = At(w, "building")
    /\ UNCHANGED <<queue, announced, busy>>

-----------------------------------------------------------------------------
(* The queue *)

\* A submission is created or rejudged: pg_notify reaches who listens.
Enqueue(s) ==
    /\ queue[s] = Absent
    /\ queue' = [queue EXCEPT ![s] = Ready]
    /\ announced' = [w \in Workers |-> announced[w] \/ IsListening(w)]
    /\ UNCHANGED <<worker, busy>>

LeaseExpires(s) ==
    /\ queue[s].state = "leased"
    /\ queue' = [queue EXCEPT ![s] = Overdue]
    /\ UNCHANGED <<worker, announced, busy>>

-----------------------------------------------------------------------------
(* judge_worker::run *)

\* The transaction of try_lease_next locks a row.
Lock(w) ==
    /\ worker[w].step = "leasing"
    /\ \E s \in Submissions :
           /\ CanBeLeased(s)
           /\ queue' = [queue EXCEPT ![s].by = w]
           /\ worker' = [worker EXCEPT ![w] = [step |-> "locking", task |-> {s}]]
    /\ UNCHANGED <<announced, busy>>

\* It commits, and the worker counts as busy.
Lease(w) ==
    /\ worker[w].step = "locking"
    /\ queue' = [s \in Submissions |->
           IF s \in worker[w].task THEN [state |-> "leased", by |-> w] ELSE queue[s]]
    /\ worker' = At(w, "busy")
    /\ busy' = busy + 1
    /\ UNCHANGED announced

\* Every row is absent, leased, or locked by another worker and skipped.
FindNothing(w) ==
    /\ worker[w].step = "leasing"
    /\ \A s \in Submissions : ~ CanBeLeased(s)
    /\ worker' = At(w, "idle")
    /\ UNCHANGED <<queue, announced, busy>>

\* wait_for_work
Sleep(w) ==
    /\ worker[w].step = "idle"
    /\ worker' = At(w, "sleeping")
    /\ UNCHANGED <<queue, announced, busy>>

\* await_notification reads all there is.
Wake(w) ==
    /\ worker[w].step = "sleeping"
    /\ announced[w]
    /\ worker' = At(w, "leasing")
    /\ announced' = [announced EXCEPT ![w] = FALSE]
    /\ UNCHANGED <<queue, busy>>

\* Mutant of WaitTimesOut: a worker waits until it is notified.
WaitOn(w) ==
    worker[w].step = "sleeping" /\ UNCHANGED judgeWorkersVars

\* NOTIFICATION_WAIT_TIMEOUT
WaitTimesOut(w) ==
    /\ worker[w].step = "sleeping"
    /\ ~ announced[w]
    /\ worker' = At(w, "leasing")
    /\ UNCHANGED <<queue, announced, busy>>

\* What the queue is when w does `state` to the submission whose lease it has.
Owned(w, state) ==
    [s \in Submissions |->
        IF s \in worker[w].task /\ queue[s] = [state |-> "leased", by |-> w]
        THEN state ELSE queue[s]]

\* The submission is finalized, or the worker leaves it to who has it now.
Finish(w) ==
    /\ worker[w].step = "busy"
    /\ queue' = Owned(w, Absent)
    /\ worker' = [worker EXCEPT ![w] = [step |-> "leasing", task |-> {}]]
    /\ busy' = busy - 1
    /\ UNCHANGED announced

\* It is requeued, which announces nothing.
Requeue(w) ==
    /\ worker[w].step = "busy"
    /\ queue' = Owned(w, Ready)
    /\ worker' = [worker EXCEPT ![w] = [step |-> "leasing", task |-> {}]]
    /\ busy' = busy - 1
    /\ UNCHANGED announced

\* The busy_worker_guard goes out of scope with the iteration.
BusyAfterFailure(w) == IF worker[w].step = "busy" THEN busy - 1 ELSE busy

\* A call of the loop fails and run returns; a lock is rolled back, while a
\* submission stays leased until its lease runs out.
Fail(w) ==
    /\ IsListening(w)
    /\ queue' = [s \in Submissions |->
           IF worker[w].step = "locking" /\ s \in worker[w].task
           THEN [queue[s] EXCEPT !.by = Nobody] ELSE queue[s]]
    /\ busy' = BusyAfterFailure(w)
    /\ worker' = [worker EXCEPT ![w] = [step |-> "delayed", task |-> {}]]
    /\ announced' = [announced EXCEPT ![w] = FALSE]

WorkerStep(w) ==
    \/ Build(w) \/ Restart(w) \/ Lock(w) \/ Lease(w)
    \/ FindNothing(w) \/ Sleep(w) \/ Wake(w) \/ WaitTimesOut(w) \/ Finish(w) \/ Requeue(w)

Next ==
    \/ \E w \in Workers : WorkerStep(w) \/ Fail(w)
    \/ \E s \in Submissions : Enqueue(s) \/ LeaseExpires(s)

\* A thread goes on, a wait times out, a lease runs out; what is asked of the
\* database again and again is granted at some time.
Fairness ==
    /\ \A w \in Workers :
           /\ WF_judgeWorkersVars(WorkerStep(w))
           /\ SF_judgeWorkersVars(Lock(w))
           /\ SF_judgeWorkersVars(Lease(w))
           /\ SF_judgeWorkersVars(WaitTimesOut(w))
    /\ \A s \in Submissions : WF_judgeWorkersVars(LeaseExpires(s))

Spec == Init /\ [][Next]_judgeWorkersVars /\ Fairness

-----------------------------------------------------------------------------
(* Properties *)

TypeOK ==
    /\ queue \in [Submissions ->
           [state : {"absent", "ready", "overdue", "leased"},
            by : Workers \union {Nobody}]]
    /\ worker \in [Workers ->
           [step : {"building", "delayed", "leasing", "locking",
                    "idle", "sleeping", "busy"},
            task : SUBSET Submissions]]
    /\ announced \in [Workers -> BOOLEAN]
    /\ busy \in 0..Cardinality(Workers)

\* The count of busy workers that heartbeats publish is that of the workers
\* that have a submission, however their attempts end (busy_worker_guard).
BusyIsCounted ==
    busy = Cardinality({w \in Workers : worker[w].step = "busy"})

\* Workers never all wait for a notification, none of them with one to read,
\* while a submission that was enqueued or requeued can be leased.
NobodySleepsOnNews ==
    (\A w \in Workers : worker[w].step = "sleeping" /\ ~ announced[w])
        => \A s \in Submissions : queue[s] # Ready

\* Work that is there is taken up, an expired lease included: some worker gets
\* to it, or it is gone.
WorkIsTaken ==
    (\E s \in Submissions : CanBeLeased(s))
        ~> (\/ \E w \in Workers : worker[w].step = "busy"
            \/ \A s \in Submissions : ~ CanBeLeased(s))

\* A worker thread that failed works again.
WorkersComeBack ==
    \A w \in Workers : worker[w].step = "delayed" ~> IsListening(w)

=============================================================================
