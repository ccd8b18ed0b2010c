----------------------------- MODULE JudgeQueue -----------------------------
(***************************************************************************)
(* The judge queue: the tables submissions, submission_queue,              *)
(* submission_status_history, problem_statistics and                       *)
(* user_problem_attempt_summary, the services that write them, and the     *)
(* judge workers that lease queue rows, judge and write the verdict.       *)
(*                                                                         *)
(* Each database transaction of the code is one action, except where the   *)
(* code lets something happen between its beginning and its commit that    *)
(* matters:                                                                *)
(*  - a lease transaction locks its row and others skip it (SKIP LOCKED);  *)
(*  - NOW() is the time a transaction began, so a lease found in time may  *)
(*    run out before the transaction commits;                              *)
(*  - rejudge_problem reads its list before it locks any row.              *)
(* Time is abstracted to whether leased_until is ahead of NOW().           *)
(*                                                                         *)
(* A transaction that rolls back and is retried changes nothing.  One that *)
(* commits while its answer is lost is not retried (see TransactionRetry): *)
(* it ends the worker, so it is the transaction and then Crash; a client   *)
(* that sends its request again makes another CreateSubmission.            *)
(***************************************************************************)
EXTENDS Naturals, FiniteSets, Sequences, SubmissionStatus

CONSTANTS
    Submission,    \* submission ids
    Worker,        \* judge worker threads, of any number of judge processes
    Token,         \* lease tokens (md5 of random data)
    Problem,       \* problems
    User,          \* users
    ProblemOf,     \* [Submission -> Problem]: submissions.problem_id
    UserOf,        \* [Submission -> User]: submissions.user_id
    Verdict,       \* the final statuses judging may come to in this run
    Null,          \* SQL NULL, no row
    MaxEnqueue,    \* bound: how many transactions may enqueue
    MaxFault       \* bound: how many faults happen

VARIABLES
    status,             \* submissions.status, "absent" before the insert
    history,            \* the rows of submission_status_history, in order
    result,             \* score and outputs: Null or those of a verdict
    queue,              \* queue[s]: the row of submission_queue, or Null
    problem_statistics, \* the row of each problem
    attempt_summary,    \* the row of user_problem_attempt_summary, per <<u, p>>
    user_statistics,    \* user_submission_statistics.submission_count
    rejudge_list,       \* what a running rejudge_problem has read, per problem
    pc,                 \* where each worker is in judge_worker::run
    held,               \* the leased_submission each worker works on, or Null
    completion,         \* the submission_completion each worker will apply
    clock,              \* how many transactions have enqueued
    faults              \* how many faults have happened

accounts == <<problem_statistics, attempt_summary, user_statistics>>
tables == <<status, history, result, queue, problem_statistics, attempt_summary,
            user_statistics>>
requests == <<rejudge_list, clock>>
workers == <<pc, held, completion>>
vars == <<status, history, result, queue, problem_statistics, attempt_summary,
          user_statistics, rejudge_list, pc, held, completion, clock, faults>>

-----------------------------------------------------------------------------

NormalPriority == 100
RejudgePriority == 0

QueueRow ==
    [priority     : {NormalPriority, RejudgePriority},
     attempt_no   : Nat,
     lease_token  : Token \cup {Null},
     leased_until : {"null", "ahead", "passed"},
     created_at   : Nat]

Lease == [submission : Submission, attempt_no : Nat, lease_token : Token]

Requeue == "requeue_immediately"

ASSUME NullAssumption ==
    Null \notin Token \cup QueueRow \cup Lease \cup FinalStatus \cup {Requeue}

ASSUME SubmissionAssumption ==
    /\ IsFiniteSet(Submission)
    /\ ProblemOf \in [Submission -> Problem]
    /\ UserOf \in [Submission -> User]

ASSUME VerdictAssumption == Verdict \subseteq FinalStatus

ASSUME BoundAssumption == MaxEnqueue \in Nat /\ MaxFault \in Nat

(* Where a worker stands in judge_worker::run and submission_processor:    *)
(*   "idle"       about to lease                                           *)
(*   "leasing"    in the lease transaction, the row locked                 *)
(*   "waiting"    in wait_for_work                                         *)
(*   "leased"     about to mark the submission as judging                  *)
(*   "marking"    in that transaction                                      *)
(*   "judging"    build, snapshot, execution, evaluation                   *)
(*   "completing" about to finalize or requeue                             *)
(*   "finishing"  in that transaction                                      *)
(*   "down"       run returned an error, or the process died               *)
WorkerState ==
    {"idle", "leasing", "waiting", "leased", "marking", "judging",
     "completing", "finishing", "down"}

TypeInvariant ==
    /\ status \in [Submission -> Status]
    /\ history \in [Submission -> Seq(HistoryRow)]
    /\ result \in [Submission -> Verdict \cup {Null}]
    /\ queue \in [Submission -> QueueRow \cup {Null}]
    /\ problem_statistics \in
        [Problem -> [submission_count : Nat, accepted_count : Nat]]
    /\ attempt_summary \in
        [User \X Problem -> [submission_count : Nat, accepted : Nat, failed : Nat]]
    /\ user_statistics \in [User -> Nat]
    /\ rejudge_list \in [Problem -> SUBSET Submission]
    /\ pc \in [Worker -> WorkerState]
    /\ held \in [Worker -> Lease \cup {Null}]
    /\ completion \in [Worker -> Verdict \cup {Requeue, Null}]
    /\ clock \in 0 .. MaxEnqueue
    /\ faults \in 0 .. MaxFault

-----------------------------------------------------------------------------
(* The tables.                                                             *)

Init ==
    /\ status = [s \in Submission |-> "absent"]
    /\ history = [s \in Submission |-> <<>>]
    /\ result = [s \in Submission |-> Null]
    /\ queue = [s \in Submission |-> Null]
    /\ problem_statistics =
        [p \in Problem |-> [submission_count |-> 0, accepted_count |-> 0]]
    /\ attempt_summary =
        [k \in User \X Problem |->
            [submission_count |-> 0, accepted |-> 0, failed |-> 0]]
    /\ user_statistics = [u \in User |-> 0]
    /\ rejudge_list = [p \in Problem |-> {}]
    /\ pc = [w \in Worker |-> "idle"]
    /\ held = [w \in Worker |-> Null]
    /\ completion = [w \in Worker |-> Null]
    /\ clock = 0
    /\ faults = 0

(* persist_submission_status_transition, for every submission of R.        *)
ChangeStatus(R, to) ==
    /\ status' = [s \in Submission |-> IF s \in R THEN to ELSE status[s]]
    /\ history' =
        [s \in Submission |->
            IF s \in R
            THEN Append(history[s], [from_status |-> status[s], to_status |-> to])
            ELSE history[s]]

(* The counters of one user and problem.                                   *)
SummaryOf(s) == <<UserOf[s], ProblemOf[s]>>

(* The submissions of R counted by summary k that are accepted, or failed. *)
Accepted(k, R) == {s \in R : SummaryOf(s) = k /\ status[s] = "accepted"}
(* Mutant of Failed: a failed build is not taken back from the counters.   *)
FailedAtRunTime(k, R) ==
    {s \in R : /\ SummaryOf(s) = k
               /\ status[s] \in FailedStatus
               /\ status[s] \notin {"compile_error", "build_resource_exceeded"}}

Failed(k, R) == {s \in R : SummaryOf(s) = k /\ status[s] \in FailedStatus}

Counts(st) == st = "accepted" \/ st \in FailedStatus

(* Mutant of AcceptedWithout: taken back whatever the status was.          *)
AcceptedLessOne(s) == attempt_summary[SummaryOf(s)].accepted - 1

(* Its accepted and failed counters once the present status of s is out.   *)
AcceptedWithout(s) ==
    attempt_summary[SummaryOf(s)].accepted - (IF status[s] = "accepted" THEN 1 ELSE 0)
FailedWithout(s) ==
    attempt_summary[SummaryOf(s)].failed - (IF status[s] \in FailedStatus THEN 1 ELSE 0)

(* The WHERE clauses of the counter updates: without a row that matches,   *)
(* the transaction fails.                                                  *)
CountersAllow(s, to) ==
    LET row == attempt_summary[SummaryOf(s)]
    IN  /\ status[s] = "accepted" => row.accepted > 0
        /\ status[s] \in FailedStatus => row.failed > 0
        /\ Counts(to) =>
                AcceptedWithout(s) + FailedWithout(s) < row.submission_count

(* apply_submission_status_transition of one submission.                   *)
CountTransition(s, to) ==
    /\ CountersAllow(s, to)
    /\ attempt_summary' =
        [attempt_summary EXCEPT ![SummaryOf(s)] =
            [@ EXCEPT
                !.accepted = AcceptedWithout(s) + (IF to = "accepted" THEN 1 ELSE 0),
                !.failed = FailedWithout(s) + (IF to \in FailedStatus THEN 1 ELSE 0)]]

(* enqueue_submission with its NOW(): rows of one transaction tie.  The    *)
(* submission_id of a queue row is UNIQUE.                                 *)
Enqueue(R, row_priority) ==
    /\ clock < MaxEnqueue
    /\ \A s \in R : queue[s] = Null
    /\ clock' = clock + 1
    /\ queue' =
        [s \in Submission |->
            IF s \in R
            THEN [priority |-> row_priority, attempt_no |-> 0,
                  lease_token |-> Null, leased_until |-> "null",
                  created_at |-> clock + 1]
            ELSE queue[s]]

(* requeue_submission_immediately and release_submission_lease: the lease  *)
(* is given up, attempt_no and created_at stay.                            *)
ReleaseLease(s) ==
    queue' = [queue EXCEPT ![s] =
                [@ EXCEPT !.lease_token = Null, !.leased_until = "null"]]

(* The row is deleted with the verdict.  (Its mutant is ReleaseLease.)     *)
Dequeue(s) == queue' = [queue EXCEPT ![s] = Null]

-----------------------------------------------------------------------------
(* The HTTP server: submissions are created and rejudged.                  *)

CreateSubmission(s) ==
    /\ status[s] = "absent"
    /\ ChangeStatus({s}, "queued")
    /\ attempt_summary' =
        [attempt_summary EXCEPT ![SummaryOf(s)].submission_count = @ + 1]
    /\ Enqueue({s}, NormalPriority)
    /\ problem_statistics' =
        [problem_statistics EXCEPT ![ProblemOf[s]].submission_count = @ + 1]
    /\ UNCHANGED <<result, user_statistics, rejudge_list, pc, held, completion,
                   faults>>

(* Mutant of ClearResult.                                                  *)
KeepResult(R) == result' = result

(* clear_submission_result.                                                *)
ClearResult(R) ==
    result' = [s \in Submission |-> IF s \in R THEN Null ELSE result[s]]

(* rejudge_submission, for every submission of R in one transaction: under *)
(* its lock each must (still) have a verdict, which is taken back.         *)
Rejudge(R) ==
    /\ \A s \in R : status[s] \in FinalStatus
    /\ \A p \in Problem :
        Cardinality({s \in R : ProblemOf[s] = p /\ status[s] = "accepted"})
            <= problem_statistics[p].accepted_count
    /\ \A k \in User \X Problem :
        /\ Cardinality(Accepted(k, R)) <= attempt_summary[k].accepted
        /\ Cardinality(Failed(k, R)) <= attempt_summary[k].failed
    /\ problem_statistics' =
        [p \in Problem |->
            [problem_statistics[p] EXCEPT !.accepted_count =
                @ - Cardinality({s \in R : ProblemOf[s] = p
                                           /\ status[s] = "accepted"})]]
    /\ attempt_summary' =
        [k \in User \X Problem |->
            [attempt_summary[k] EXCEPT
                !.accepted = @ - Cardinality(Accepted(k, R)),
                !.failed = @ - Cardinality(Failed(k, R))]]
    /\ ClearResult(R)
    /\ ChangeStatus(R, "queued")
    /\ Enqueue(R, RejudgePriority)
    /\ UNCHANGED <<user_statistics, pc, held, completion, faults>>

RejudgeSubmission(s) == Rejudge({s}) /\ UNCHANGED rejudge_list

(* rejudge_problem reads which submissions it will rejudge ...             *)
ListForRejudge(p) ==
    LET wa_or_ac ==
            {s \in Submission : ProblemOf[s] = p
                                /\ status[s] \in {"wrong_answer", "accepted"}}
    IN  /\ rejudge_list[p] = {}
        /\ wa_or_ac # {}
        /\ rejudge_list' = [rejudge_list EXCEPT ![p] = wa_or_ac]
        /\ UNCHANGED <<tables, workers, clock, faults>>

(* ... locks and rejudges them one by one, and commits ...                 *)
RejudgeProblem(p) ==
    /\ rejudge_list[p] # {}
    /\ Rejudge(rejudge_list[p])
    /\ rejudge_list' = [rejudge_list EXCEPT ![p] = {}]

(* ... unless one of them has been queued in between: a conflict.          *)
RejudgeProblemConflict(p) ==
    /\ \E s \in rejudge_list[p] : status[s] \in PendingStatus
    /\ rejudge_list' = [rejudge_list EXCEPT ![p] = {}]
    /\ UNCHANGED <<tables, workers, clock, faults>>

-----------------------------------------------------------------------------
(* The judge workers.                                                      *)

(* A fault of the environment: bounded, and never fair.                    *)
Fault == faults < MaxFault /\ faults' = faults + 1

Goto(w, state) == pc' = [pc EXCEPT ![w] = state]

Forget(w) ==
    /\ held' = [held EXCEPT ![w] = Null]
    /\ completion' = [completion EXCEPT ![w] = Null]

HeldSubmission(w) == held[w].submission

(* Mutant of Locked: SELECT without FOR UPDATE.                            *)
NeverLocked(s) == FALSE

(* The row of s is locked by a lease transaction that has not ended.       *)
Locked(s) == \E w \in Worker : pc[w] = "leasing" /\ HeldSubmission(w) = s

(* Mutant of Leasable: a lease that ran out is never taken over.           *)
LeasableIfReleased(s) ==
    /\ queue[s] # Null
    /\ queue[s].leased_until = "null"
    /\ ~Locked(s)

(* The WHERE clause of lease_submission, SKIP LOCKED included.             *)
Leasable(s) ==
    /\ queue[s] # Null
    /\ queue[s].leased_until # "ahead"
    /\ ~Locked(s)

(* ORDER BY priority DESC, created_at ASC.                                 *)
Before(s, t) ==
    \/ queue[s].priority > queue[t].priority
    \/ /\ queue[s].priority = queue[t].priority
       /\ queue[s].created_at < queue[t].created_at

UsedTokens ==
    {held[w].lease_token : w \in {v \in Worker : held[v] # Null}}
        \cup {queue[s].lease_token : s \in {r \in Submission : queue[r] # Null}}

FreshToken == CHOOSE t \in Token : t \notin UsedTokens

(* try_lease_next: the row is chosen and locked, with its next attempt     *)
(* number and a new token; no other transaction sees that yet.             *)
ChooseRow(w, s) ==
    /\ pc[w] = "idle"
    /\ Leasable(s)
    /\ \A t \in Submission : Leasable(t) => ~Before(t, s)
    /\ Token \ UsedTokens # {}
    /\ Goto(w, "leasing")
    /\ held' = [held EXCEPT ![w] =
                    [submission |-> s,
                     attempt_no |-> queue[s].attempt_no + 1,
                     lease_token |-> FreshToken]]
    /\ UNCHANGED <<tables, requests, completion, faults>>

LeaseTransaction(w) ==
    LET s == HeldSubmission(w)
    IN  /\ pc[w] = "leasing"
        /\ queue' = [queue EXCEPT ![s] =
                        [@ EXCEPT !.attempt_no = held[w].attempt_no,
                                  !.lease_token = held[w].lease_token,
                                  !.leased_until = "ahead"]]
        /\ UNCHANGED <<status, history, result, accounts, requests, completion>>

CommitLease(w) ==
    /\ LeaseTransaction(w)
    /\ Goto(w, "leased")
    /\ UNCHANGED <<held, faults>>

RollBackLease(w) ==
    /\ Fault
    /\ pc[w] = "leasing"
    /\ Goto(w, "idle")
    /\ Forget(w)
    /\ UNCHANGED <<tables, requests>>

(* No row to lease: wait_for_work, until a notification or its timeout.    *)
FindNoWork(w) ==
    /\ pc[w] = "idle"
    /\ \A s \in Submission : ~Leasable(s)
    /\ Goto(w, "waiting")
    /\ UNCHANGED <<tables, requests, held, completion, faults>>

WaitEnds(w) ==
    /\ pc[w] = "waiting"
    /\ Goto(w, "idle")
    /\ UNCHANGED <<tables, requests, held, completion, faults>>

(* Mutant of HoldsLease: the lease is recognised by its attempt number.    *)
HoldsAttempt(w) ==
    LET row == queue[HeldSubmission(w)]
    IN  row # Null /\ row.attempt_no = held[w].attempt_no

(* The row still carries the attempt number and token of w's lease ...     *)
HoldsLease(w) ==
    LET row == queue[HeldSubmission(w)]
    IN  /\ row # Null
        /\ row.attempt_no = held[w].attempt_no
        /\ row.lease_token = held[w].lease_token

(* ... and leased_until is ahead of NOW().                                 *)
HoldsLiveLease(w) ==
    HoldsLease(w) /\ queue[HeldSubmission(w)].leased_until = "ahead"

(* BEGIN fixes NOW(): from here on it is only the row that can change.     *)
BeginTransaction(w) ==
    /\ \/ pc[w] = "leased" /\ Goto(w, "marking")
       \/ pc[w] = "completing" /\ Goto(w, "finishing")
    /\ HoldsLiveLease(w)
    /\ UNCHANGED <<tables, requests, held, completion, faults>>

(* get_locked_leased_submission_context: FOR UPDATE waits for a lease      *)
(* transaction that has the row, and then looks at the row again.          *)
LocksItsRow(w, state) ==
    /\ pc[w] = state
    /\ HoldsLease(w)
    /\ ~Locked(HeldSubmission(w))

(* "submission lease is stale": the error ends judge_worker::run.          *)
FindLeaseStale(w) ==
    /\ \/ pc[w] \in {"leased", "completing"} /\ ~HoldsLiveLease(w)
       \/ pc[w] \in {"marking", "finishing"} /\ ~HoldsLease(w)
    /\ Goto(w, "down")
    /\ Forget(w)
    /\ UNCHANGED <<tables, requests, faults>>

(* update_submission_status to judging.                                    *)
MarkJudgingTransaction(w) ==
    /\ LocksItsRow(w, "marking")
    /\ ChangeStatus({HeldSubmission(w)}, "judging")
    /\ CountTransition(HeldSubmission(w), "judging")
    /\ UNCHANGED <<result, queue, problem_statistics, user_statistics, requests,
                   held, completion>>

MarkJudging(w) ==
    /\ MarkJudgingTransaction(w)
    /\ Goto(w, "judging")
    /\ UNCHANGED faults

(* Build, snapshot, execution and evaluation come to a final status, an    *)
(* infrastructure failure that is not worth a retry included.              *)
Judge(w, verdict) ==
    /\ pc[w] = "judging"
    /\ Goto(w, "completing")
    /\ completion' = [completion EXCEPT ![w] = verdict]
    /\ UNCHANGED <<tables, requests, held, faults>>

(* They fail with judge_error_code::unavailable: requeue_immediately.      *)
JudgeUnavailable(w) ==
    /\ Fault
    /\ pc[w] = "judging"
    /\ Goto(w, "completing")
    /\ completion' = [completion EXCEPT ![w] = Requeue]
    /\ UNCHANGED <<tables, requests, held>>

(* Mutant of RequeueTransaction: only the queue row is given back.         *)
RequeueKeepsStatus(w) ==
    /\ LocksItsRow(w, "finishing")
    /\ completion[w] = Requeue
    /\ ReleaseLease(HeldSubmission(w))
    /\ UNCHANGED <<status, history, result, accounts, requests>>

(* requeue_submission_immediately: the status goes back to queued, too.    *)
RequeueTransaction(w) ==
    LET s == HeldSubmission(w)
    IN  /\ LocksItsRow(w, "finishing")
        /\ completion[w] = Requeue
        /\ ChangeStatus({s}, "queued")
        /\ CountTransition(s, "queued")
        /\ ReleaseLease(s)
        /\ UNCHANGED <<result, problem_statistics, user_statistics, requests>>

(* finalize_submission: status, history, queue row and counters together.  *)
FinalizeTransaction(w) ==
    LET s == HeldSubmission(w)
    IN  /\ LocksItsRow(w, "finishing")
        /\ completion[w] \in FinalStatus
        /\ ChangeStatus({s}, completion[w])
        /\ result' = [result EXCEPT ![s] = completion[w]]
        /\ Dequeue(s)
        /\ CountTransition(s, completion[w])
        /\ problem_statistics' =
            IF completion[w] = "accepted" /\ status[s] # "accepted"
            THEN [problem_statistics EXCEPT ![ProblemOf[s]].accepted_count = @ + 1]
            ELSE problem_statistics
        /\ UNCHANGED <<user_statistics, requests>>

Finish(w) ==
    /\ RequeueTransaction(w) \/ FinalizeTransaction(w)
    /\ Goto(w, "idle")
    /\ Forget(w)
    /\ UNCHANGED faults

(* Any other error ends judge_worker::run, and the process may be killed:  *)
(* either way what the worker knew is gone and open transactions roll back.*)
Crash(w) ==
    /\ Fault
    /\ pc[w] # "down"
    /\ Goto(w, "down")
    /\ Forget(w)
    /\ UNCHANGED <<tables, requests>>

(* run_judge_worker_loop builds a new worker after WORKER_RESTART_DELAY.   *)
Restart(w) ==
    /\ pc[w] = "down"
    /\ Goto(w, "idle")
    /\ UNCHANGED <<tables, requests, held, completion, faults>>

(* LEASE_DURATION passes.  While a worker still works under the lease that *)
(* is a fault: it was slower than five minutes.                            *)
LeaseRunsOut(s) ==
    /\ queue[s] # Null
    /\ queue[s].leased_until = "ahead"
    /\ IF \E w \in Worker :
            held[w] # Null /\ held[w].lease_token = queue[s].lease_token
       THEN Fault
       ELSE UNCHANGED faults
    /\ queue' = [queue EXCEPT ![s] = [@ EXCEPT !.leased_until = "passed"]]
    /\ UNCHANGED <<status, history, result, accounts, requests, workers>>

-----------------------------------------------------------------------------

WorkerStep(w) ==
    \/ \E s \in Submission : ChooseRow(w, s)
    \/ CommitLease(w)
    \/ FindNoWork(w)
    \/ WaitEnds(w)
    \/ BeginTransaction(w)
    \/ FindLeaseStale(w)
    \/ MarkJudging(w)
    \/ \E verdict \in Verdict : Judge(w, verdict)
    \/ Finish(w)
    \/ Restart(w)

WorkerFault(w) ==
    \/ RollBackLease(w)
    \/ JudgeUnavailable(w)
    \/ Crash(w)

Request ==
    \/ \E s \in Submission : CreateSubmission(s) \/ RejudgeSubmission(s)
    \/ \E p \in Problem :
        ListForRejudge(p) \/ RejudgeProblem(p) \/ RejudgeProblemConflict(p)

Next ==
    \/ Request
    \/ \E w \in Worker : WorkerStep(w) \/ WorkerFault(w)
    \/ \E s \in Submission : LeaseRunsOut(s)

Spec == Init /\ [][Next]_vars

(* Every worker thread keeps running, and time passes for a lease nobody   *)
(* works under.  Requests and faults happen or not.                        *)
Fairness ==
    /\ \A w \in Worker : WF_vars(WorkerStep(w))
    /\ \A s \in Submission : WF_vars(LeaseRunsOut(s) /\ UNCHANGED faults)

FairSpec == Spec /\ Fairness

-----------------------------------------------------------------------------
(* Properties.                                                             *)

(* No submission is lost and none is judged for nothing: one waits in the  *)
(* queue exactly while its status is queued or judging, whatever commits,  *)
(* answers and workers are lost on the way.                                *)
QueueMatchesStatus ==
    \A s \in Submission : queue[s] # Null <=> status[s] \in PendingStatus

(* A submission that reads "judging" always has a lease that can run out,  *)
(* so that an abandoned one is found again; and a worker whose lease is    *)
(* still the current one is judging a submission that says so.             *)
JudgingIsLeased ==
    /\ \A s \in Submission :
        status[s] = "judging" => queue[s].lease_token # Null
    /\ \A w \in Worker :
        pc[w] \in {"judging", "completing", "finishing"} /\ HoldsLease(w) =>
            status[HeldSubmission(w)] = "judging"

(* A lease transaction keeps the row it chose as it found it.              *)
LeasingLocksItsRow ==
    \A w \in Worker : pc[w] = "leasing" =>
        /\ queue[HeldSubmission(w)] # Null
        /\ queue[HeldSubmission(w)].leased_until # "ahead"
        /\ \A v \in Worker \ {w} :
            pc[v] = "leasing" => HeldSubmission(v) # HeldSubmission(w)

WorkersHoldLeases ==
    \A w \in Worker : pc[w] \in {"idle", "waiting", "down"} <=> held[w] = Null

TokensAreDistinct ==
    \A v, w \in Worker :
        v # w /\ held[v] # Null /\ held[w] # Null =>
            held[v].lease_token # held[w].lease_token

(* What every step preserves: two workers may work on one submission and   *)
(* even under one attempt number, but at most one of them has its token,   *)
(* and rows change only under a lock or a token.                           *)
LeaseInvariant ==
    /\ WorkersHoldLeases
    /\ LeasingLocksItsRow
    /\ TokensAreDistinct
    /\ QueueMatchesStatus
    /\ JudgingIsLeased

(* w commits the end of its attempt under the token that is in the row.    *)
EndsAttempt(w, s) ==
    /\ pc[w] = "finishing"
    /\ pc'[w] # pc[w]
    /\ held[w].submission = s
    /\ held[w].lease_token = queue[s].lease_token

LiveLeaseEndsByItsHolder ==
    \A s \in Submission :
        /\ queue[s] # Null
        /\ queue[s].leased_until = "ahead"
        /\ queue'[s] = Null \/ queue'[s].lease_token # queue[s].lease_token
        => \E w \in Worker : EndsAttempt(w, s)

(* While a lease is ahead of NOW() nobody else gets the row: only the      *)
(* worker that holds the lease may end it, by a verdict or a requeue.      *)
LiveLeaseIsExclusive == [][LiveLeaseEndsByItsHolder]_vars

PendingChangesByItsHolder ==
    \A s \in Submission :
        status[s] \in PendingStatus /\ status'[s] # status[s] =>
            \E w \in Worker :
                /\ pc[w] \in {"marking", "finishing"}
                /\ pc'[w] # pc[w]
                /\ held[w].submission = s
                /\ held[w].lease_token = queue[s].lease_token
                /\ status'[s] \in FinalStatus => status'[s] = completion[w]

(* Late answers are fenced off: what changes the status of a submission    *)
(* in the queue is the worker with the row's current lease token, and the  *)
(* verdict it gets is the one that worker came to.  A worker that lost its *)
(* lease, even to a later life of the same submission, changes nothing.    *)
OnlyTheLeaseholderDecides == [][PendingChangesByItsHolder]_vars

(* The score and outputs a reader sees belong to the verdict it sees; a    *)
(* submission that is to be judged (again) shows none.                     *)
ResultBelongsToVerdict ==
    \A s \in Submission :
        result[s] = IF status[s] \in FinalStatus THEN status[s] ELSE Null

Existing == {s \in Submission : status[s] # "absent"}
SubmissionsTo(p) == {s \in Existing : ProblemOf[s] = p}
AttemptsOf(k) == {s \in Existing : SummaryOf(s) = k}
Having(S, statuses) == {s \in S : status[s] \in statuses}

(* The counters that problem lists and rankings are served from are        *)
(* maintained by increments and decrements in four kinds of transaction,   *)
(* and still are at every moment what a recount would give.                *)
CountersExact ==
    /\ \A p \in Problem :
        problem_statistics[p] =
            [submission_count |-> Cardinality(SubmissionsTo(p)),
             accepted_count |-> Cardinality(Having(SubmissionsTo(p), {"accepted"}))]
    /\ \A k \in User \X Problem :
        attempt_summary[k] =
            [submission_count |-> Cardinality(AttemptsOf(k)),
             accepted |-> Cardinality(Having(AttemptsOf(k), {"accepted"})),
             failed |-> Cardinality(Having(AttemptsOf(k), FailedStatus))]

(* The WHERE clauses that keep the counters in range never refuse a worker *)
(* whose lease is good, which would stop its submission for ever.          *)
CountersNeverRefuse ==
    \A w \in Worker :
        /\ LocksItsRow(w, "marking") =>
            CountersAllow(HeldSubmission(w), "judging")
        /\ LocksItsRow(w, "finishing") =>
            IF completion[w] = Requeue
            THEN CountersAllow(HeldSubmission(w), "queued")
            ELSE CountersAllow(HeldSubmission(w), completion[w])

Lifecycle == INSTANCE SubmissionLifecycle

(* All of the above, seen through submissions and their audit trail alone, *)
(* is the simple life cycle: the refinement is the identity on status and  *)
(* history.                                                                *)
ImplementsLifecycle == Lifecycle!Spec

(* The audit trail of every submission is an unbroken path of statuses     *)
(* from the insert to the present, and every verdict in it was judged.     *)
AuditTrailIsAPath == Lifecycle!HistoryIsAPath /\ Lifecycle!VerdictsAreEarned

(* Every submission in the queue gets a verdict, after any finite number   *)
(* of crashes, lost answers, unavailable dependencies and late leases.     *)
EverySubmissionIsDecided ==
    \A s \in Submission :
        status[s] \in PendingStatus ~> status[s] \in FinalStatus
=============================================================================
