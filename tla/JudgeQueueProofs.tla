-------------------------- MODULE JudgeQueueProofs --------------------------
(***************************************************************************)
(* Proofs about JudgeQueue, for any number of submissions, workers, lease  *)
(* tokens, requests and faults.                                            *)
(***************************************************************************)
EXTENDS JudgeQueue, FiniteSetTheorems, SequenceTheorems, TLAPS

(***************************************************************************)
(* Typing of the operators the transactions are built from.                *)
(***************************************************************************)

(* A worker that holds a lease holds one of a submission, with a token.    *)
LEMMA HeldType ==
    ASSUME TypeInvariant, NEW w \in Worker, held[w] # Null
    PROVE  /\ held[w] \in Lease
           /\ HeldSubmission(w) \in Submission
           /\ held[w].attempt_no \in Nat
           /\ held[w].lease_token \in Token
           /\ held[w].lease_token # Null
BY NullAssumption DEF TypeInvariant, Lease, HeldSubmission

(* A row that is there is a row of the table.                              *)
LEMMA RowType ==
    ASSUME TypeInvariant, NEW s \in Submission, queue[s] # Null
    PROVE  /\ queue[s] \in QueueRow
           /\ queue[s].attempt_no \in Nat
BY DEF TypeInvariant, QueueRow

LEMMA NullIsNoRow ==
    ASSUME NEW row \in QueueRow
    PROVE  row # Null
BY NullAssumption

(* A status change keeps the types of the two tables it writes.            *)
LEMMA ChangeStatusType ==
    ASSUME TypeInvariant,
           NEW R \in SUBSET Submission,
           NEW to \in Status,
           ChangeStatus(R, to)
    PROVE  /\ status' \in [Submission -> Status]
           /\ history' \in [Submission -> Seq(HistoryRow)]
<1>1. \A s \in Submission :
        Append(history[s], [from_status |-> status[s], to_status |-> to])
            \in Seq(HistoryRow)
    <2>. TAKE s \in Submission
    <2>1. [from_status |-> status[s], to_status |-> to] \in HistoryRow
        BY DEF TypeInvariant, HistoryRow
    <2>2. history[s] \in Seq(HistoryRow)
        BY DEF TypeInvariant
    <2>. QED  BY <2>1, <2>2, AppendProperties
<1>. QED  BY <1>1 DEF ChangeStatus, TypeInvariant

SummaryType == [User \X Problem -> [submission_count : Nat, accepted : Nat, failed : Nat]]

(* No counter of a summary falls below zero when one status changes.       *)
LEMMA CountTransitionType ==
    ASSUME TypeInvariant,
           NEW s \in Submission,
           NEW to,
           CountTransition(s, to)
    PROVE  attempt_summary' \in SummaryType
<1>1. SummaryOf(s) \in User \X Problem
    BY SubmissionAssumption DEF SummaryOf
<1>2. attempt_summary \in SummaryType
    BY DEF TypeInvariant, SummaryType
<1>3. AcceptedWithout(s) \in Nat /\ FailedWithout(s) \in Nat
    BY <1>1, <1>2 DEF SummaryType, CountTransition, CountersAllow, AcceptedWithout,
        FailedWithout
<1>4. AcceptedWithout(s) + (IF to = "accepted" THEN 1 ELSE 0) \in Nat
    BY <1>3
<1>5. FailedWithout(s) + (IF to \in FailedStatus THEN 1 ELSE 0) \in Nat
    BY <1>3
<1>. QED  BY <1>1, <1>2, <1>4, <1>5 DEF SummaryType, CountTransition

(* Taking verdicts back keeps every counter a natural number.              *)
LEMMA RejudgeType ==
    ASSUME TypeInvariant,
           NEW R \in SUBSET Submission,
           Rejudge(R)
    PROVE  /\ status' \in [Submission -> Status]
           /\ history' \in [Submission -> Seq(HistoryRow)]
           /\ result' \in [Submission -> Verdict \cup {Null}]
           /\ queue' \in [Submission -> QueueRow \cup {Null}]
           /\ problem_statistics' \in
                [Problem -> [submission_count : Nat, accepted_count : Nat]]
           /\ attempt_summary' \in SummaryType
           /\ clock' \in 0 .. MaxEnqueue
<1>1. IsFiniteSet(R)
    BY SubmissionAssumption, FS_Subset
<1>3. ASSUME NEW p \in Problem
      PROVE  LET n == Cardinality({s \in R : ProblemOf[s] = p
                                             /\ status[s] = "accepted"})
             IN  n \in Nat /\ problem_statistics[p].accepted_count - n \in Nat
    <2>. DEFINE T == {s \in R : ProblemOf[s] = p /\ status[s] = "accepted"}
    <2>1. IsFiniteSet(T)
        BY <1>1, FS_Subset
    <2>2. Cardinality(T) \in Nat
        BY <2>1, FS_CardinalityType
    <2>3. Cardinality(T) <= problem_statistics[p].accepted_count
        BY DEF Rejudge
    <2>4. problem_statistics[p].accepted_count \in Nat
        BY DEF TypeInvariant
    <2>. QED  BY <2>2, <2>3, <2>4
<1>4. ASSUME NEW k \in User \X Problem
      PROVE  /\ attempt_summary[k].accepted - Cardinality(Accepted(k, R)) \in Nat
             /\ attempt_summary[k].failed - Cardinality(Failed(k, R)) \in Nat
    <2>1. IsFiniteSet(Accepted(k, R)) /\ IsFiniteSet(Failed(k, R))
        BY <1>1, FS_Subset DEF Accepted, Failed
    <2>2. Cardinality(Accepted(k, R)) \in Nat /\ Cardinality(Failed(k, R)) \in Nat
        BY <2>1, FS_CardinalityType
    <2>3. /\ Cardinality(Accepted(k, R)) <= attempt_summary[k].accepted
          /\ Cardinality(Failed(k, R)) <= attempt_summary[k].failed
        BY DEF Rejudge
    <2>4. attempt_summary[k].accepted \in Nat /\ attempt_summary[k].failed \in Nat
        BY DEF TypeInvariant
    <2>. QED  BY <2>2, <2>3, <2>4
<1>5. /\ status' \in [Submission -> Status]
      /\ history' \in [Submission -> Seq(HistoryRow)]
    <2>1. "queued" \in Status
        BY DEF Status, PendingStatus
    <2>. QED  BY <2>1, ChangeStatusType DEF Rejudge
<1>6. problem_statistics' \in
        [Problem -> [submission_count : Nat, accepted_count : Nat]]
    BY <1>3 DEF Rejudge, TypeInvariant
<1>7. attempt_summary' \in SummaryType
    BY <1>4 DEF Rejudge, TypeInvariant, SummaryType
<1>8. result' \in [Submission -> Verdict \cup {Null}]
    BY DEF Rejudge, ClearResult, TypeInvariant
<1>9. clock' \in 0 .. MaxEnqueue
    <2>1. clock < MaxEnqueue /\ clock' = clock + 1
        BY DEF Rejudge, Enqueue
    <2>2. clock \in 0 .. MaxEnqueue
        BY DEF TypeInvariant
    <2>. QED  BY <2>1, <2>2, BoundAssumption
<1>10. queue' \in [Submission -> QueueRow \cup {Null}]
    <2>1. clock + 1 \in Nat
        BY BoundAssumption DEF TypeInvariant
    <2>2. [priority |-> RejudgePriority, attempt_no |-> 0, lease_token |-> Null,
           leased_until |-> "null", created_at |-> clock + 1] \in QueueRow
        BY <2>1 DEF QueueRow
    <2>. QED  BY <2>2 DEF Rejudge, Enqueue, TypeInvariant
<1>. QED  BY <1>5, <1>6, <1>7, <1>8, <1>9, <1>10

(***************************************************************************)
(* TypeInvariant and LeaseInvariant are inductive together.                *)
(***************************************************************************)

Inv == TypeInvariant /\ LeaseInvariant

LEMMA FaultType ==
    ASSUME TypeInvariant, Fault \/ UNCHANGED faults
    PROVE  faults' \in 0 .. MaxFault
<1>1. faults \in 0 .. MaxFault
    BY DEF TypeInvariant
<1>. QED  BY <1>1, BoundAssumption DEF Fault

(* Moving a worker keeps the type of pc.                                   *)
LEMMA GotoType ==
    ASSUME TypeInvariant, NEW w \in Worker, NEW state \in WorkerState,
           Goto(w, state)
    PROVE  pc' \in [Worker -> WorkerState]
BY DEF TypeInvariant, Goto

LEMMA ForgetType ==
    ASSUME TypeInvariant, NEW w \in Worker, Forget(w)
    PROVE  /\ held' \in [Worker -> Lease \cup {Null}]
           /\ completion' \in [Worker -> Verdict \cup {Requeue, Null}]
BY DEF TypeInvariant, Forget

(* The steps of a worker that write no table.                              *)
LocalStep(w) ==
    /\ UNCHANGED <<tables, requests>>
    /\ Fault \/ UNCHANGED faults
    /\ \/ RollBackLease(w)
       \/ FindNoWork(w)
       \/ WaitEnds(w)
       \/ BeginTransaction(w)
       \/ FindLeaseStale(w)
       \/ \E verdict \in Verdict : Judge(w, verdict)
       \/ JudgeUnavailable(w)
       \/ Crash(w)
       \/ Restart(w)

LEMMA LocalStepType ==
    ASSUME TypeInvariant, NEW w \in Worker, LocalStep(w)
    PROVE  TypeInvariant'
<1>1. pc' \in [Worker -> WorkerState]
    <2>1. \E state \in WorkerState : Goto(w, state)
        BY DEF LocalStep, RollBackLease, FindNoWork, WaitEnds, BeginTransaction,
            FindLeaseStale, Judge, JudgeUnavailable, Crash, Restart, WorkerState
    <2>. QED  BY <2>1, GotoType
<1>2. held' \in [Worker -> Lease \cup {Null}]
    <2>1. Forget(w) \/ UNCHANGED held
        BY DEF LocalStep, RollBackLease, FindNoWork, WaitEnds, BeginTransaction,
            FindLeaseStale, Judge, JudgeUnavailable, Crash, Restart
    <2>. QED  BY <2>1, ForgetType DEF TypeInvariant
<1>3. completion' \in [Worker -> Verdict \cup {Requeue, Null}]
    <2>1. \/ Forget(w) 
          \/ UNCHANGED completion
          \/ \E c \in Verdict \cup {Requeue} :
                completion' = [completion EXCEPT ![w] = c]
        BY DEF LocalStep, RollBackLease, FindNoWork, WaitEnds, BeginTransaction,
            FindLeaseStale, Judge, JudgeUnavailable, Crash, Restart
    <2>. QED  BY <2>1, ForgetType DEF TypeInvariant
<1>4. faults' \in 0 .. MaxFault
    BY FaultType DEF LocalStep
<1>. QED  BY <1>1, <1>2, <1>3, <1>4 DEF LocalStep, tables, requests, TypeInvariant

(* The kinds of steps that the proofs below tell apart.                    *)
LEMMA KindsOfSteps ==
    ASSUME TypeInvariant, [Next]_vars
    PROVE  \/ \E s \in Submission : CreateSubmission(s)
           \/ \E R \in SUBSET Submission :
                /\ Rejudge(R)
                /\ rejudge_list' \in [Problem -> SUBSET Submission]
           \/ /\ UNCHANGED <<tables, workers, clock, faults>>
              /\ rejudge_list' \in [Problem -> SUBSET Submission]
           \/ \E w \in Worker, s \in Submission : ChooseRow(w, s)
           \/ \E w \in Worker : CommitLease(w)
           \/ \E w \in Worker : MarkJudging(w)
           \/ \E w \in Worker : Finish(w)
           \/ \E w \in Worker : LocalStep(w)
           \/ \E s \in Submission : LeaseRunsOut(s)
<1>1. CASE UNCHANGED vars
    BY <1>1 DEF vars, tables, workers, TypeInvariant
<1>2. CASE Request
    <2>1. ASSUME NEW s \in Submission, RejudgeSubmission(s)
          PROVE  Rejudge({s}) /\ rejudge_list' \in [Problem -> SUBSET Submission]
        BY <2>1 DEF RejudgeSubmission, TypeInvariant
    <2>2. ASSUME NEW p \in Problem, RejudgeProblem(p)
          PROVE  /\ Rejudge(rejudge_list[p])
                 /\ rejudge_list[p] \in SUBSET Submission
                 /\ rejudge_list' \in [Problem -> SUBSET Submission]
        BY <2>2 DEF RejudgeProblem, TypeInvariant
    <2>3. ASSUME NEW p \in Problem, ListForRejudge(p) \/ RejudgeProblemConflict(p)
          PROVE  /\ UNCHANGED <<tables, workers, clock, faults>>
                 /\ rejudge_list' \in [Problem -> SUBSET Submission]
        BY <2>3 DEF ListForRejudge, RejudgeProblemConflict, TypeInvariant
    <2>. QED  BY <1>2, <2>1, <2>2, <2>3 DEF Request
<1>3. ASSUME NEW w \in Worker, WorkerStep(w)
      PROVE  \/ \E s \in Submission : ChooseRow(w, s)
             \/ CommitLease(w)
             \/ MarkJudging(w)
             \/ Finish(w)
             \/ LocalStep(w)
    BY <1>3 DEF WorkerStep, LocalStep, FindNoWork, WaitEnds, BeginTransaction,
        FindLeaseStale, Judge, Restart
<1>4. ASSUME NEW w \in Worker, WorkerFault(w)
      PROVE  LocalStep(w)
    BY <1>4 DEF WorkerFault, LocalStep, RollBackLease, JudgeUnavailable, Crash
<1>. QED  BY <1>1, <1>2, <1>3, <1>4 DEF Next

LEMMA CreateSubmissionType ==
    ASSUME TypeInvariant, NEW s \in Submission, CreateSubmission(s)
    PROVE  TypeInvariant'
<1>1. /\ status' \in [Submission -> Status]
      /\ history' \in [Submission -> Seq(HistoryRow)]
    <2>1. "queued" \in Status
        BY DEF Status, PendingStatus
    <2>. QED  BY <2>1, ChangeStatusType DEF CreateSubmission
<1>2. attempt_summary' \in SummaryType
    <2>1. SummaryOf(s) \in User \X Problem
        BY SubmissionAssumption DEF SummaryOf
    <2>2. attempt_summary \in SummaryType
        BY DEF TypeInvariant, SummaryType
    <2>3. attempt_summary' =
            [attempt_summary EXCEPT ![SummaryOf(s)].submission_count = @ + 1]
        BY DEF CreateSubmission
    <2>. QED  BY <2>1, <2>2, <2>3 DEF SummaryType
<1>3. problem_statistics' \in
        [Problem -> [submission_count : Nat, accepted_count : Nat]]
    <2>1. ProblemOf[s] \in Problem
        BY SubmissionAssumption
    <2>2. problem_statistics \in
            [Problem -> [submission_count : Nat, accepted_count : Nat]]
        BY DEF TypeInvariant
    <2>3. problem_statistics' =
            [problem_statistics EXCEPT ![ProblemOf[s]].submission_count = @ + 1]
        BY DEF CreateSubmission
    <2>. QED  BY <2>1, <2>2, <2>3
<1>4. queue' \in [Submission -> QueueRow \cup {Null}]
    <2>1. clock + 1 \in Nat
        BY BoundAssumption DEF TypeInvariant
    <2>2. [priority |-> NormalPriority, attempt_no |-> 0, lease_token |-> Null,
           leased_until |-> "null", created_at |-> clock + 1] \in QueueRow
        BY <2>1 DEF QueueRow
    <2>. QED  BY <2>2 DEF CreateSubmission, Enqueue, TypeInvariant
<1>5. clock' \in 0 .. MaxEnqueue
    <2>1. clock < MaxEnqueue /\ clock' = clock + 1
        BY DEF CreateSubmission, Enqueue
    <2>2. clock \in 0 .. MaxEnqueue
        BY DEF TypeInvariant
    <2>. QED  BY <2>1, <2>2, BoundAssumption
<1>. QED
    BY <1>1, <1>2, <1>3, <1>4, <1>5
    DEF CreateSubmission, TypeInvariant, SummaryType

LEMMA ChooseRowType ==
    ASSUME TypeInvariant, NEW w \in Worker, NEW s \in Submission, ChooseRow(w, s)
    PROVE  /\ TypeInvariant'
           /\ FreshToken \in Token \ UsedTokens
<1>1. FreshToken \in Token \ UsedTokens
    BY DEF ChooseRow, FreshToken
<1>2. queue[s].attempt_no \in Nat
    BY RowType DEF ChooseRow, Leasable
<1>3. [submission |-> s, attempt_no |-> queue[s].attempt_no + 1,
       lease_token |-> FreshToken] \in Lease
    BY <1>1, <1>2 DEF Lease
<1>4. held' \in [Worker -> Lease \cup {Null}]
    BY <1>3 DEF ChooseRow, TypeInvariant
<1>5. pc' \in [Worker -> WorkerState]
    BY GotoType DEF ChooseRow, WorkerState
<1>. QED  BY <1>1, <1>4, <1>5 DEF ChooseRow, tables, requests, TypeInvariant

LEMMA LeaseTransactionType ==
    ASSUME TypeInvariant, LeaseInvariant, NEW w \in Worker,
           CommitLease(w)
    PROVE  TypeInvariant'
<1>. DEFINE s == HeldSubmission(w)
<1>1. held[w] # Null /\ queue[s] # Null
    BY DEF CommitLease, LeaseTransaction, LeaseInvariant,
        WorkersHoldLeases, LeasingLocksItsRow
<1>2. s \in Submission /\ held[w].attempt_no \in Nat /\ held[w].lease_token \in Token
    BY <1>1, HeldType
<1>3. queue[s] \in QueueRow
    BY <1>1, <1>2, RowType
<1>4. [queue[s] EXCEPT !.attempt_no = held[w].attempt_no,
                       !.lease_token = held[w].lease_token,
                       !.leased_until = "ahead"] \in QueueRow
    BY <1>2, <1>3 DEF QueueRow
<1>5. queue' \in [Submission -> QueueRow \cup {Null}]
    BY <1>2, <1>4 DEF CommitLease, LeaseTransaction, TypeInvariant
<1>6. pc' \in [Worker -> WorkerState]
    BY GotoType DEF CommitLease, WorkerState
<1>7. held' \in [Worker -> Lease \cup {Null}]
    BY DEF CommitLease, TypeInvariant
<1>8. faults' \in 0 .. MaxFault
    BY FaultType DEF CommitLease
<1>. QED
    BY <1>5, <1>6, <1>7, <1>8
    DEF CommitLease, LeaseTransaction, accounts, requests,
        TypeInvariant

LEMMA MarkJudgingType ==
    ASSUME TypeInvariant, LeaseInvariant, NEW w \in Worker,
           MarkJudging(w)
    PROVE  TypeInvariant'
<1>. DEFINE s == HeldSubmission(w)
<1>1. MarkJudgingTransaction(w)
    BY DEF MarkJudging
<1>2. s \in Submission
    <2>1. held[w] # Null
        BY <1>1 DEF MarkJudgingTransaction, LocksItsRow, LeaseInvariant,
            WorkersHoldLeases
    <2>. QED  BY <2>1, HeldType
<1>3. /\ status' \in [Submission -> Status]
      /\ history' \in [Submission -> Seq(HistoryRow)]
    <2>1. "judging" \in Status /\ {s} \in SUBSET Submission
        BY <1>2 DEF Status, PendingStatus
    <2>. QED  BY <1>1, <2>1, ChangeStatusType DEF MarkJudgingTransaction
<1>4. attempt_summary' \in SummaryType
    BY <1>1, <1>2, CountTransitionType DEF MarkJudgingTransaction
<1>5. pc' \in [Worker -> WorkerState]
    BY GotoType DEF MarkJudging, WorkerState
<1>6. faults' \in 0 .. MaxFault
    BY FaultType DEF MarkJudging
<1>. QED
    BY <1>1, <1>3, <1>4, <1>5, <1>6
    DEF MarkJudgingTransaction, requests, TypeInvariant, SummaryType

(* What a worker knows in the transaction that ends its attempt.           *)
LEMMA FinishFacts ==
    ASSUME TypeInvariant, LeaseInvariant, NEW w \in Worker,
           Finish(w)
    PROVE  /\ pc[w] = "finishing"
           /\ held[w] # Null
           /\ HeldSubmission(w) \in Submission
           /\ HoldsLease(w)
           /\ status[HeldSubmission(w)] = "judging"
           /\ RequeueTransaction(w) \/ FinalizeTransaction(w)
<1>1. RequeueTransaction(w) \/ FinalizeTransaction(w)
    BY DEF Finish
<1>2. pc[w] = "finishing" /\ HoldsLease(w)
    BY <1>1 DEF RequeueTransaction, FinalizeTransaction, LocksItsRow
<1>3. held[w] # Null
    BY <1>2 DEF LeaseInvariant, WorkersHoldLeases
<1>4. status[HeldSubmission(w)] = "judging"
    BY <1>2 DEF LeaseInvariant, JudgingIsLeased
<1>. QED  BY <1>1, <1>2, <1>3, <1>4, HeldType

LEMMA FinishType ==
    ASSUME TypeInvariant, LeaseInvariant, NEW w \in Worker,
           Finish(w)
    PROVE  TypeInvariant'
<1>. DEFINE s == HeldSubmission(w)
<1>1. s \in Submission
    BY FinishFacts
<1>2. queue[s] \in QueueRow
    BY <1>1, FinishFacts, RowType DEF HoldsLease
<1>3. /\ status' \in [Submission -> Status]
      /\ history' \in [Submission -> Seq(HistoryRow)]
      /\ attempt_summary' \in SummaryType
      /\ queue' \in [Submission -> QueueRow \cup {Null}]
      /\ result' \in [Submission -> Verdict \cup {Null}]
      /\ problem_statistics' \in
            [Problem -> [submission_count : Nat, accepted_count : Nat]]
      /\ UNCHANGED <<user_statistics, requests>>
    <2>1. {s} \in SUBSET Submission
        BY <1>1
    <2>2. CASE RequeueTransaction(w)
        <3>1. "queued" \in Status
            BY DEF Status, PendingStatus
        <3>2. [queue[s] EXCEPT !.lease_token = Null, !.leased_until = "null"]
                \in QueueRow
            BY <1>2 DEF QueueRow
        <3>3. queue' \in [Submission -> QueueRow \cup {Null}]
            BY <1>1, <2>2, <3>2 DEF RequeueTransaction, ReleaseLease, TypeInvariant
        <3>4. /\ status' \in [Submission -> Status]
              /\ history' \in [Submission -> Seq(HistoryRow)]
            BY <2>1, <2>2, <3>1, ChangeStatusType DEF RequeueTransaction
        <3>5. attempt_summary' \in SummaryType
            BY <1>1, <2>2, CountTransitionType DEF RequeueTransaction
        <3>. QED
            BY <2>2, <3>3, <3>4, <3>5 DEF RequeueTransaction, TypeInvariant
    <2>3. CASE FinalizeTransaction(w)
        <3>1. completion[w] \in Status /\ completion[w] \in Verdict
            BY <2>3, NullAssumption DEF FinalizeTransaction, TypeInvariant, Status,
                FinalStatus, FailedStatus, Requeue
        <3>2. /\ status' \in [Submission -> Status]
              /\ history' \in [Submission -> Seq(HistoryRow)]
            BY <2>1, <2>3, <3>1, ChangeStatusType DEF FinalizeTransaction
        <3>3. attempt_summary' \in SummaryType
            BY <1>1, <2>3, CountTransitionType DEF FinalizeTransaction
        <3>4. problem_statistics' \in
                [Problem -> [submission_count : Nat, accepted_count : Nat]]
            <4>1. ProblemOf[s] \in Problem
                BY <1>1, SubmissionAssumption
            <4>2. problem_statistics \in
                    [Problem -> [submission_count : Nat, accepted_count : Nat]]
                BY DEF TypeInvariant
            <4>3. \/ problem_statistics' = problem_statistics
                  \/ problem_statistics' =
                        [problem_statistics EXCEPT ![ProblemOf[s]].accepted_count = @ + 1]
                BY <2>3 DEF FinalizeTransaction
            <4>. QED  BY <4>1, <4>2, <4>3
        <3>5. /\ queue' \in [Submission -> QueueRow \cup {Null}]
              /\ result' \in [Submission -> Verdict \cup {Null}]
            BY <2>3, <3>1 DEF FinalizeTransaction, Dequeue, TypeInvariant
        <3>. QED
            BY <2>3, <3>2, <3>3, <3>4, <3>5 DEF FinalizeTransaction
    <2>. QED  BY <2>2, <2>3, FinishFacts
<1>4. pc' \in [Worker -> WorkerState]
    BY GotoType DEF Finish, WorkerState
<1>5. /\ held' \in [Worker -> Lease \cup {Null}]
      /\ completion' \in [Worker -> Verdict \cup {Requeue, Null}]
    BY ForgetType DEF Finish, TypeInvariant
<1>6. faults' \in 0 .. MaxFault
    BY FaultType DEF Finish
<1>. QED
    BY <1>3, <1>4, <1>5, <1>6 DEF requests, TypeInvariant, SummaryType

LEMMA LeaseRunsOutType ==
    ASSUME TypeInvariant, NEW s \in Submission, LeaseRunsOut(s)
    PROVE  TypeInvariant'
<1>1. queue[s] \in QueueRow
    BY RowType DEF LeaseRunsOut
<1>2. [queue[s] EXCEPT !.leased_until = "passed"] \in QueueRow
    BY <1>1 DEF QueueRow
<1>3. queue' \in [Submission -> QueueRow \cup {Null}]
    BY <1>2 DEF LeaseRunsOut, TypeInvariant
<1>4. faults' \in 0 .. MaxFault
    BY FaultType DEF LeaseRunsOut
<1>. QED
    BY <1>3, <1>4
    DEF LeaseRunsOut, accounts, requests, workers, TypeInvariant

LEMMA TypeStep ==
    ASSUME TypeInvariant, LeaseInvariant, [Next]_vars
    PROVE  TypeInvariant'
<1>1. ASSUME NEW R \in SUBSET Submission, Rejudge(R),
             rejudge_list' \in [Problem -> SUBSET Submission]
      PROVE  TypeInvariant'
    <2>1. UNCHANGED <<user_statistics, pc, held, completion, faults>>
        BY <1>1 DEF Rejudge
    <2>. QED  BY <1>1, <2>1, RejudgeType DEF TypeInvariant, SummaryType
<1>2. ASSUME UNCHANGED <<tables, workers, clock, faults>>,
             rejudge_list' \in [Problem -> SUBSET Submission]
      PROVE  TypeInvariant'
    BY <1>2 DEF tables, workers, TypeInvariant
<1>. QED
    BY <1>1, <1>2, KindsOfSteps, CreateSubmissionType, ChooseRowType,
        LeaseTransactionType, MarkJudgingType, FinishType, LocalStepType,
        LeaseRunsOutType

(* A transaction that enqueues finds no row and leaves one without lease:  *)
(* it disturbs no worker, not even one of an earlier life of a submission. *)
LEMMA EnqueueKeepsLeases ==
    ASSUME TypeInvariant, LeaseInvariant,
           NEW R \in SUBSET Submission,
           NEW row_priority \in {NormalPriority, RejudgePriority},
           ChangeStatus(R, "queued"), Enqueue(R, row_priority),
           UNCHANGED <<pc, held>>
    PROVE  LeaseInvariant'
<1>1. \A s \in Submission :
        /\ s \in R => /\ queue[s] = Null
                      /\ queue'[s] # Null
                      /\ queue'[s].lease_token = Null
                      /\ status'[s] = "queued"
        /\ s \notin R => queue'[s] = queue[s] /\ status'[s] = status[s]
    <2>. DEFINE row == [priority |-> row_priority, attempt_no |-> 0,
                        lease_token |-> Null, leased_until |-> "null",
                        created_at |-> clock + 1]
    <2>1. clock + 1 \in Nat
        BY BoundAssumption DEF TypeInvariant
    <2>2. row # Null
        <3>1. row \in QueueRow
            BY <2>1 DEF QueueRow
        <3>. QED  BY <3>1, NullIsNoRow
    <2>3. row.lease_token = Null
        OBVIOUS
    <2>4. queue' = [s \in Submission |-> IF s \in R THEN row ELSE queue[s]]
        BY DEF Enqueue
    <2>5. \A s \in R : queue[s] = Null
        BY DEF Enqueue
    <2>. HIDE DEF row
    <2>. QED  BY <2>2, <2>3, <2>4, <2>5 DEF ChangeStatus
<1>2. \A w \in Worker : HeldSubmission(w)' = HeldSubmission(w)
    BY DEF HeldSubmission
<1>3. \A w \in Worker : HoldsLease(w)' /\ pc[w] \notin {"idle", "waiting", "down"} =>
        HoldsLease(w) /\ HeldSubmission(w) \notin R
    <2>. SUFFICES ASSUME NEW w \in Worker, HoldsLease(w)',
                         pc[w] \notin {"idle", "waiting", "down"}
                  PROVE  HoldsLease(w) /\ HeldSubmission(w) \notin R
        OBVIOUS
    <2>1. held[w] # Null
        BY DEF LeaseInvariant, WorkersHoldLeases
    <2>. QED  BY <1>1, <1>2, <2>1, HeldType DEF HoldsLease
<1>4. WorkersHoldLeases' /\ TokensAreDistinct'
    BY DEF LeaseInvariant, WorkersHoldLeases, TokensAreDistinct
<1>5. LeasingLocksItsRow'
    <2>1. \A w \in Worker : pc[w] = "leasing" =>
            HeldSubmission(w) \in Submission \ R
        BY <1>1, HeldType DEF LeaseInvariant, WorkersHoldLeases, LeasingLocksItsRow
    <2>. QED  BY <1>1, <1>2, <2>1 DEF LeaseInvariant, LeasingLocksItsRow
<1>6. QueueMatchesStatus'
    BY <1>1 DEF LeaseInvariant, QueueMatchesStatus, PendingStatus
<1>7. JudgingIsLeased'
    <2>1. \A s \in Submission : status'[s] = "judging" => queue'[s].lease_token # Null
        BY <1>1 DEF LeaseInvariant, JudgingIsLeased
    <2>2. ASSUME NEW w \in Worker, pc[w] \in {"judging", "completing", "finishing"},
                 HoldsLease(w)'
          PROVE  status'[HeldSubmission(w)] = "judging"
        <3>1. HoldsLease(w) /\ HeldSubmission(w) \notin R
            BY <1>3, <2>2
        <3>2. HeldSubmission(w) \in Submission
            BY <2>2, HeldType DEF LeaseInvariant, WorkersHoldLeases
        <3>. QED  BY <1>1, <2>2, <3>1, <3>2 DEF LeaseInvariant, JudgingIsLeased
    <2>. QED  BY <1>2, <2>1, <2>2 DEF JudgingIsLeased
<1>. QED  BY <1>4, <1>5, <1>6, <1>7 DEF LeaseInvariant

(* Choosing a row locks it and brings a token nobody remembers.            *)
LEMMA ChooseRowKeepsLeases ==
    ASSUME TypeInvariant, LeaseInvariant,
           NEW w \in Worker, NEW s \in Submission, ChooseRow(w, s)
    PROVE  LeaseInvariant'
<1>. DEFINE lease == [submission |-> s, attempt_no |-> queue[s].attempt_no + 1,
                      lease_token |-> FreshToken]
<1>1. /\ held' = [held EXCEPT ![w] = lease]
      /\ pc' = [pc EXCEPT ![w] = "leasing"]
      /\ pc[w] = "idle"
      /\ UNCHANGED <<status, queue>>
    BY DEF ChooseRow, Goto, tables
<1>2. lease \in Lease
    <2>1. queue[s].attempt_no \in Nat
        BY RowType DEF ChooseRow, Leasable
    <2>. QED  BY <2>1, ChooseRowType DEF Lease
<1>3. lease # Null /\ lease.submission = s /\ lease.lease_token = FreshToken
    BY <1>2, NullAssumption
<1>. HIDE DEF lease
<1>4. /\ held'[w] = lease /\ pc'[w] = "leasing"
      /\ \A v \in Worker \ {w} : held'[v] = held[v] /\ pc'[v] = pc[v]
    BY <1>1 DEF TypeInvariant
<1>5. /\ HeldSubmission(w)' = s
      /\ \A v \in Worker \ {w} : HeldSubmission(v)' = HeldSubmission(v)
    BY <1>3, <1>4 DEF HeldSubmission
<1>6. WorkersHoldLeases'
    BY <1>3, <1>4 DEF LeaseInvariant, WorkersHoldLeases
<1>7. LeasingLocksItsRow'
    <2>1. /\ queue[s] # Null
          /\ queue[s].leased_until # "ahead"
          /\ \A v \in Worker : pc[v] = "leasing" => HeldSubmission(v) # s
        BY DEF ChooseRow, Leasable, Locked
    <2>. QED
        BY <1>1, <1>4, <1>5, <2>1 DEF LeaseInvariant, LeasingLocksItsRow
<1>8. TokensAreDistinct'
    <2>1. \A v \in Worker : held[v] # Null => held[v].lease_token # FreshToken
        BY ChooseRowType DEF UsedTokens
    <2>. QED
        BY <1>3, <1>4, <2>1 DEF LeaseInvariant, TokensAreDistinct
<1>9. QueueMatchesStatus'
    BY <1>1 DEF LeaseInvariant, QueueMatchesStatus
<1>10. JudgingIsLeased'
    BY <1>1, <1>4, <1>5 DEF LeaseInvariant, JudgingIsLeased, HoldsLease
<1>. QED  BY <1>6, <1>7, <1>8, <1>9, <1>10 DEF LeaseInvariant

(* A committed lease takes the row from whoever had it.                    *)
LEMMA LeaseTransactionKeepsLeases ==
    ASSUME TypeInvariant, LeaseInvariant, NEW w \in Worker,
           CommitLease(w)
    PROVE  LeaseInvariant'
<1>. DEFINE s == HeldSubmission(w)
            row == [queue[s] EXCEPT !.attempt_no = held[w].attempt_no,
                                    !.lease_token = held[w].lease_token,
                                    !.leased_until = "ahead"]
<1>1. /\ pc[w] = "leasing" /\ held[w] # Null /\ queue[s] # Null
    BY DEF CommitLease, LeaseTransaction, LeaseInvariant,
        WorkersHoldLeases, LeasingLocksItsRow
<1>2. s \in Submission /\ held[w].lease_token # Null
    BY <1>1, HeldType
<1>3. row \in QueueRow /\ row.lease_token = held[w].lease_token
    <2>1. queue[s] \in QueueRow
        BY <1>1, <1>2, RowType
    <2>2. held[w].attempt_no \in Nat /\ held[w].lease_token \in Token
        BY <1>1, HeldType
    <2>. QED  BY <2>1, <2>2 DEF QueueRow
<1>4. queue' = [queue EXCEPT ![s] = row] /\ status' = status
    BY DEF CommitLease, LeaseTransaction
<1>. HIDE DEF row
<1>5. /\ queue'[s] # Null /\ queue'[s].lease_token = held[w].lease_token
      /\ \A r \in Submission \ {s} : queue'[r] = queue[r]
    BY <1>2, <1>3, <1>4, NullIsNoRow DEF TypeInvariant
<1>6. /\ \/ pc'[w] = "leased" /\ held'[w] = held[w]
         \/ pc'[w] = "idle" /\ held'[w] = Null
      /\ \A v \in Worker \ {w} : pc'[v] = pc[v] /\ held'[v] = held[v]
    BY DEF CommitLease, Goto, TypeInvariant
<1>7. \A v \in Worker \ {w} : HeldSubmission(v)' = HeldSubmission(v)
    BY <1>6 DEF HeldSubmission
<1>8. WorkersHoldLeases' /\ TokensAreDistinct'
    BY <1>1, <1>6 DEF LeaseInvariant, WorkersHoldLeases, TokensAreDistinct
<1>9. LeasingLocksItsRow'
    <2>1. \A v \in Worker : pc'[v] = "leasing" =>
            /\ v # w
            /\ pc[v] = "leasing"
            /\ HeldSubmission(v)' = HeldSubmission(v)
            /\ HeldSubmission(v) \in Submission \ {s}
            /\ queue'[HeldSubmission(v)] = queue[HeldSubmission(v)]
        BY <1>1, <1>5, <1>6, <1>7, HeldType DEF LeaseInvariant, WorkersHoldLeases,
            LeasingLocksItsRow
    <2>. QED  BY <2>1 DEF LeaseInvariant, LeasingLocksItsRow
<1>10. QueueMatchesStatus'
    BY <1>1, <1>2, <1>4, <1>5 DEF LeaseInvariant, QueueMatchesStatus
<1>11. JudgingIsLeased'
    <2>1. \A r \in Submission : status'[r] = "judging" => queue'[r].lease_token # Null
        BY <1>2, <1>4, <1>5 DEF LeaseInvariant, JudgingIsLeased
    <2>2. ASSUME NEW v \in Worker, pc'[v] \in {"judging", "completing", "finishing"},
                 HoldsLease(v)'
          PROVE  status'[HeldSubmission(v)'] = "judging"
        <3>1. v # w /\ pc[v] = pc'[v] /\ held'[v] = held[v]
            BY <1>6, <2>2
        <3>2. held[v] # Null
            BY <2>2, <3>1 DEF LeaseInvariant, WorkersHoldLeases
        <3>3. HeldSubmission(v) # s
            BY <1>1, <1>5, <1>7, <2>2, <3>1, <3>2 DEF HoldsLease, LeaseInvariant,
                TokensAreDistinct
        <3>4. HoldsLease(v)
            BY <1>5, <1>7, <2>2, <3>1, <3>2, <3>3, HeldType DEF HoldsLease
        <3>. QED
            BY <1>4, <1>7, <2>2, <3>1, <3>4 DEF LeaseInvariant, JudgingIsLeased
    <2>. QED  BY <2>1, <2>2 DEF JudgingIsLeased
<1>. QED  BY <1>8, <1>9, <1>10, <1>11 DEF LeaseInvariant

(* Marking a submission needs its row's lease, and keeps it.               *)
LEMMA MarkJudgingKeepsLeases ==
    ASSUME TypeInvariant, LeaseInvariant, NEW w \in Worker,
           MarkJudging(w)
    PROVE  LeaseInvariant'
<1>. DEFINE s == HeldSubmission(w)
<1>1. /\ pc[w] = "marking" /\ HoldsLease(w)
      /\ ChangeStatus({s}, "judging")
      /\ UNCHANGED <<queue, held>>
    BY DEF MarkJudging, MarkJudgingTransaction, LocksItsRow
<1>2. held[w] # Null
    BY <1>1 DEF LeaseInvariant, WorkersHoldLeases
<1>3. s \in Submission /\ held[w].lease_token # Null
    BY <1>2, HeldType
<1>4. /\ status'[s] = "judging"
      /\ \A r \in Submission \ {s} : status'[r] = status[r]
    BY <1>1, <1>3 DEF ChangeStatus
<1>5. /\ pc'[w] \in {"judging", "leased"}
      /\ \A v \in Worker \ {w} : pc'[v] = pc[v]
    BY DEF MarkJudging, Goto, TypeInvariant
<1>6. queue[s] # Null /\ queue[s].lease_token = held[w].lease_token
    BY <1>1 DEF HoldsLease
<1>7. \A v \in Worker :
        /\ HeldSubmission(v)' = HeldSubmission(v)
        /\ HoldsLease(v)' = HoldsLease(v)
    BY <1>1 DEF HeldSubmission, HoldsLease
<1>8. WorkersHoldLeases' /\ TokensAreDistinct'
    BY <1>1, <1>2, <1>5 DEF LeaseInvariant, WorkersHoldLeases, TokensAreDistinct
<1>9. LeasingLocksItsRow'
    BY <1>1, <1>5, <1>7 DEF LeaseInvariant, LeasingLocksItsRow
<1>10. QueueMatchesStatus'
    BY <1>1, <1>3, <1>4, <1>6 DEF LeaseInvariant, QueueMatchesStatus, PendingStatus
<1>11. JudgingIsLeased'
    <2>1. \A r \in Submission : status'[r] = "judging" => queue'[r].lease_token # Null
        BY <1>1, <1>3, <1>4, <1>6 DEF LeaseInvariant, JudgingIsLeased
    <2>2. ASSUME NEW v \in Worker, pc'[v] \in {"judging", "completing", "finishing"},
                 HoldsLease(v)'
          PROVE  status'[HeldSubmission(v)] = "judging"
        <3>1. CASE HeldSubmission(v) = s
            BY <1>4, <3>1
        <3>2. CASE HeldSubmission(v) # s
            <4>1. v # w /\ pc[v] = pc'[v] /\ HoldsLease(v)
                BY <1>5, <1>7, <2>2, <3>2
            <4>2. status[HeldSubmission(v)] = "judging"
                BY <2>2, <4>1 DEF LeaseInvariant, JudgingIsLeased
            <4>3. HeldSubmission(v) \in Submission
                BY <2>2, <4>1, HeldType DEF LeaseInvariant, WorkersHoldLeases
            <4>. QED  BY <1>4, <3>2, <4>2, <4>3
        <3>. QED  BY <3>1, <3>2
    <2>. QED  BY <1>7, <2>1, <2>2 DEF JudgingIsLeased
<1>. QED  BY <1>8, <1>9, <1>10, <1>11 DEF LeaseInvariant

(* Ending an attempt gives up the row under its token; with it goes the    *)
(* lease, so that nobody is left who could answer for the old attempt.     *)
LEMMA FinishKeepsLeases ==
    ASSUME TypeInvariant, LeaseInvariant, NEW w \in Worker,
           Finish(w)
    PROVE  LeaseInvariant'
<1>. DEFINE s == HeldSubmission(w)
<1>1. /\ pc[w] = "finishing" /\ held[w] # Null /\ s \in Submission
      /\ held[w].lease_token # Null
      /\ HoldsLease(w) /\ ~Locked(s)
    BY FinishFacts, HeldType DEF RequeueTransaction, FinalizeTransaction, LocksItsRow
<1>2. /\ status'[s] # "judging"
      /\ queue'[s] # Null <=> status'[s] \in PendingStatus
      /\ queue'[s] # Null => queue'[s].lease_token = Null
      /\ \A r \in Submission \ {s} : status'[r] = status[r] /\ queue'[r] = queue[r]
    <2>1. CASE RequeueTransaction(w)
        <3>. DEFINE row == [queue[s] EXCEPT !.lease_token = Null,
                                            !.leased_until = "null"]
        <3>1. queue[s] \in QueueRow
            BY <1>1, RowType DEF HoldsLease
        <3>2. row \in QueueRow /\ row.lease_token = Null
            BY <3>1 DEF QueueRow
        <3>3. queue' = [queue EXCEPT ![s] = row] /\ ChangeStatus({s}, "queued")
            BY <2>1 DEF RequeueTransaction, ReleaseLease
        <3>. HIDE DEF row
        <3>. QED
            BY <1>1, <3>2, <3>3, NullIsNoRow DEF ChangeStatus, PendingStatus,
                TypeInvariant
    <2>2. CASE FinalizeTransaction(w)
        <3>1. completion[w] \notin PendingStatus
            BY <2>2 DEF FinalizeTransaction, FinalStatus, FailedStatus, PendingStatus
        <3>. QED
            BY <1>1, <2>2, <3>1 DEF FinalizeTransaction, Dequeue, ChangeStatus,
                PendingStatus, TypeInvariant
    <2>. QED  BY <2>1, <2>2, FinishFacts
<1>3. /\ \/ pc'[w] = "idle" /\ held'[w] = Null
         \/ pc'[w] = "completing" /\ held'[w] = held[w]
      /\ \A v \in Worker \ {w} : pc'[v] = pc[v] /\ held'[v] = held[v]
    BY DEF Finish, Goto, Forget, TypeInvariant
<1>4. /\ \A v \in Worker \ {w} : HeldSubmission(v)' = HeldSubmission(v)
      /\ held'[w] # Null => HeldSubmission(w)' = s
    BY <1>3 DEF HeldSubmission
<1>5. WorkersHoldLeases' /\ TokensAreDistinct'
    BY <1>1, <1>3 DEF LeaseInvariant, WorkersHoldLeases, TokensAreDistinct
<1>6. LeasingLocksItsRow'
    <2>1. \A v \in Worker : pc'[v] = "leasing" =>
            /\ v # w
            /\ pc[v] = "leasing"
            /\ HeldSubmission(v)' = HeldSubmission(v)
            /\ HeldSubmission(v) \in Submission \ {s}
            /\ queue'[HeldSubmission(v)] = queue[HeldSubmission(v)]
        BY <1>1, <1>2, <1>3, <1>4, HeldType DEF LeaseInvariant, WorkersHoldLeases,
            Locked
    <2>. QED  BY <2>1 DEF LeaseInvariant, LeasingLocksItsRow
<1>7. QueueMatchesStatus'
    BY <1>1, <1>2 DEF LeaseInvariant, QueueMatchesStatus
<1>8. JudgingIsLeased'
    <2>1. \A r \in Submission : status'[r] = "judging" => queue'[r].lease_token # Null
        BY <1>1, <1>2 DEF LeaseInvariant, JudgingIsLeased
    <2>2. ASSUME NEW v \in Worker, pc'[v] \in {"judging", "completing", "finishing"},
                 HoldsLease(v)'
          PROVE  status'[HeldSubmission(v)'] = "judging"
        <3>1. held'[v] # Null /\ held'[v] = held[v] /\ HeldSubmission(v)' = HeldSubmission(v)
            BY <1>3, <1>4, <1>5, <2>2 DEF WorkersHoldLeases
        <3>2. HeldSubmission(v) \in Submission /\ held[v].lease_token # Null
            BY <3>1, HeldType
        <3>3. HeldSubmission(v) # s
            BY <1>2, <2>2, <3>1, <3>2 DEF HoldsLease
        <3>4. v # w /\ HoldsLease(v)
            BY <1>2, <2>2, <3>1, <3>2, <3>3 DEF HoldsLease
        <3>. QED
            BY <1>2, <1>3, <2>2, <3>1, <3>2, <3>3, <3>4 DEF LeaseInvariant,
                JudgingIsLeased
    <2>. QED  BY <2>1, <2>2 DEF JudgingIsLeased
<1>. QED  BY <1>5, <1>6, <1>7, <1>8 DEF LeaseInvariant

(* A step that writes no table moves one worker, which keeps its lease or  *)
(* forgets it, and never gets into a lease transaction.                    *)
LEMMA LocalStepKeepsLeases ==
    ASSUME TypeInvariant, LeaseInvariant, NEW w \in Worker, LocalStep(w)
    PROVE  LeaseInvariant'
<1>1. UNCHANGED <<status, queue>>
    BY DEF LocalStep, tables
<1>2. /\ \/ pc'[w] \in {"idle", "waiting", "down"} /\ held'[w] = Null
         \/ /\ pc'[w] \in {"marking", "completing", "finishing"}
            /\ pc[w] \in {"leased", "judging", "completing"}
            /\ pc'[w] \in {"completing", "finishing"} => pc[w] # "leased"
            /\ held'[w] = held[w]
      /\ \A v \in Worker \ {w} : pc'[v] = pc[v] /\ held'[v] = held[v]
    BY DEF LocalStep, RollBackLease, FindNoWork, WaitEnds, BeginTransaction,
        FindLeaseStale, Judge, JudgeUnavailable, Crash, Restart, Goto, Forget,
        TypeInvariant, LeaseInvariant, WorkersHoldLeases
<1>3. \A v \in Worker : held'[v] # Null =>
        /\ held'[v] = held[v]
        /\ HeldSubmission(v)' = HeldSubmission(v)
        /\ HoldsLease(v)' = HoldsLease(v)
    BY <1>1, <1>2 DEF HeldSubmission, HoldsLease
<1>4. WorkersHoldLeases'
    BY <1>2 DEF LeaseInvariant, WorkersHoldLeases
<1>5. TokensAreDistinct'
    BY <1>3 DEF LeaseInvariant, TokensAreDistinct
<1>6. LeasingLocksItsRow'
    BY <1>1, <1>2, <1>3, <1>4 DEF LeaseInvariant, LeasingLocksItsRow, WorkersHoldLeases
<1>7. QueueMatchesStatus'
    BY <1>1 DEF LeaseInvariant, QueueMatchesStatus
<1>8. JudgingIsLeased'
    BY <1>1, <1>2, <1>3, <1>4 DEF LeaseInvariant, JudgingIsLeased, WorkersHoldLeases
<1>. QED  BY <1>4, <1>5, <1>6, <1>7, <1>8 DEF LeaseInvariant

(* Time takes a lease from nobody by itself: the row keeps its token.      *)
LEMMA LeaseRunsOutKeepsLeases ==
    ASSUME TypeInvariant, LeaseInvariant, NEW s \in Submission, LeaseRunsOut(s)
    PROVE  LeaseInvariant'
<1>. DEFINE row == [queue[s] EXCEPT !.leased_until = "passed"]
<1>1. /\ queue[s] # Null
      /\ queue[s].leased_until = "ahead"
      /\ queue' = [queue EXCEPT ![s] = row]
      /\ UNCHANGED <<status, pc, held>>
    BY DEF LeaseRunsOut, workers
<1>2. /\ row \in QueueRow
      /\ row.lease_token = queue[s].lease_token
      /\ row.attempt_no = queue[s].attempt_no
    <2>1. queue[s] \in QueueRow
        BY <1>1, RowType
    <2>. QED  BY <2>1 DEF QueueRow
<1>. HIDE DEF row
<1>3. /\ queue'[s] = row /\ row # Null
      /\ \A r \in Submission \ {s} : queue'[r] = queue[r]
    BY <1>1, <1>2, NullIsNoRow DEF TypeInvariant
<1>4. \A v \in Worker : HeldSubmission(v)' = HeldSubmission(v)
    BY <1>1 DEF HeldSubmission
<1>5. \A v \in Worker : held[v] # Null /\ HoldsLease(v)' => HoldsLease(v)
    BY <1>1, <1>2, <1>3, <1>4, HeldType DEF HoldsLease
<1>6. WorkersHoldLeases' /\ TokensAreDistinct'
    BY <1>1 DEF LeaseInvariant, WorkersHoldLeases, TokensAreDistinct
<1>7. LeasingLocksItsRow'
    <2>1. \A v \in Worker : pc[v] = "leasing" =>
            /\ HeldSubmission(v) \in Submission \ {s}
            /\ queue'[HeldSubmission(v)] = queue[HeldSubmission(v)]
        BY <1>1, <1>3, HeldType DEF LeaseInvariant, WorkersHoldLeases,
            LeasingLocksItsRow
    <2>. QED  BY <1>1, <1>4, <2>1 DEF LeaseInvariant, LeasingLocksItsRow
<1>8. QueueMatchesStatus'
    BY <1>1, <1>3 DEF LeaseInvariant, QueueMatchesStatus
<1>9. JudgingIsLeased'
    <2>1. \A r \in Submission : status'[r] = "judging" => queue'[r].lease_token # Null
        BY <1>1, <1>2, <1>3 DEF LeaseInvariant, JudgingIsLeased
    <2>. QED
        BY <1>1, <1>4, <1>5, <2>1 DEF LeaseInvariant, JudgingIsLeased, WorkersHoldLeases
<1>. QED  BY <1>6, <1>7, <1>8, <1>9 DEF LeaseInvariant

LEMMA LeaseStep ==
    ASSUME TypeInvariant, LeaseInvariant, [Next]_vars
    PROVE  LeaseInvariant'
<1>1. ASSUME NEW s \in Submission, CreateSubmission(s)
      PROVE  LeaseInvariant'
    <2>1. {s} \in SUBSET Submission
        OBVIOUS
    <2>. QED  BY <1>1, <2>1, EnqueueKeepsLeases DEF CreateSubmission
<1>2. ASSUME NEW R \in SUBSET Submission, Rejudge(R)
      PROVE  LeaseInvariant'
    BY <1>2, EnqueueKeepsLeases DEF Rejudge
<1>3. ASSUME UNCHANGED <<tables, workers, clock, faults>>
      PROVE  LeaseInvariant'
    <2>1. UNCHANGED <<status, queue, pc, held>>
        BY <1>3 DEF tables, workers
    <2>. QED
        BY <2>1 DEF LeaseInvariant, WorkersHoldLeases, LeasingLocksItsRow,
            TokensAreDistinct, QueueMatchesStatus, JudgingIsLeased, HoldsLease,
            HeldSubmission
<1>. QED
    BY <1>1, <1>2, <1>3, KindsOfSteps, ChooseRowKeepsLeases,
        LeaseTransactionKeepsLeases, MarkJudgingKeepsLeases, FinishKeepsLeases,
        LocalStepKeepsLeases, LeaseRunsOutKeepsLeases

LEMMA InvInit == Init => Inv
<1>. SUFFICES ASSUME Init PROVE Inv
    OBVIOUS
<1>1. TypeInvariant
    BY BoundAssumption DEF Init, TypeInvariant, Status, WorkerState
<1>2. LeaseInvariant
    BY DEF Init, LeaseInvariant, WorkersHoldLeases, LeasingLocksItsRow,
        TokensAreDistinct, QueueMatchesStatus, JudgingIsLeased, PendingStatus
<1>. QED  BY <1>1, <1>2 DEF Inv

LEMMA InvStep == Inv /\ [Next]_vars => Inv'
BY TypeStep, LeaseStep DEF Inv

(* The inductive invariant.                                                *)
THEOREM Invariance == Spec => []Inv
BY InvInit, InvStep, PTL DEF Spec

(* Every table and every worker keeps its type; above all, no counter ever *)
(* falls below zero, for any number of rejudges.                           *)
THEOREM TypeCorrect == Spec => []TypeInvariant
<1>1. Inv => TypeInvariant
    BY DEF Inv
<1>. QED  BY <1>1, Invariance, PTL

(* No submission is lost or judged for nothing, an abandoned one can be    *)
(* found again, as its lease runs out, and no two workers have one token.  *)
THEOREM NoSubmissionIsLost == Spec => []LeaseInvariant
<1>1. Inv => LeaseInvariant
    BY DEF Inv
<1>. QED  BY <1>1, Invariance, PTL

-----------------------------------------------------------------------------
(***************************************************************************)
(* JudgeQueue implements SubmissionLifecycle, and its queue rows and       *)
(* statuses change only under the authority of a lease.                    *)
(***************************************************************************)

LEMMA ChangeIsMove ==
    ASSUME NEW R, NEW to, ChangeStatus(R, to)
    PROVE  Lifecycle!Move(R, to)
BY DEF ChangeStatus, Lifecycle!Move

LEMMA SameStatuses ==
    /\ Lifecycle!PendingStatus = PendingStatus
    /\ Lifecycle!FinalStatus = FinalStatus
BY DEF PendingStatus, FinalStatus, FailedStatus, Lifecycle!PendingStatus,
    Lifecycle!FinalStatus, Lifecycle!FailedStatus

LEMMA LifecycleStep ==
    ASSUME Inv, [Next]_vars
    PROVE  [Lifecycle!Next]_(Lifecycle!lifecycleVars)
<1>. USE DEF Lifecycle!lifecycleVars
<1>0. TypeInvariant /\ LeaseInvariant
    BY DEF Inv
<1>1. ASSUME NEW s \in Submission, CreateSubmission(s)
      PROVE  Lifecycle!Next
    BY <1>1, ChangeIsMove DEF CreateSubmission, Lifecycle!Submit, Lifecycle!Next
<1>2. ASSUME NEW R \in SUBSET Submission, Rejudge(R)
      PROVE  Lifecycle!Next
    BY <1>2, ChangeIsMove, SameStatuses DEF Rejudge, Lifecycle!Rejudge, Lifecycle!Next
<1>3. ASSUME NEW w \in Worker, MarkJudging(w)
      PROVE  Lifecycle!Next
    <2>. DEFINE s == HeldSubmission(w)
    <2>1. /\ pc[w] = "marking" /\ HoldsLease(w) /\ ChangeStatus({s}, "judging")
        BY <1>3 DEF MarkJudging, MarkJudgingTransaction,
            LocksItsRow
    <2>2. s \in Submission
        BY <1>0, <2>1, HeldType DEF LeaseInvariant, WorkersHoldLeases
    <2>3. status[s] \in PendingStatus
        BY <1>0, <2>1, <2>2 DEF LeaseInvariant, QueueMatchesStatus, HoldsLease
    <2>4. Lifecycle!Start(s)
        BY <2>1, <2>3, ChangeIsMove, SameStatuses DEF Lifecycle!Start
    <2>. QED  BY <2>2, <2>4 DEF Lifecycle!Next
<1>4. ASSUME NEW w \in Worker, Finish(w)
      PROVE  Lifecycle!Next
    <2>. DEFINE s == HeldSubmission(w)
    <2>1. s \in Submission /\ status[s] = "judging"
        BY <1>0, <1>4, FinishFacts
    <2>2. CASE RequeueTransaction(w)
        <3>1. Lifecycle!GiveBack(s)
            BY <2>1, <2>2, ChangeIsMove DEF RequeueTransaction, Lifecycle!GiveBack
        <3>. QED  BY <2>1, <3>1 DEF Lifecycle!Next
    <2>3. CASE FinalizeTransaction(w)
        <3>1. completion[w] \in FinalStatus /\ Lifecycle!Decide(s, completion[w])
            BY <2>1, <2>3, ChangeIsMove DEF FinalizeTransaction, Lifecycle!Decide
        <3>. QED  BY <2>1, <3>1, SameStatuses DEF Lifecycle!Next
    <2>. QED  BY <1>0, <1>4, <2>2, <2>3, FinishFacts
<1>5. ASSUME NEW w \in Worker, CommitLease(w)
      PROVE  UNCHANGED <<status, history>>
    BY <1>5 DEF CommitLease, LeaseTransaction
<1>6. ASSUME NEW w \in Worker, NEW s \in Submission, ChooseRow(w, s)
      PROVE  UNCHANGED <<status, history>>
    BY <1>6 DEF ChooseRow, tables
<1>7. ASSUME NEW w \in Worker, LocalStep(w)
      PROVE  UNCHANGED <<status, history>>
    BY <1>7 DEF LocalStep, tables
<1>8. ASSUME NEW s \in Submission, LeaseRunsOut(s)
      PROVE  UNCHANGED <<status, history>>
    BY <1>8 DEF LeaseRunsOut
<1>9. ASSUME UNCHANGED <<tables, workers, clock, faults>>
      PROVE  UNCHANGED <<status, history>>
    BY <1>9 DEF tables
<1>. QED
    BY <1>0, <1>1, <1>2, <1>3, <1>4, <1>5, <1>6, <1>7, <1>8, <1>9, KindsOfSteps

(* The refinement: readers of submissions and of the audit trail see       *)
(* nothing but the life cycle, whatever happens to workers and answers.    *)
THEOREM JudgeQueueImplementsLifecycle == Spec => ImplementsLifecycle
<1>1. Init => Lifecycle!Init
    BY DEF Init, Lifecycle!Init
<1>. QED
    BY <1>1, LifecycleStep, Invariance, PTL
    DEF Spec, ImplementsLifecycle, Lifecycle!Spec

-----------------------------------------------------------------------------
(* What follows from the life cycle alone.                                 *)

AuditTrail == Lifecycle!TypeOK /\ Lifecycle!HistoryIsAPath /\ Lifecycle!VerdictsAreEarned

(* An audited change of status extends the paths of the submissions it     *)
(* moves, provided a verdict is only given to what is being judged.        *)
LEMMA MoveKeepsAuditTrail ==
    ASSUME AuditTrail,
           NEW R \in SUBSET Submission,
           NEW to \in Lifecycle!Status \ {"absent"},
           to \in Lifecycle!FinalStatus => \A s \in R : status[s] = "judging",
           Lifecycle!Move(R, to)
    PROVE  AuditTrail'
<1>. DEFINE row(s) == [from_status |-> status[s], to_status |-> to]
<1>1. \A s \in Submission :
        row(s) \in Lifecycle!HistoryRow /\ history[s] \in Seq(Lifecycle!HistoryRow)
    BY DEF AuditTrail, Lifecycle!TypeOK, Lifecycle!HistoryRow
<1>2. \A s \in R :
        /\ status'[s] = to
        /\ history'[s] = Append(history[s], row(s))
        /\ history'[s] \in Seq(Lifecycle!HistoryRow)
        /\ Len(history'[s]) = Len(history[s]) + 1
        /\ \A i \in 1 .. Len(history[s]) : history'[s][i] = history[s][i]
        /\ history'[s][Len(history[s]) + 1] = row(s)
    BY <1>1, AppendProperties DEF Lifecycle!Move
<1>3. \A s \in Submission \ R : status'[s] = status[s] /\ history'[s] = history[s]
    BY DEF Lifecycle!Move
<1>4. Lifecycle!TypeOK'
    BY <1>1, <1>2, <1>3 DEF Lifecycle!Move, AuditTrail, Lifecycle!TypeOK
<1>5. ASSUME NEW s \in R
      PROVE  /\ status'[s] # "absent" /\ history'[s] # <<>>
             /\ history'[s][1].from_status = "absent"
             /\ history'[s][Len(history'[s])].to_status = status'[s]
             /\ \A i \in 1 .. Len(history'[s]) - 1 :
                    history'[s][i + 1].from_status = history'[s][i].to_status
             /\ \A i \in 1 .. Len(history'[s]) :
                    history'[s][i].to_status \in Lifecycle!FinalStatus =>
                        history'[s][i].from_status = "judging"
    <2>. DEFINE n == Len(history[s])
    <2>1. n \in Nat /\ (n = 0 <=> history[s] = <<>>)
        BY <1>1, EmptySeq
    <2>2. row(s).from_status = status[s] /\ row(s).to_status = to
        OBVIOUS
    <2>3. /\ n = 0 => status[s] = "absent"
          /\ n > 0 => /\ history[s][1].from_status = "absent"
                      /\ history[s][n].to_status = status[s]
          /\ \A i \in 1 .. n - 1 :
                history[s][i + 1].from_status = history[s][i].to_status
          /\ \A i \in 1 .. n :
                history[s][i].to_status \in Lifecycle!FinalStatus =>
                    history[s][i].from_status = "judging"
        BY <2>1 DEF AuditTrail, Lifecycle!HistoryIsAPath, Lifecycle!VerdictsAreEarned
    <2>. HIDE DEF row, n
    <2>4. /\ Len(history'[s]) = n + 1
          /\ \A i \in 1 .. n : history'[s][i] = history[s][i]
          /\ history'[s][n + 1] = row(s)
        BY <1>2 DEF n
    <2>5. status'[s] # "absent" /\ history'[s] # <<>>
        <3>1. history'[s] # <<>>
            BY <1>2, <2>1, <2>4, EmptySeq
        <3>. QED  BY <1>2, <3>1
    <2>6. history'[s][1].from_status = "absent"
        <3>1. CASE n = 0
            BY <2>2, <2>3, <2>4, <3>1
        <3>2. CASE n > 0
            BY <2>1, <2>3, <2>4, <3>2
        <3>. QED  BY <2>1, <3>1, <3>2
    <2>7. history'[s][Len(history'[s])].to_status = status'[s]
        BY <1>2, <2>2, <2>4
    <2>8. ASSUME NEW i \in 1 .. Len(history'[s]) - 1
          PROVE  history'[s][i + 1].from_status = history'[s][i].to_status
        <3>1. i \in 1 .. n
            BY <2>1, <2>4
        <3>2. CASE i = n
            BY <2>1, <2>2, <2>3, <2>4, <3>1, <3>2
        <3>3. CASE i # n
            <4>1. i \in 1 .. n - 1 /\ i + 1 \in 1 .. n
                BY <2>1, <3>1, <3>3
            <4>. QED  BY <2>3, <2>4, <4>1, <3>1
        <3>. QED  BY <3>2, <3>3
    <2>9. ASSUME NEW i \in 1 .. Len(history'[s]),
                 history'[s][i].to_status \in Lifecycle!FinalStatus
          PROVE  history'[s][i].from_status = "judging"
        <3>1. CASE i = n + 1
            BY <2>2, <2>4, <2>9, <3>1
        <3>2. CASE i \in 1 .. n
            BY <2>3, <2>4, <2>9, <3>2
        <3>. QED  BY <2>1, <2>4, <3>1, <3>2
    <2>. QED  BY <2>5, <2>6, <2>7, <2>8, <2>9
<1>6. Lifecycle!HistoryIsAPath'
    <2>1. ASSUME NEW s \in Submission
          PROVE  /\ status'[s] = "absent" <=> history'[s] = <<>>
                 /\ history'[s] # <<>> =>
                        /\ history'[s][1].from_status = "absent"
                        /\ history'[s][Len(history'[s])].to_status = status'[s]
                 /\ \A i \in 1 .. Len(history'[s]) - 1 :
                        history'[s][i + 1].from_status = history'[s][i].to_status
        <3>1. CASE s \in R
            BY <1>5, <3>1
        <3>2. CASE s \notin R
            BY <1>3, <3>2 DEF AuditTrail, Lifecycle!HistoryIsAPath
        <3>. QED  BY <3>1, <3>2
    <2>. QED  BY <2>1 DEF Lifecycle!HistoryIsAPath
<1>7. Lifecycle!VerdictsAreEarned'
    BY <1>3, <1>5 DEF AuditTrail, Lifecycle!VerdictsAreEarned
<1>. QED  BY <1>4, <1>6, <1>7 DEF AuditTrail

LEMMA AuditTrailInit == Lifecycle!Init => AuditTrail
<1>. SUFFICES ASSUME Lifecycle!Init PROVE AuditTrail
    OBVIOUS
<1>1. \A s \in Submission : history[s] = <<>> /\ status[s] = "absent"
    BY DEF Lifecycle!Init
<1>2. <<>> \in Seq(Lifecycle!HistoryRow) /\ Len(<<>>) = 0
    OBVIOUS
<1>. QED
    BY <1>1, <1>2
    DEF Lifecycle!Init, AuditTrail, Lifecycle!TypeOK, Lifecycle!HistoryIsAPath,
        Lifecycle!VerdictsAreEarned, Lifecycle!Status

LEMMA AuditTrailStep == AuditTrail /\ [Lifecycle!Next]_(Lifecycle!lifecycleVars) => AuditTrail'
<1>. SUFFICES ASSUME AuditTrail, [Lifecycle!Next]_(Lifecycle!lifecycleVars) PROVE AuditTrail'
    OBVIOUS
<1>. USE DEF Lifecycle!Status, Lifecycle!PendingStatus, Lifecycle!FinalStatus,
             Lifecycle!FailedStatus
<1>1. CASE UNCHANGED Lifecycle!lifecycleVars
    BY <1>1
    DEF Lifecycle!lifecycleVars, AuditTrail, Lifecycle!TypeOK, Lifecycle!HistoryIsAPath,
        Lifecycle!VerdictsAreEarned
<1>2. ASSUME NEW s \in Submission,
             Lifecycle!Submit(s) \/ Lifecycle!Start(s) \/ Lifecycle!GiveBack(s)
      PROVE  AuditTrail'
    BY <1>2, MoveKeepsAuditTrail DEF Lifecycle!Submit, Lifecycle!Start, Lifecycle!GiveBack
<1>3. ASSUME NEW s \in Submission, NEW verdict \in Lifecycle!FinalStatus, Lifecycle!Decide(s, verdict)
      PROVE  AuditTrail'
    BY <1>3, MoveKeepsAuditTrail DEF Lifecycle!Decide
<1>4. ASSUME NEW R \in SUBSET Submission, Lifecycle!Rejudge(R)
      PROVE  AuditTrail'
    BY <1>4, MoveKeepsAuditTrail DEF Lifecycle!Rejudge
<1>. QED  BY <1>1, <1>2, <1>3, <1>4 DEF Lifecycle!Next

(* The audit trail of a submission is an unbroken path in which every      *)
(* verdict was judged, whatever system implements the life cycle.          *)
THEOREM AuditTrailIsKept ==
    Lifecycle!Spec => [](Lifecycle!HistoryIsAPath /\ Lifecycle!VerdictsAreEarned)
<1>1. AuditTrail => Lifecycle!HistoryIsAPath /\ Lifecycle!VerdictsAreEarned
    BY DEF AuditTrail
<1>. QED  BY <1>1, AuditTrailInit, AuditTrailStep, PTL DEF Lifecycle!Spec

(* Hence the audit trail of every submission is an unbroken path in which  *)
(* every verdict was judged.                                               *)
THEOREM AuditTrailIsUnbroken == Spec => []AuditTrailIsAPath
<1>1. AuditTrailIsAPath <=> Lifecycle!HistoryIsAPath /\ Lifecycle!VerdictsAreEarned
    BY DEF AuditTrailIsAPath
<1>. QED
    BY <1>1, JudgeQueueImplementsLifecycle, AuditTrailIsKept, PTL DEF ImplementsLifecycle

-----------------------------------------------------------------------------

(* The steps of each kind that can change a status that is pending.        *)
LEMMA PendingStep ==
    ASSUME Inv, [Next]_vars
    PROVE  PendingChangesByItsHolder
<1>0. TypeInvariant /\ LeaseInvariant
    BY DEF Inv
<1>. SUFFICES ASSUME NEW s \in Submission,
                     status[s] \in PendingStatus, status'[s] # status[s]
              PROVE  \E w \in Worker :
                        /\ pc[w] \in {"marking", "finishing"}
                        /\ pc'[w] # pc[w]
                        /\ held[w].submission = s
                        /\ held[w].lease_token = queue[s].lease_token
                        /\ status'[s] \in FinalStatus => status'[s] = completion[w]
    BY DEF PendingChangesByItsHolder
<1>1. ASSUME NEW R \in SUBSET Submission, Rejudge(R)
      PROVE  FALSE
    <2>1. s \in R /\ status[s] \in FinalStatus
        BY <1>1 DEF Rejudge, ChangeStatus
    <2>. QED  BY <2>1 DEF PendingStatus, FinalStatus, FailedStatus
<1>2. ASSUME NEW t \in Submission, CreateSubmission(t)
      PROVE  FALSE
    <2>1. t = s /\ status[s] = "absent"
        BY <1>2 DEF CreateSubmission, ChangeStatus
    <2>. QED  BY <2>1 DEF PendingStatus
<1>3. ASSUME NEW w \in Worker, MarkJudging(w)
      PROVE  /\ pc[w] = "marking" /\ pc'[w] # pc[w]
             /\ held[w].submission = s
             /\ held[w].lease_token = queue[s].lease_token
             /\ status'[s] \notin FinalStatus
    <2>1. /\ pc[w] = "marking" /\ HoldsLease(w)
          /\ ChangeStatus({HeldSubmission(w)}, "judging")
        BY <1>3 DEF MarkJudging, MarkJudgingTransaction,
            LocksItsRow
    <2>2. HeldSubmission(w) = s /\ status'[s] = "judging"
        BY <2>1 DEF ChangeStatus
    <2>3. pc'[w] # pc[w]
        BY <1>0, <1>3, <2>1 DEF MarkJudging, Goto, TypeInvariant
    <2>. QED
        BY <2>1, <2>2, <2>3 DEF HoldsLease, HeldSubmission, FinalStatus, FailedStatus
<1>4. ASSUME NEW w \in Worker, Finish(w)
      PROVE  /\ pc[w] = "finishing" /\ pc'[w] # pc[w]
             /\ held[w].submission = s
             /\ held[w].lease_token = queue[s].lease_token
             /\ status'[s] \in FinalStatus => status'[s] = completion[w]
    <2>1. /\ pc[w] = "finishing" /\ HoldsLease(w)
          /\ RequeueTransaction(w) \/ FinalizeTransaction(w)
        BY <1>0, <1>4, FinishFacts
    <2>2. /\ HeldSubmission(w) = s
          /\ status'[s] \in FinalStatus => status'[s] = completion[w]
        BY <2>1 DEF RequeueTransaction, FinalizeTransaction, ChangeStatus,
            FinalStatus, FailedStatus
    <2>3. pc'[w] # pc[w]
        BY <1>0, <1>4, <2>1 DEF Finish, Goto, TypeInvariant
    <2>. QED  BY <2>1, <2>2, <2>3 DEF HoldsLease, HeldSubmission
<1>5. ASSUME NEW w \in Worker,
             \/ CommitLease(w) \/ LocalStep(w)
             \/ \E t \in Submission : ChooseRow(w, t)
      PROVE  FALSE
    BY <1>5 DEF CommitLease, LeaseTransaction, LocalStep, ChooseRow,
        tables
<1>6. ASSUME \/ UNCHANGED <<tables, workers, clock, faults>>
             \/ \E t \in Submission : LeaseRunsOut(t)
      PROVE  FALSE
    BY <1>6 DEF LeaseRunsOut, tables
<1>. QED  BY <1>0, <1>1, <1>2, <1>3, <1>4, <1>5, <1>6, KindsOfSteps

(* Late answers are fenced off: for any number of workers and lives of a   *)
(* submission, only the holder of the row's token moves it out of the      *)
(* queue, to the verdict it came to itself.                                *)
THEOREM StaleWorkersAreFenced == Spec => OnlyTheLeaseholderDecides
<1>1. Inv /\ [Next]_vars => [PendingChangesByItsHolder]_vars
    BY PendingStep
<1>. QED  BY <1>1, Invariance, PTL DEF Spec, OnlyTheLeaseholderDecides

(* The steps of each kind that can end a lease that is not over.           *)
LEMMA LiveLeaseStep ==
    ASSUME Inv, [Next]_vars
    PROVE  LiveLeaseEndsByItsHolder
<1>0. TypeInvariant /\ LeaseInvariant
    BY DEF Inv
<1>. SUFFICES ASSUME NEW s \in Submission,
                     queue[s] # Null,
                     queue[s].leased_until = "ahead",
                     queue'[s] = Null \/ queue'[s].lease_token # queue[s].lease_token
              PROVE  \E w \in Worker : EndsAttempt(w, s)
    BY DEF LiveLeaseEndsByItsHolder
<1>1. ASSUME NEW R \in SUBSET Submission, NEW priority, Enqueue(R, priority)
      PROVE  FALSE
    BY <1>1 DEF Enqueue
<1>2. ASSUME NEW w \in Worker, CommitLease(w)
      PROVE  FALSE
    <2>1. /\ pc[w] = "leasing"
          /\ \A r \in Submission : r # HeldSubmission(w) => queue'[r] = queue[r]
        BY <1>0, <1>2 DEF CommitLease, LeaseTransaction, TypeInvariant
    <2>2. HeldSubmission(w) # s
        BY <1>0, <2>1 DEF LeaseInvariant, LeasingLocksItsRow
    <2>. QED  BY <2>1, <2>2
<1>3. ASSUME NEW w \in Worker, Finish(w)
      PROVE  EndsAttempt(w, s)
    <2>1. /\ pc[w] = "finishing" /\ HoldsLease(w)
          /\ RequeueTransaction(w) \/ FinalizeTransaction(w)
        BY <1>0, <1>3, FinishFacts
    <2>2. HeldSubmission(w) = s
        BY <1>0, <2>1 DEF RequeueTransaction, FinalizeTransaction, ReleaseLease,
            Dequeue, TypeInvariant
    <2>3. pc'[w] # pc[w]
        BY <1>0, <1>3, <2>1 DEF Finish, Goto, TypeInvariant
    <2>. QED  BY <2>1, <2>2, <2>3 DEF EndsAttempt, HoldsLease, HeldSubmission
<1>4. ASSUME NEW w \in Worker,
             \/ MarkJudging(w) \/ LocalStep(w)
             \/ \E t \in Submission : ChooseRow(w, t)
      PROVE  FALSE
    BY <1>4 DEF MarkJudging, MarkJudgingTransaction, LocalStep,
        ChooseRow, tables
<1>5. ASSUME NEW t \in Submission, LeaseRunsOut(t)
      PROVE  FALSE
    <2>1. /\ queue[t] \in QueueRow
          /\ queue' = [queue EXCEPT ![t] = [queue[t] EXCEPT !.leased_until = "passed"]]
        BY <1>0, <1>5, RowType DEF LeaseRunsOut
    <2>2. /\ [queue[t] EXCEPT !.leased_until = "passed"] \in QueueRow
          /\ [queue[t] EXCEPT !.leased_until = "passed"].lease_token
                = queue[t].lease_token
        BY <2>1 DEF QueueRow
    <2>. QED  BY <1>0, <2>1, <2>2, NullIsNoRow DEF TypeInvariant
<1>6. ASSUME UNCHANGED <<tables, workers, clock, faults>>
      PROVE  FALSE
    BY <1>6 DEF tables
<1>7. /\ \A t \in Submission : ~CreateSubmission(t)
      /\ \A R \in SUBSET Submission : ~Rejudge(R)
    BY <1>1 DEF CreateSubmission, Rejudge
<1>. QED  BY <1>0, <1>2, <1>3, <1>4, <1>5, <1>6, <1>7, KindsOfSteps

(* A lease that has not run out is never taken from its holder.            *)
THEOREM LiveLeasesAreExclusive == Spec => LiveLeaseIsExclusive
<1>1. Inv /\ [Next]_vars => [LiveLeaseEndsByItsHolder]_vars
    BY LiveLeaseStep
<1>. QED  BY <1>1, Invariance, PTL DEF Spec, LiveLeaseIsExclusive

-----------------------------------------------------------------------------

(* Only a verdict writes a result, and with its own status; what takes a   *)
(* verdict back clears the result with it.                                 *)
LEMMA ResultStep ==
    ASSUME Inv, ResultBelongsToVerdict, [Next]_vars
    PROVE  ResultBelongsToVerdict'
<1>0. TypeInvariant /\ LeaseInvariant
    BY DEF Inv
<1>. SUFFICES ASSUME NEW s \in Submission
              PROVE  result'[s] = IF status'[s] \in FinalStatus THEN status'[s] ELSE Null
    BY DEF ResultBelongsToVerdict
<1>1. result[s] = IF status[s] \in FinalStatus THEN status[s] ELSE Null
    BY DEF ResultBelongsToVerdict
<1>2. /\ {"queued", "judging", "absent"} \cap FinalStatus = {}
      /\ PendingStatus \cap FinalStatus = {}
    BY DEF FinalStatus, FailedStatus, PendingStatus
<1>3. ASSUME UNCHANGED <<status, result>>
      PROVE  result'[s] = IF status'[s] \in FinalStatus THEN status'[s] ELSE Null
    BY <1>1, <1>3
<1>4. ASSUME NEW t \in Submission, CreateSubmission(t)
      PROVE  result'[s] = IF status'[s] \in FinalStatus THEN status'[s] ELSE Null
    <2>1. status[t] = "absent" /\ result' = result
          /\ status'[s] = IF s \in {t} THEN "queued" ELSE status[s]
        BY <1>4 DEF CreateSubmission, ChangeStatus
    <2>. QED  BY <1>1, <1>2, <2>1
<1>5. ASSUME NEW R \in SUBSET Submission, Rejudge(R)
      PROVE  result'[s] = IF status'[s] \in FinalStatus THEN status'[s] ELSE Null
    <2>1. /\ result'[s] = IF s \in R THEN Null ELSE result[s]
          /\ status'[s] = IF s \in R THEN "queued" ELSE status[s]
        BY <1>5 DEF Rejudge, ChangeStatus, ClearResult
    <2>. QED  BY <1>1, <1>2, <2>1
<1>6. ASSUME NEW w \in Worker, MarkJudging(w)
      PROVE  result'[s] = IF status'[s] \in FinalStatus THEN status'[s] ELSE Null
    <2>. DEFINE t == HeldSubmission(w)
    <2>1. /\ pc[w] = "marking" /\ HoldsLease(w) /\ result' = result
          /\ status'[s] = IF s \in {t} THEN "judging" ELSE status[s]
        BY <1>6 DEF MarkJudging, MarkJudgingTransaction, LocksItsRow, ChangeStatus
    <2>2. t \in Submission
        BY <1>0, <2>1, HeldType DEF LeaseInvariant, WorkersHoldLeases
    <2>3. status[t] \in PendingStatus
        BY <1>0, <2>1, <2>2 DEF LeaseInvariant, QueueMatchesStatus, HoldsLease
    <2>. QED  BY <1>1, <1>2, <2>1, <2>3
<1>7. ASSUME NEW w \in Worker, Finish(w)
      PROVE  result'[s] = IF status'[s] \in FinalStatus THEN status'[s] ELSE Null
    <2>. DEFINE t == HeldSubmission(w)
    <2>1. t \in Submission /\ status[t] = "judging"
        BY <1>0, <1>7, FinishFacts
    <2>2. CASE RequeueTransaction(w)
        <3>1. result' = result /\ status'[s] = IF s \in {t} THEN "queued" ELSE status[s]
            BY <2>2 DEF RequeueTransaction, ChangeStatus
        <3>. QED  BY <1>1, <1>2, <2>1, <3>1
    <2>3. CASE FinalizeTransaction(w)
        <3>1. /\ completion[w] \in FinalStatus
              /\ result' = [result EXCEPT ![t] = completion[w]]
              /\ status'[s] = IF s \in {t} THEN completion[w] ELSE status[s]
            BY <2>3 DEF FinalizeTransaction, ChangeStatus
        <3>. QED  BY <1>0, <1>1, <3>1 DEF TypeInvariant
    <2>. QED  BY <1>0, <1>7, <2>2, <2>3, FinishFacts
<1>8. ASSUME NEW w \in Worker,
             \/ CommitLease(w) \/ LocalStep(w)
             \/ \E t \in Submission : ChooseRow(w, t)
      PROVE  UNCHANGED <<status, result>>
    BY <1>8 DEF CommitLease, LeaseTransaction, LocalStep, ChooseRow, tables
<1>9. ASSUME \/ UNCHANGED <<tables, workers, clock, faults>>
             \/ \E t \in Submission : LeaseRunsOut(t)
      PROVE  UNCHANGED <<status, result>>
    BY <1>9 DEF LeaseRunsOut, tables
<1>. QED  BY <1>0, <1>3, <1>4, <1>5, <1>6, <1>7, <1>8, <1>9, KindsOfSteps

(* A reader never sees the score of a verdict that was taken back, nor a   *)
(* verdict without its result (clear_submission_result and finalize).      *)
THEOREM ResultsBelongToVerdicts == Spec => []ResultBelongsToVerdict
<1>1. Init => ResultBelongsToVerdict
    BY DEF Init, ResultBelongsToVerdict, FinalStatus, FailedStatus
<1>2. Inv /\ ResultBelongsToVerdict /\ [Next]_vars => ResultBelongsToVerdict'
    BY ResultStep
<1>. QED  BY <1>1, <1>2, Invariance, PTL DEF Spec

-----------------------------------------------------------------------------
(***************************************************************************)
(* The counters of JudgeQueue are exact: what the increments and           *)
(* decrements of the transactions add up to is what a recount would give.  *)
(***************************************************************************)

LEMMA FiniteCount ==
    ASSUME NEW S \in SUBSET Submission
    PROVE  IsFiniteSet(S) /\ Cardinality(S) \in Nat
BY SubmissionAssumption, FS_Subset, FS_CardinalityType

LEMMA SubmissionSets ==
    /\ \A p : SubmissionsTo(p) \in SUBSET Submission
    /\ \A k : AttemptsOf(k) \in SUBSET Submission
    /\ \A S \in SUBSET Submission : \A statuses :
        Having(S, statuses) \in SUBSET Submission
BY DEF SubmissionsTo, AttemptsOf, Existing, Having

One(condition) == IF condition THEN 1 ELSE 0

(* One status changes: the count of the submissions of S with one of some  *)
(* statuses loses and gains at most that one.                              *)
LEMMA CountAfterChange ==
    ASSUME TypeInvariant,
           NEW S \in SUBSET Submission, NEW statuses,
           NEW s \in Submission, NEW to,
           ChangeStatus({s}, to)
    PROVE  Cardinality({r \in S : status'[r] \in statuses}) =
                Cardinality(Having(S, statuses))
                    - One(s \in S /\ status[s] \in statuses)
                    + One(s \in S /\ to \in statuses)
<1>. DEFINE A == Having(S, statuses)
            B == {r \in S : status'[r] \in statuses}
            C == A \ {s}
<1>1. /\ status'[s] = to
      /\ \A r \in Submission \ {s} : status'[r] = status[r]
    BY DEF ChangeStatus
<1>2. A \in SUBSET Submission /\ (s \in A <=> s \in S /\ status[s] \in statuses)
    BY DEF Having
<1>3. IsFiniteSet(A) /\ Cardinality(A) \in Nat
    BY <1>2, FiniteCount
<1>4. IsFiniteSet(C) /\ Cardinality(C) = Cardinality(A) - One(s \in A)
    BY <1>3, FS_RemoveElement DEF One
<1>5. B = IF s \in S /\ to \in statuses THEN C \cup {s} ELSE C
    BY <1>1 DEF Having
<1>6. Cardinality(C \cup {s}) = Cardinality(C) + 1
    BY <1>4, FS_AddElement
<1>7. Cardinality(B) = Cardinality(C) + One(s \in S /\ to \in statuses)
    <2>1. Cardinality(C) \in Nat
        BY <1>4, FS_CardinalityType
    <2>. HIDE DEF B, C
    <2>2. CASE s \in S /\ to \in statuses
        BY <1>5, <1>6, <2>1, <2>2 DEF One
    <2>3. CASE ~(s \in S /\ to \in statuses)
        BY <1>5, <2>1, <2>3 DEF One
    <2>. QED  BY <2>2, <2>3
<1>. HIDE DEF A, B, C
<1>8. One(s \in A) = One(s \in S /\ status[s] \in statuses)
    BY <1>2
<1>. QED  BY <1>4, <1>7, <1>8 DEF A, B

LEMMA ReplaceCounts ==
    ASSUME NEW row \in [submission_count : Nat, accepted : Nat, failed : Nat],
           NEW a \in Nat, NEW f \in Nat,
           NEW new, new = [row EXCEPT !.accepted = a, !.failed = f]
    PROVE  new = [submission_count |-> row.submission_count,
                  accepted |-> a, failed |-> f]
<1>1. /\ new \in [submission_count : Nat, accepted : Nat, failed : Nat]
      /\ new.submission_count = row.submission_count
      /\ new.accepted = a
      /\ new.failed = f
    OBVIOUS
<1>. QED  BY <1>1

(* A submission that exists keeps existing; none is created by moving one. *)
LEMMA ExistenceAfterChange ==
    ASSUME TypeInvariant,
           NEW R \in SUBSET Submission, NEW to,
           to # "absent",
           \A s \in R : status[s] # "absent",
           ChangeStatus(R, to)
    PROVE  /\ \A p : SubmissionsTo(p)' = SubmissionsTo(p)
           /\ \A k : AttemptsOf(k)' = AttemptsOf(k)
BY DEF ChangeStatus, SubmissionsTo, AttemptsOf, Existing, SummaryOf

(* apply_submission_status_transition follows the recount.                 *)
LEMMA TransitionKeepsSummaries ==
    ASSUME TypeInvariant, CountersExact,
           NEW s \in Submission, NEW to,
           status[s] # "absent", to # "absent",
           ChangeStatus({s}, to), CountTransition(s, to)
    PROVE  \A k \in User \X Problem :
            attempt_summary'[k] =
                [submission_count |-> Cardinality(AttemptsOf(k)'),
                 accepted |-> Cardinality(Having(AttemptsOf(k), {"accepted"})'),
                 failed |-> Cardinality(Having(AttemptsOf(k), FailedStatus)')]
<1>. TAKE k \in User \X Problem
<1>. DEFINE S == AttemptsOf(k)
            accepted == Cardinality(Having(S, {"accepted"}))
            failed == Cardinality(Having(S, FailedStatus))
<1>1. AttemptsOf(k)' = S
    BY ExistenceAfterChange
<1>2. S \in SUBSET Submission /\ (s \in S <=> SummaryOf(s) = k)
    BY DEF AttemptsOf, Existing
<1>3. Cardinality(Having(S, {"accepted"})') =
        accepted - One(s \in S /\ status[s] = "accepted")
                 + One(s \in S /\ to = "accepted")
    <2>1. Having(S, {"accepted"})' = {r \in S : status'[r] \in {"accepted"}}
        BY <1>1 DEF Having
    <2>2. Cardinality({r \in S : status'[r] \in {"accepted"}}) =
            accepted - One(s \in S /\ status[s] \in {"accepted"})
                     + One(s \in S /\ to \in {"accepted"})
        BY <1>2, CountAfterChange
    <2>3. /\ (s \in S /\ status[s] \in {"accepted"}) = (s \in S /\ status[s] = "accepted")
          /\ (s \in S /\ to \in {"accepted"}) = (s \in S /\ to = "accepted")
        OBVIOUS
    <2>. QED  BY <2>1, <2>2, <2>3
<1>4. Cardinality(Having(S, FailedStatus)') =
        failed - One(s \in S /\ status[s] \in FailedStatus)
               + One(s \in S /\ to \in FailedStatus)
    <2>1. Having(S, FailedStatus)' = {r \in S : status'[r] \in FailedStatus}
        BY <1>1 DEF Having
    <2>. QED  BY <1>2, <2>1, CountAfterChange
<1>5. /\ attempt_summary \in SummaryType
      /\ attempt_summary[k] = [submission_count |-> Cardinality(S),
                               accepted |-> accepted, failed |-> failed]
    BY DEF TypeInvariant, SummaryType, CountersExact
<1>6. /\ accepted \in Nat
      /\ failed \in Nat
      /\ Cardinality(Having(S, {"accepted"})') \in Nat
      /\ Cardinality(Having(S, FailedStatus)') \in Nat
    <2>1. \A T : Having(S, T)' \in SUBSET Submission
        BY <1>1, <1>2 DEF Having
    <2>. QED  BY <1>2, <2>1, SubmissionSets, FiniteCount
<1>. HIDE DEF S, accepted, failed
<1>7. CASE s \notin S
    <2>1. attempt_summary'[k] = attempt_summary[k]
        BY <1>2, <1>5, <1>7 DEF CountTransition, SummaryType
    <2>2. /\ Cardinality(Having(S, {"accepted"})') = accepted
          /\ Cardinality(Having(S, FailedStatus)') = failed
        BY <1>3, <1>4, <1>6, <1>7 DEF One
    <2>. QED  BY <1>1, <1>5, <2>1, <2>2 DEF S
<1>8. CASE s \in S
    <2>1. attempt_summary'[k] =
            [attempt_summary[k] EXCEPT
                !.accepted = AcceptedWithout(s) + (IF to = "accepted" THEN 1 ELSE 0),
                !.failed = FailedWithout(s) + (IF to \in FailedStatus THEN 1 ELSE 0)]
        BY <1>2, <1>5, <1>8 DEF CountTransition, SummaryType
    <2>2. /\ AcceptedWithout(s) = accepted - One(status[s] = "accepted")
          /\ FailedWithout(s) = failed - One(status[s] \in FailedStatus)
        BY <1>2, <1>5, <1>8 DEF AcceptedWithout, FailedWithout, One
    <2>3. /\ Cardinality(Having(S, {"accepted"})') =
                AcceptedWithout(s) + (IF to = "accepted" THEN 1 ELSE 0)
          /\ Cardinality(Having(S, FailedStatus)') =
                FailedWithout(s) + (IF to \in FailedStatus THEN 1 ELSE 0)
        BY <1>3, <1>4, <1>6, <1>8, <2>2 DEF One
    <2>4. attempt_summary'[k] =
            [submission_count |-> Cardinality(S),
             accepted |-> Cardinality(Having(S, {"accepted"})'),
             failed |-> Cardinality(Having(S, FailedStatus)')]
        <3>1. /\ attempt_summary[k] \in
                    [submission_count : Nat, accepted : Nat, failed : Nat]
              /\ attempt_summary[k].submission_count = Cardinality(S)
            BY <1>5 DEF SummaryType
        <3>. DEFINE a == Cardinality(Having(S, {"accepted"})')
                    f == Cardinality(Having(S, FailedStatus)')
        <3>3. attempt_summary'[k] = [attempt_summary[k] EXCEPT !.accepted = a, !.failed = f]
            BY <2>1, <2>3
        <3>4. a \in Nat /\ f \in Nat
            BY <1>6
        <3>. HIDE DEF a, f
        <3>5. attempt_summary'[k] = [submission_count |-> attempt_summary[k].submission_count,
                                     accepted |-> a, failed |-> f]
            BY <3>1, <3>3, <3>4, ReplaceCounts
        <3>. QED  BY <3>1, <3>5 DEF a, f
    <2>. QED  BY <1>1, <2>4 DEF S
<1>. QED  BY <1>7, <1>8

(* The accepted submissions to a problem, after one status has changed.    *)
LEMMA AcceptedAfterChange ==
    ASSUME TypeInvariant,
           NEW s \in Submission, NEW to,
           status[s] # "absent", to # "absent",
           ChangeStatus({s}, to),
           NEW p \in Problem
    PROVE  /\ SubmissionsTo(p)' = SubmissionsTo(p)
           /\ Cardinality(Having(SubmissionsTo(p), {"accepted"})') =
                Cardinality(Having(SubmissionsTo(p), {"accepted"}))
                    - One(ProblemOf[s] = p /\ status[s] = "accepted")
                    + One(ProblemOf[s] = p /\ to = "accepted")
<1>. DEFINE S == SubmissionsTo(p)
<1>1. SubmissionsTo(p)' = S
    BY ExistenceAfterChange
<1>2. S \in SUBSET Submission /\ (s \in S <=> ProblemOf[s] = p)
    BY DEF SubmissionsTo, Existing
<1>3. Having(S, {"accepted"})' = {r \in S : status'[r] \in {"accepted"}}
    BY <1>1 DEF Having
<1>. HIDE DEF S
<1>4. Cardinality({r \in S : status'[r] \in {"accepted"}}) =
        Cardinality(Having(S, {"accepted"}))
            - One(s \in S /\ status[s] \in {"accepted"})
            + One(s \in S /\ to \in {"accepted"})
    BY <1>2, CountAfterChange
<1>5. /\ One(s \in S /\ status[s] \in {"accepted"}) =
            One(ProblemOf[s] = p /\ status[s] = "accepted")
      /\ One(s \in S /\ to \in {"accepted"}) = One(ProblemOf[s] = p /\ to = "accepted")
    BY <1>2 DEF One
<1>. QED  BY <1>1, <1>3, <1>4, <1>5 DEF S

ProblemCounters == [submission_count : Nat, accepted_count : Nat]

LEMMA ProblemRow ==
    ASSUME TypeInvariant, CountersExact, NEW p \in Problem
    PROVE  /\ problem_statistics[p] \in ProblemCounters
           /\ problem_statistics[p].submission_count = Cardinality(SubmissionsTo(p))
           /\ problem_statistics[p].accepted_count =
                Cardinality(Having(SubmissionsTo(p), {"accepted"}))
BY DEF TypeInvariant, CountersExact, ProblemCounters

LEMMA SummaryRow ==
    ASSUME TypeInvariant, CountersExact, NEW k \in User \X Problem
    PROVE  /\ attempt_summary[k] \in
                [submission_count : Nat, accepted : Nat, failed : Nat]
           /\ attempt_summary[k].submission_count = Cardinality(AttemptsOf(k))
           /\ attempt_summary[k].accepted =
                Cardinality(Having(AttemptsOf(k), {"accepted"}))
           /\ attempt_summary[k].failed =
                Cardinality(Having(AttemptsOf(k), FailedStatus))
BY DEF TypeInvariant, CountersExact

LEMMA RowOfProblem ==
    ASSUME NEW row \in ProblemCounters, NEW n, NEW a,
           row.submission_count = n, row.accepted_count = a
    PROVE  row = [submission_count |-> n, accepted_count |-> a]
BY DEF ProblemCounters

LEMMA RowOfSummary ==
    ASSUME NEW row \in [submission_count : Nat, accepted : Nat, failed : Nat],
           NEW n, NEW a, NEW f,
           row.submission_count = n, row.accepted = a, row.failed = f
    PROVE  row = [submission_count |-> n, accepted |-> a, failed |-> f]
OBVIOUS

(* A step of a worker's transaction: one status, its summary, and the      *)
(* accepted_count of the problem when the new status is accepted.          *)
LEMMA TransitionKeepsCounters ==
    ASSUME TypeInvariant, CountersExact, TypeInvariant',
           NEW s \in Submission, NEW to,
           status[s] \in PendingStatus, to # "absent",
           ChangeStatus({s}, to), CountTransition(s, to),
           problem_statistics' =
                IF to = "accepted" /\ status[s] # "accepted"
                THEN [problem_statistics EXCEPT ![ProblemOf[s]].accepted_count = @ + 1]
                ELSE problem_statistics
    PROVE  CountersExact'
<1>1. status[s] # "absent" /\ status[s] # "accepted"
    BY DEF PendingStatus
<1>2. ASSUME NEW p \in Problem
      PROVE  problem_statistics'[p] =
                [submission_count |-> Cardinality(SubmissionsTo(p)'),
                 accepted_count |-> Cardinality(Having(SubmissionsTo(p), {"accepted"})')]
    <2>1. /\ SubmissionsTo(p)' = SubmissionsTo(p)
          /\ Cardinality(Having(SubmissionsTo(p), {"accepted"})') =
                Cardinality(Having(SubmissionsTo(p), {"accepted"}))
                    - One(ProblemOf[s] = p /\ status[s] = "accepted")
                    + One(ProblemOf[s] = p /\ to = "accepted")
        BY <1>1, AcceptedAfterChange
    <2>2. /\ problem_statistics[p] \in ProblemCounters
          /\ problem_statistics[p].submission_count = Cardinality(SubmissionsTo(p))
          /\ problem_statistics[p].accepted_count =
                Cardinality(Having(SubmissionsTo(p), {"accepted"}))
        BY ProblemRow
    <2>. DEFINE n == Cardinality(SubmissionsTo(p))
                a == Cardinality(Having(SubmissionsTo(p), {"accepted"}))
                b == Cardinality(Having(SubmissionsTo(p), {"accepted"})')
    <2>3. /\ problem_statistics[p].submission_count = n
          /\ problem_statistics[p].accepted_count = a
          /\ a \in Nat
          /\ b = a + One(ProblemOf[s] = p /\ to = "accepted")
        BY <1>1, <2>1, <2>2 DEF One, ProblemCounters
    <2>. HIDE DEF n, a, b
    <2>4. /\ problem_statistics'[p] \in ProblemCounters
          /\ problem_statistics'[p].submission_count = n
          /\ problem_statistics'[p].accepted_count = b
        BY <1>1, <2>2, <2>3 DEF One, TypeInvariant, ProblemCounters
    <2>5. problem_statistics'[p] = [submission_count |-> n, accepted_count |-> b]
        BY <2>4, RowOfProblem
    <2>. QED  BY <2>1, <2>5 DEF n, b
<1>3. ASSUME NEW k \in User \X Problem
      PROVE  attempt_summary'[k] =
                [submission_count |-> Cardinality(AttemptsOf(k)'),
                 accepted |-> Cardinality(Having(AttemptsOf(k), {"accepted"})'),
                 failed |-> Cardinality(Having(AttemptsOf(k), FailedStatus)')]
    BY <1>1, TransitionKeepsSummaries
<1>. QED  BY <1>2, <1>3 DEF CountersExact

(* A submission that is created is counted, as neither accepted nor failed.*)
LEMMA CreateKeepsCounters ==
    ASSUME TypeInvariant, CountersExact, TypeInvariant',
           NEW s \in Submission, CreateSubmission(s)
    PROVE  CountersExact'
<1>1. /\ status[s] = "absent" /\ status'[s] = "queued"
      /\ \A r \in Submission \ {s} : status'[r] = status[r]
    BY DEF CreateSubmission, ChangeStatus
<1>2. "queued" \notin FailedStatus /\ "absent" \notin FailedStatus
    BY DEF FailedStatus
<1>3. ASSUME NEW p \in Problem
      PROVE  problem_statistics'[p] =
                [submission_count |-> Cardinality(SubmissionsTo(p)'),
                 accepted_count |-> Cardinality(Having(SubmissionsTo(p), {"accepted"})')]
    <2>. DEFINE S == SubmissionsTo(p)
    <2>1. SubmissionsTo(p)' = IF ProblemOf[s] = p THEN S \cup {s} ELSE S
        BY <1>1 DEF SubmissionsTo, Existing
    <2>2. Having(SubmissionsTo(p), {"accepted"})' = Having(S, {"accepted"})
        BY <1>1, <2>1 DEF Having, SubmissionsTo, Existing
    <2>3. s \notin S /\ S \in SUBSET Submission
        BY <1>1 DEF SubmissionsTo, Existing
    <2>4. Cardinality(SubmissionsTo(p)') = Cardinality(S) + One(ProblemOf[s] = p)
        <3>1. Cardinality(S \cup {s}) = Cardinality(S) + 1
            BY <2>3, FiniteCount, FS_AddElement
        <3>2. Cardinality(S) \in Nat
            BY <2>3, FiniteCount
        <3>. QED  BY <2>1, <3>1, <3>2 DEF One
    <2>5. /\ problem_statistics[p] \in ProblemCounters
          /\ problem_statistics[p].submission_count = Cardinality(S)
          /\ problem_statistics[p].accepted_count =
                Cardinality(Having(S, {"accepted"}))
        BY ProblemRow
    <2>6. problem_statistics' =
            [problem_statistics EXCEPT ![ProblemOf[s]].submission_count = @ + 1]
        BY DEF CreateSubmission
    <2>. DEFINE n == Cardinality(S)
                a == Cardinality(Having(S, {"accepted"}))
    <2>7. /\ problem_statistics[p].submission_count = n
          /\ problem_statistics[p].accepted_count = a
        BY <2>5
    <2>. HIDE DEF S, n, a
    <2>8. /\ problem_statistics'[p] \in ProblemCounters
          /\ problem_statistics'[p].submission_count = n + One(ProblemOf[s] = p)
          /\ problem_statistics'[p].accepted_count = a
        BY <2>5, <2>6, <2>7 DEF One, TypeInvariant, ProblemCounters
    <2>9. problem_statistics'[p] =
            [submission_count |-> n + One(ProblemOf[s] = p), accepted_count |-> a]
        BY <2>8, RowOfProblem
    <2>. QED  BY <2>2, <2>4, <2>9 DEF S, n, a
<1>4. ASSUME NEW k \in User \X Problem
      PROVE  attempt_summary'[k] =
                [submission_count |-> Cardinality(AttemptsOf(k)'),
                 accepted |-> Cardinality(Having(AttemptsOf(k), {"accepted"})'),
                 failed |-> Cardinality(Having(AttemptsOf(k), FailedStatus)')]
    <2>. DEFINE S == AttemptsOf(k)
    <2>1. AttemptsOf(k)' = IF SummaryOf(s) = k THEN S \cup {s} ELSE S
        BY <1>1 DEF AttemptsOf, Existing, SummaryOf
    <2>2. /\ Having(AttemptsOf(k), {"accepted"})' = Having(S, {"accepted"})
          /\ Having(AttemptsOf(k), FailedStatus)' = Having(S, FailedStatus)
        BY <1>1, <1>2, <2>1 DEF Having, AttemptsOf, Existing
    <2>3. s \notin S /\ S \in SUBSET Submission
        BY <1>1 DEF AttemptsOf, Existing
    <2>4. Cardinality(AttemptsOf(k)') = Cardinality(S) + One(SummaryOf(s) = k)
        <3>1. Cardinality(S \cup {s}) = Cardinality(S) + 1
            BY <2>3, FiniteCount, FS_AddElement
        <3>2. Cardinality(S) \in Nat
            BY <2>3, FiniteCount
        <3>. QED  BY <2>1, <3>1, <3>2 DEF One
    <2>5. attempt_summary' =
            [attempt_summary EXCEPT ![SummaryOf(s)].submission_count = @ + 1]
        BY DEF CreateSubmission
    <2>. DEFINE n == Cardinality(S)
                a == Cardinality(Having(S, {"accepted"}))
                f == Cardinality(Having(S, FailedStatus))
    <2>6. /\ attempt_summary[k].submission_count = n
          /\ attempt_summary[k].accepted = a
          /\ attempt_summary[k].failed = f
        BY SummaryRow
    <2>. HIDE DEF S, n, a, f
    <2>7. /\ attempt_summary'[k] \in
                [submission_count : Nat, accepted : Nat, failed : Nat]
          /\ attempt_summary'[k].submission_count = n + One(SummaryOf(s) = k)
          /\ attempt_summary'[k].accepted = a
          /\ attempt_summary'[k].failed = f
        <3>1. attempt_summary \in SummaryType
            BY DEF TypeInvariant, SummaryType
        <3>2. CASE SummaryOf(s) = k
            <4>1. attempt_summary'[k] =
                    [attempt_summary[k] EXCEPT !.submission_count = @ + 1]
                BY <2>5, <3>1, <3>2 DEF SummaryType
            <4>2. attempt_summary[k] \in
                    [submission_count : Nat, accepted : Nat, failed : Nat]
                BY <3>1 DEF SummaryType
            <4>. QED  BY <2>6, <3>2, <4>1, <4>2 DEF One
        <3>3. CASE SummaryOf(s) # k
            <4>1. attempt_summary'[k] = attempt_summary[k]
                BY <2>5, <3>1, <3>3 DEF SummaryType
            <4>2. attempt_summary[k] \in
                    [submission_count : Nat, accepted : Nat, failed : Nat]
                BY <3>1 DEF SummaryType
            <4>. QED  BY <2>6, <3>3, <4>1, <4>2 DEF One
        <3>. QED  BY <3>2, <3>3
    <2>8. attempt_summary'[k] = [submission_count |-> n + One(SummaryOf(s) = k),
                                 accepted |-> a, failed |-> f]
        BY <2>7, RowOfSummary
    <2>. QED  BY <2>2, <2>4, <2>8 DEF S, n, a, f
<1>. QED  BY <1>3, <1>4 DEF CountersExact

(* Taking the verdicts of R back takes just them out of every count.       *)
LEMMA CountAfterRejudge ==
    ASSUME TypeInvariant,
           NEW R \in SUBSET Submission, ChangeStatus(R, "queued"),
           NEW S \in SUBSET Submission, NEW statuses, "queued" \notin statuses
    PROVE  Cardinality({r \in S : status'[r] \in statuses}) =
            Cardinality(Having(S, statuses))
                - Cardinality({r \in R : r \in S /\ status[r] \in statuses})
<1>. DEFINE A == Having(S, statuses)
            B == {r \in R : r \in S /\ status[r] \in statuses}
<1>1. {r \in S : status'[r] \in statuses} = A \ R
    BY DEF ChangeStatus, Having
<1>2. A \cap R = B
    BY DEF Having
<1>3. IsFiniteSet(A)
    BY SubmissionSets, FiniteCount
<1>. HIDE DEF A, B
<1>4. Cardinality(A \ R) = Cardinality(A) - Cardinality(B)
    BY <1>2, <1>3, FS_Difference
<1>. QED  BY <1>1, <1>4 DEF A, B

LEMMA RejudgeKeepsCounters ==
    ASSUME TypeInvariant, CountersExact, TypeInvariant',
           NEW R \in SUBSET Submission, Rejudge(R)
    PROVE  CountersExact'
<1>1. ChangeStatus(R, "queued") /\ \A s \in R : status[s] # "absent"
    BY DEF Rejudge, FinalStatus, FailedStatus
<1>2. /\ \A p : SubmissionsTo(p)' = SubmissionsTo(p)
      /\ \A k : AttemptsOf(k)' = AttemptsOf(k)
    BY <1>1, ExistenceAfterChange
<1>3. "queued" \notin FailedStatus /\ "queued" \notin {"accepted"}
    BY DEF FailedStatus
<1>4. ASSUME NEW p \in Problem
      PROVE  problem_statistics'[p] =
                [submission_count |-> Cardinality(SubmissionsTo(p)'),
                 accepted_count |-> Cardinality(Having(SubmissionsTo(p), {"accepted"})')]
    <2>. DEFINE S == SubmissionsTo(p)
                B == {s \in R : ProblemOf[s] = p /\ status[s] = "accepted"}
    <2>1. S \in SUBSET Submission
        BY SubmissionSets
    <2>2. {r \in R : r \in S /\ status[r] \in {"accepted"}} = B
        BY <1>1 DEF SubmissionsTo, Existing
    <2>3. Having(SubmissionsTo(p), {"accepted"})' = {r \in S : status'[r] \in {"accepted"}}
        BY <1>2 DEF Having
    <2>4. Cardinality({r \in S : status'[r] \in {"accepted"}}) =
            Cardinality(Having(S, {"accepted"}))
                - Cardinality({r \in R : r \in S /\ status[r] \in {"accepted"}})
        BY <1>1, <1>3, <2>1, CountAfterRejudge
    <2>5. problem_statistics'[p] =
            [problem_statistics[p] EXCEPT !.accepted_count = @ - Cardinality(B)]
        BY DEF Rejudge
    <2>. DEFINE n == Cardinality(S)
                a == Cardinality(Having(S, {"accepted"}))
                b == Cardinality(B)
    <2>6. /\ problem_statistics[p] \in ProblemCounters
          /\ problem_statistics[p].submission_count = n
          /\ problem_statistics[p].accepted_count = a
        BY ProblemRow
    <2>7. problem_statistics'[p] \in ProblemCounters
        BY DEF TypeInvariant, ProblemCounters
    <2>. HIDE DEF S, B, n, a, b
    <2>8. problem_statistics'[p] =
            [problem_statistics[p] EXCEPT !.accepted_count = @ - b]
        BY <2>5 DEF b
    <2>9. /\ problem_statistics'[p].submission_count = n
          /\ problem_statistics'[p].accepted_count = a - b
        BY <2>6, <2>8 DEF ProblemCounters
    <2>10. problem_statistics'[p] = [submission_count |-> n, accepted_count |-> a - b]
        BY <2>7, <2>9, RowOfProblem
    <2>. QED  BY <1>2, <2>2, <2>3, <2>4, <2>10 DEF S, n, a, b
<1>5. ASSUME NEW k \in User \X Problem
      PROVE  attempt_summary'[k] =
                [submission_count |-> Cardinality(AttemptsOf(k)'),
                 accepted |-> Cardinality(Having(AttemptsOf(k), {"accepted"})'),
                 failed |-> Cardinality(Having(AttemptsOf(k), FailedStatus)')]
    <2>. DEFINE S == AttemptsOf(k)
    <2>1. S \in SUBSET Submission
        BY SubmissionSets
    <2>2. /\ {r \in R : r \in S /\ status[r] \in {"accepted"}} = Accepted(k, R)
          /\ {r \in R : r \in S /\ status[r] \in FailedStatus} = Failed(k, R)
        BY <1>1 DEF AttemptsOf, Existing, Accepted, Failed
    <2>3. /\ Having(AttemptsOf(k), {"accepted"})' = {r \in S : status'[r] \in {"accepted"}}
          /\ Having(AttemptsOf(k), FailedStatus)' = {r \in S : status'[r] \in FailedStatus}
        <3>1. S' = S
            BY <1>2
        <3>. QED  BY <3>1 DEF Having
    <2>4. /\ Cardinality({r \in S : status'[r] \in {"accepted"}}) =
                Cardinality(Having(S, {"accepted"}))
                    - Cardinality({r \in R : r \in S /\ status[r] \in {"accepted"}})
          /\ Cardinality({r \in S : status'[r] \in FailedStatus}) =
                Cardinality(Having(S, FailedStatus))
                    - Cardinality({r \in R : r \in S /\ status[r] \in FailedStatus})
        BY <1>1, <1>3, <2>1, CountAfterRejudge
    <2>. DEFINE n == Cardinality(S)
                a == Cardinality(Having(S, {"accepted"}))
                f == Cardinality(Having(S, FailedStatus))
                b == Cardinality(Accepted(k, R))
                g == Cardinality(Failed(k, R))
    <2>5. attempt_summary'[k] =
            [attempt_summary[k] EXCEPT !.accepted = @ - b, !.failed = @ - g]
        BY DEF Rejudge
    <2>6. /\ attempt_summary[k] \in
                [submission_count : Nat, accepted : Nat, failed : Nat]
          /\ attempt_summary[k].submission_count = n
          /\ attempt_summary[k].accepted = a
          /\ attempt_summary[k].failed = f
        BY SummaryRow
    <2>7. attempt_summary'[k] \in
                [submission_count : Nat, accepted : Nat, failed : Nat]
        BY DEF TypeInvariant
    <2>. HIDE DEF S, n, a, f, b, g
    <2>8. /\ attempt_summary'[k].submission_count = n
          /\ attempt_summary'[k].accepted = a - b
          /\ attempt_summary'[k].failed = f - g
        BY <2>5, <2>6
    <2>9. attempt_summary'[k] =
            [submission_count |-> n, accepted |-> a - b, failed |-> f - g]
        BY <2>7, <2>8, RowOfSummary
    <2>. QED  BY <1>2, <2>2, <2>3, <2>4, <2>9 DEF S, n, a, f, b, g
<1>. QED  BY <1>4, <1>5 DEF CountersExact

LEMMA CountersStep ==
    ASSUME Inv, CountersExact, [Next]_vars
    PROVE  CountersExact'
<1>0. TypeInvariant /\ LeaseInvariant /\ TypeInvariant'
    BY TypeStep DEF Inv
<1>1. ASSUME NEW w \in Worker, MarkJudging(w)
      PROVE  CountersExact'
    <2>. DEFINE s == HeldSubmission(w)
    <2>1. /\ pc[w] = "marking" /\ HoldsLease(w)
          /\ ChangeStatus({s}, "judging") /\ CountTransition(s, "judging")
          /\ problem_statistics' = problem_statistics
        BY <1>1 DEF MarkJudging, MarkJudgingTransaction,
            LocksItsRow
    <2>2. s \in Submission
        BY <1>0, <2>1, HeldType DEF LeaseInvariant, WorkersHoldLeases
    <2>3. status[s] \in PendingStatus
        BY <1>0, <2>1, <2>2 DEF LeaseInvariant, QueueMatchesStatus, HoldsLease
    <2>. QED  BY <1>0, <2>1, <2>2, <2>3, TransitionKeepsCounters
<1>2. ASSUME NEW w \in Worker, Finish(w)
      PROVE  CountersExact'
    <2>. DEFINE s == HeldSubmission(w)
    <2>1. /\ s \in Submission /\ status[s] = "judging"
          /\ RequeueTransaction(w) \/ FinalizeTransaction(w)
        BY <1>0, <1>2, FinishFacts
    <2>2. status[s] \in PendingStatus
        BY <2>1 DEF PendingStatus
    <2>3. CASE RequeueTransaction(w)
        <3>1. /\ ChangeStatus({s}, "queued") /\ CountTransition(s, "queued")
              /\ problem_statistics' = problem_statistics
            BY <2>3 DEF RequeueTransaction
        <3>. QED  BY <1>0, <2>1, <2>2, <3>1, TransitionKeepsCounters
    <2>4. CASE FinalizeTransaction(w)
        <3>1. completion[w] # "absent"
            BY <2>4 DEF FinalizeTransaction, FinalStatus, FailedStatus
        <3>. QED
            BY <1>0, <2>1, <2>2, <2>4, <3>1, TransitionKeepsCounters
            DEF FinalizeTransaction
    <2>. QED  BY <2>1, <2>3, <2>4
<1>3. ASSUME UNCHANGED <<status, problem_statistics, attempt_summary>>
      PROVE  CountersExact'
    BY <1>3 DEF CountersExact, SubmissionsTo, AttemptsOf, Existing, Having, SummaryOf
<1>4. ASSUME NEW w \in Worker,
             \/ CommitLease(w) \/ LocalStep(w)
             \/ \E s \in Submission : ChooseRow(w, s)
      PROVE  UNCHANGED <<status, problem_statistics, attempt_summary>>
    BY <1>4 DEF CommitLease, LeaseTransaction, LocalStep, ChooseRow,
        tables, accounts
<1>5. ASSUME \/ UNCHANGED <<tables, workers, clock, faults>>
             \/ \E s \in Submission : LeaseRunsOut(s)
      PROVE  UNCHANGED <<status, problem_statistics, attempt_summary>>
    BY <1>5 DEF LeaseRunsOut, tables, accounts
<1>. QED
    BY <1>0, <1>1, <1>2, <1>3, <1>4, <1>5, KindsOfSteps, CreateKeepsCounters,
        RejudgeKeepsCounters

LEMMA CountersInit == Init => CountersExact
<1>. SUFFICES ASSUME Init PROVE CountersExact
    OBVIOUS
<1>1. /\ \A p : SubmissionsTo(p) = {}
      /\ \A k : AttemptsOf(k) = {}
      /\ \A statuses : Having({}, statuses) = {}
    BY DEF Init, SubmissionsTo, AttemptsOf, Existing, Having
<1>2. Cardinality({}) = 0
    BY FS_EmptySet
<1>. QED  BY <1>1, <1>2 DEF Init, CountersExact

(* Problem lists, rankings and the wrong-problem list are served from      *)
(* counters that agree with the submissions they count, after any history  *)
(* of verdicts, rejudges, crashes and repeated transactions.               *)
THEOREM CountersAreExact == Spec => []CountersExact
<1>1. Inv /\ CountersExact /\ [Next]_vars => CountersExact'
    BY CountersStep
<1>. QED  BY <1>1, CountersInit, Invariance, PTL DEF Spec

(* There is always room in the counters for the verdict of a submission    *)
(* that is being judged: it is itself counted as neither.                  *)
LEMMA RoomForAVerdict ==
    ASSUME TypeInvariant, CountersExact,
           NEW s \in Submission, status[s] = "judging"
    PROVE  attempt_summary[SummaryOf(s)].accepted + attempt_summary[SummaryOf(s)].failed
            < attempt_summary[SummaryOf(s)].submission_count
<1>. DEFINE k == SummaryOf(s)
            S == AttemptsOf(k)
            A == Having(S, {"accepted"})
            F == Having(S, FailedStatus)
<1>1. k \in User \X Problem
    BY SubmissionAssumption DEF SummaryOf
<1>2. /\ S \in SUBSET Submission /\ A \cup F \in SUBSET (S \ {s})
      /\ s \in S /\ A \cap F = {}
    BY DEF AttemptsOf, Existing, Having, FailedStatus
<1>3. IsFiniteSet(S) /\ IsFiniteSet(A) /\ IsFiniteSet(F)
    BY <1>2, FiniteCount
<1>4. /\ attempt_summary[k].submission_count = Cardinality(S)
      /\ attempt_summary[k].accepted = Cardinality(A)
      /\ attempt_summary[k].failed = Cardinality(F)
    BY <1>1, SummaryRow
<1>. HIDE DEF k, S, A, F
<1>5. Cardinality(A \cup F) = Cardinality(A) + Cardinality(F)
    <2>1. Cardinality(A \cup F) =
            Cardinality(A) + Cardinality(F) - Cardinality(A \cap F)
        BY <1>3, FS_Union
    <2>2. Cardinality(A \cap F) = 0
        BY <1>2, FS_EmptySet
    <2>3. Cardinality(A) \in Nat /\ Cardinality(F) \in Nat
        BY <1>3, FS_CardinalityType
    <2>. QED  BY <2>1, <2>2, <2>3
<1>6. Cardinality(S \ {s}) = Cardinality(S) - 1 /\ IsFiniteSet(S \ {s})
    BY <1>2, <1>3, FS_RemoveElement
<1>7. Cardinality(A \cup F) <= Cardinality(S \ {s})
    BY <1>2, <1>6, FS_Subset
<1>8. Cardinality(S) \in Nat /\ Cardinality(A) \in Nat /\ Cardinality(F) \in Nat
    BY <1>3, FS_CardinalityType
<1>. QED  BY <1>4, <1>5, <1>6, <1>7, <1>8 DEF k

(* The range checks of the counter updates never refuse a worker.          *)
THEOREM CountersNeverStopAWorker == Spec => []CountersNeverRefuse
<1>1. Inv /\ CountersExact => CountersNeverRefuse
    <2>. SUFFICES ASSUME Inv, CountersExact, NEW w \in Worker,
                         pc[w] \in {"marking", "finishing"}, HoldsLease(w)
                  PROVE  /\ CountersAllow(HeldSubmission(w), "judging")
                         /\ CountersAllow(HeldSubmission(w), "queued")
                         /\ pc[w] = "finishing" =>
                                \A to : CountersAllow(HeldSubmission(w), to)
        BY DEF CountersNeverRefuse, LocksItsRow
    <2>. DEFINE s == HeldSubmission(w)
    <2>0. TypeInvariant /\ LeaseInvariant
        BY DEF Inv
    <2>1. s \in Submission
        BY <2>0, HeldType DEF LeaseInvariant, WorkersHoldLeases
    <2>2. status[s] \in PendingStatus
        BY <2>0, <2>1 DEF LeaseInvariant, QueueMatchesStatus, HoldsLease
    <2>3. /\ status[s] # "accepted" /\ status[s] \notin FailedStatus
          /\ ~Counts("judging") /\ ~Counts("queued")
        BY <2>2 DEF PendingStatus, FailedStatus, Counts
    <2>4. CountersAllow(s, "judging") /\ CountersAllow(s, "queued")
        BY <2>3 DEF CountersAllow
    <2>5. ASSUME pc[w] = "finishing", NEW to
          PROVE  CountersAllow(s, to)
        <3>1. status[s] = "judging"
            BY <2>0, <2>5 DEF LeaseInvariant, JudgingIsLeased
        <3>2. attempt_summary[SummaryOf(s)].accepted + attempt_summary[SummaryOf(s)].failed
                < attempt_summary[SummaryOf(s)].submission_count
            BY <2>0, <2>1, <3>1, RoomForAVerdict
        <3>3. /\ SummaryOf(s) \in User \X Problem
              /\ attempt_summary[SummaryOf(s)] \in
                    [submission_count : Nat, accepted : Nat, failed : Nat]
            BY <2>0, <2>1, SubmissionAssumption DEF SummaryOf, TypeInvariant
        <3>4. /\ AcceptedWithout(s) = attempt_summary[SummaryOf(s)].accepted
              /\ FailedWithout(s) = attempt_summary[SummaryOf(s)].failed
            BY <2>3, <3>3 DEF AcceptedWithout, FailedWithout
        <3>. QED  BY <2>3, <3>2, <3>4 DEF CountersAllow
    <2>. QED  BY <2>4, <2>5
<1>. QED  BY <1>1, CountersAreExact, Invariance, PTL
=============================================================================
