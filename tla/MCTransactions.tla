----------------------------- MODULE MCTransactions -----------------------------
(***************************************************************************)
(* What the write transactions of the database may do to each other, in    *)
(* four parts for one run: the edits of ProblemContent and those of        *)
(* TestcaseAuthoring, the locks of CounterLocks, and the loop of           *)
(* TransactionRetry.  `part` says which of them a behaviour is of; the     *)
(* variables of the others stand still.                                    *)
(***************************************************************************)
EXTENDS MCProblemContent, Transactions

VARIABLES
    part,
    testcases, testcase_count, problem_version, snapshots, session   \* of TestcaseAuthoring

-----------------------------------------------------------------------------
(* The locks: two users have a submission with a verdict, and one that is  *)
(* being judged.                                                           *)

Authors == <<1, 1, 2, 2>>
Statuses == <<"accepted", "judging", "failed", "judging">>

Create(user) == [op |-> "create", user |-> user]
Rejudge(s) == [op |-> "rejudge", submission |-> s]
Requeue(s) == [op |-> "requeue", submission |-> s]
Mark(s) == [op |-> "mark_judging", submission |-> s]
Finalize(s, verdict) == [op |-> "finalize", submission |-> s, verdict |-> verdict]
RejudgeProblem == [op |-> "rejudge_problem"]

\* Submits and verdicts alone, with one rejudge, with two, and two workers that
\* had the same submission.
MCWorkloads ==
    {<<Create(1), Create(2), Finalize(2, "accepted"), Finalize(4, "accepted")>>,
     <<Create(1), Finalize(2, "accepted"), Finalize(4, "failed"), Rejudge(1)>>,
     <<Create(1), Finalize(2, "accepted"), Finalize(4, "accepted"), RejudgeProblem>>,
     <<Create(1), Create(2), Rejudge(1), RejudgeProblem>>,
     <<Finalize(2, "accepted"), Rejudge(1), RejudgeProblem, Rejudge(3)>>,
     <<Finalize(2, "infra"), Requeue(2), Mark(2), RejudgeProblem>>,
     <<Finalize(2, "infra"), Rejudge(2), Create(1), Rejudge(1)>>}

lockVars == <<line, status, submitter>>

-----------------------------------------------------------------------------
(* The testcases: two administrators with every edit, and no condition on  *)
(* which of them meet.                                                     *)

Edits == INSTANCE TestcaseEdits WITH Content <- {"a text"}

Testcases == INSTANCE TestcaseAuthoring WITH
    Session <- {1, 2}, Row <- 1..8, Content <- {"a text"},
    Operation <- {op \in Edits!AllEdits : op.at <= 2 /\ op.to <= 2},
    Uploaded <- Edits!NewOrTwo, Null <- None, MaxVersion <- 4,
    version <- problem_version, published <- snapshots, tx <- session

testcaseVars == <<testcases, testcase_count, problem_version, snapshots, session>>

\* A version is what its administrator saw commit, and counts its own testcases,
\* whoever edits at the same time (increase_version).
VersionsAreTrue == Testcases!VersionsAreTrue

\* A version that was published is never changed or taken back: submissions are judged
\* by the testcases of their version (publish_version).
PublishedVersionsNeverChange == Testcases!PublishedVersionsNeverChange

-----------------------------------------------------------------------------

NoSubmitters ==
    /\ line = [row \in Locks!Rows |-> <<>>]
    /\ status = InitialStatus
    /\ submitter = [t \in Submitters |->
           [operation |-> RejudgeProblem, state |-> "done", rows |-> <<>>, attempt |-> 1]]

NoCall ==
    /\ layer = "service" /\ attempt = 1 /\ pc = "done" /\ is_connected = TRUE
    /\ error = "none" /\ applied = 0 /\ outcome = "none"

NoTestcases ==
    /\ testcases = <<>> /\ testcase_count = 0 /\ problem_version = 1
    /\ snapshots = <<[testcase_count |-> 0, testcases |-> {}]>>
    /\ session = [s \in {1, 2} |-> None]

PartsInit ==
    \/ part = "edits" /\ Init /\ NoTestcases /\ NoSubmitters /\ NoCall
    \/ part = "testcases" /\ Testcases!Init /\ Init /\ NoSubmitters /\ NoCall
    \/ part = "locks" /\ Locks!Init /\ Init /\ NoTestcases /\ NoCall
    \/ part = "retry" /\ RetryInit /\ Init /\ NoTestcases /\ NoSubmitters

PartsNext ==
    /\ \/ part = "edits" /\ Next /\ UNCHANGED <<testcaseVars, lockVars, retryVars>>
       \/ part = "testcases" /\ Testcases!Next /\ UNCHANGED <<vars, lockVars, retryVars>>
       \/ part = "locks" /\ Locks!Next /\ UNCHANGED <<vars, testcaseVars, retryVars>>
       \/ part = "retry" /\ RetryNext /\ UNCHANGED <<vars, testcaseVars, lockVars>>
    /\ UNCHANGED part

\* The fairness of CounterLocks and of TransactionRetry, each of its part.
PartsFairness ==
    /\ \A t \in Submitters : WF_lockVars(part = "locks" /\ Locks!Step(t))
    /\ WF_lockVars(part = "locks" /\ \E t \in Submitters : Locks!EndDeadlock(t))
    /\ WF_retryVars(part = "retry" /\ RetryNext)

PartsSpec == PartsInit /\ [][PartsNext]_<<part, vars, testcaseVars, lockVars, retryVars>> /\ PartsFairness

-----------------------------------------------------------------------------
(* Properties of the parts.  Those of ProblemContent and TransactionRetry  *)
(* hold of a component that stands still, too, and are checked as they are *)
(* stated there.                                                           *)

\* Every transaction about submissions is carried out, or refused for what it asks,
\* and every call returns (with_retry_service_write_transaction).
EveryCallEnds == Locks!EveryTransactionIsCarriedOut /\ EveryCallReturns
===============================================================================
