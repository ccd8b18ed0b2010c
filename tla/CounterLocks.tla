------------------------------ MODULE CounterLocks ------------------------------
(***************************************************************************)
(* The order in which the transactions about submissions lock rows.  Each  *)
(* of them updates a submission, its queue row, the summary of its author  *)
(* and the statistics of its problem, or some of these, statement by       *)
(* statement, and keeps the locks to its end.  PostgreSQL gives a row to   *)
(* those who wait for it in the order they came, and ends one transaction  *)
(* of a circle; db_service_util retries that one.  All submissions are of  *)
(* one problem.                                                            *)
(***************************************************************************)
EXTENDS Integers, FiniteSets, SequencesExt

CONSTANTS
    Transactions,
    Workloads,        \* what the transactions are asked to do: functions from Transactions to Operation
    Submissions,      \* submission ids: numbers, in the order they were created
    Author,           \* the user of every submission
    InitialStatus,    \* "judging", "accepted" or "failed"
    AttemptCount      \* > 0: DB_TRANSACTION_ATTEMPT_COUNT

Operation ==
    [op : {"create"}, user : {Author[s] : s \in Submissions}]
    \cup [op : {"mark_judging", "requeue", "rejudge"}, submission : Submissions]
    \cup [op : {"finalize"}, submission : Submissions, verdict : {"accepted", "failed", "infra"}]
    \cup [op : {"rejudge_problem"}]

VARIABLES
    line,      \* of every row: the transactions that asked for it; the first one has it
    status,    \* of every submission
    tx         \* of every transaction: its operation, how it stands, what it has to do

vars == <<line, status, tx>>

SubmissionRow(s) == <<"submission", s>>
QueueRow(s) == <<"queue", s>>
Summary(user) == <<"summary", user>>
Statistics == <<"statistics", 0>>
Rows == {SubmissionRow(s) : s \in Submissions} \cup {QueueRow(s) : s \in Submissions}
        \cup {Summary(Author[s]) : s \in Submissions} \cup {Statistics}

-----------------------------------------------------------------------------
(* What the transactions lock *)

\* apply_submission_status_transition: a verdict is counted, and a count taken back.
IsCounted(verdict) == verdict \in {"accepted", "failed"}

\* get_wa_or_ac_submissions, in descending order; "failed" stands for wrong_answer.
JudgedSubmissions ==
    SetToSortSeq({s \in Submissions : IsCounted(status[s])}, >)

\* Mutant of RowsOfFinalize: the statistics are counted before the summary.
RowsOfFinalizeSwapped(s, verdict) ==
    <<SubmissionRow(s), QueueRow(s)>>
    \o (IF verdict = "accepted" THEN <<Statistics>> ELSE <<>>)
    \o (IF IsCounted(verdict) THEN <<Summary(Author[s])>> ELSE <<>>)

\* finalize_submission: the summary, then, for an accepted one, the statistics.
RowsOfFinalize(s, verdict) ==
    <<SubmissionRow(s), QueueRow(s)>>
    \o (IF IsCounted(verdict) THEN <<Summary(Author[s])>> ELSE <<>>)
    \o (IF verdict = "accepted" THEN <<Statistics>> ELSE <<>>)

\* The rows a transaction is going to lock when it begins, as far as it knows.
FirstRows(operation) ==
    CASE operation.op = "create" -> <<Summary(operation.user), Statistics>>
      [] operation.op \in {"mark_judging", "requeue"} ->
             <<SubmissionRow(operation.submission), QueueRow(operation.submission)>>
      [] operation.op = "finalize" -> RowsOfFinalize(operation.submission, operation.verdict)
      [] operation.op = "rejudge" -> <<SubmissionRow(operation.submission)>>
      [] OTHER -> [i \in DOMAIN JudgedSubmissions |-> SubmissionRow(JudgedSubmissions[i])]

Rejudges(t) == tx[t].operation.op \in {"rejudge", "rejudge_problem"}

\* What rejudge_submission does once it has the submission: the statistics, for an
\* accepted one, then the summary, then the new row in the queue.
RowsOfRejudge(s) ==
    (IF status[s] = "accepted" THEN <<Statistics>> ELSE <<>>)
    \o (IF IsCounted(status[s]) THEN <<Summary(Author[s])>> ELSE <<>>)
    \o <<QueueRow(s)>>

\* The statuses that let the transaction go on when it has the row: a rejudge is of
\* one that is decided, the others have a lease, and so a row in the queue.
IsAtWork(s) == status[s] \in {"queued", "judging"}
Accepts(t, s) == Rejudges(t) <=> ~IsAtWork(s)

-----------------------------------------------------------------------------
(* Locks *)

\* The transactions that have the row t waits for, or asked for it earlier.
Ahead(t) ==
    IF tx[t].state # "open" \/ tx[t].rows = <<>> THEN {}
    ELSE LET asked == line[Head(tx[t].rows)]
         IN  {other \in Transactions :
                \E i, j \in DOMAIN asked : i < j /\ asked[i] = other /\ asked[j] = t}

\* Those t waits for, directly or through others: the members of every set that holds
\* those ahead of t and those ahead of its own members.
WaitsFor(t) ==
    {other \in Transactions : \A S \in SUBSET Transactions :
        Ahead(t) \subseteq S /\ (\A s \in S : Ahead(s) \subseteq S) => other \in S}

InCircle(t) == t \in WaitsFor(t)

\* The locks of t go to those who come after it.
Without(asked, t) ==
    IF t \in Range(asked) THEN RemoveAt(asked, CHOOSE i \in DOMAIN asked : asked[i] = t) ELSE asked
Released(t) == [row \in Rows |-> Without(line[row], t)]

Ends(t, how) ==
    /\ tx' = [tx EXCEPT ![t].state = how, ![t].rows = <<>>]
    /\ line' = Released(t)

-----------------------------------------------------------------------------
(* Actions *)

Init ==
    /\ line = [row \in Rows |-> <<>>]
    /\ status = InitialStatus
    /\ \E asked \in Workloads :
           tx = [t \in Transactions |->
                    [operation |-> asked[t], state |-> "asked", rows |-> <<>>, attempt |-> 1]]

\* The transaction begins; rejudge_problem reads its list.
Begin(t) ==
    /\ tx[t].state = "asked"
    /\ tx' = [tx EXCEPT ![t].state = "open", ![t].rows = FirstRows(tx[t].operation)]
    /\ UNCHANGED <<line, status>>

\* A statement has to wait for its row.
Ask(t) ==
    /\ tx[t].state = "open"
    /\ tx[t].rows # <<>>
    /\ LET row == Head(tx[t].rows) IN
        /\ line[row] # <<>>
        /\ t \notin Range(line[row])
        /\ line' = [line EXCEPT ![row] = Append(@, t)]
    /\ UNCHANGED <<status, tx>>

\* A statement gets its row, or has it from an earlier one; the first one about
\* a submission looks at its status.
Execute(t) ==
    /\ tx[t].state = "open"
    /\ tx[t].rows # <<>>
    /\ LET row == Head(tx[t].rows)
           rest == Tail(tx[t].rows)
           s == row[2]
       IN /\ line[row] # <<>> => Head(line[row]) = t
          /\ IF row[1] = "submission" /\ ~Accepts(t, s)
               THEN Ends(t, "conflict")
               ELSE /\ line' = [line EXCEPT ![row] = IF @ = <<>> THEN <<t>> ELSE @]
                    /\ tx' = [tx EXCEPT ![t].rows =
                                IF row[1] = "submission" /\ Rejudges(t)
                                  THEN RowsOfRejudge(s) \o rest ELSE rest]
    /\ UNCHANGED status

\* What the transaction wrote is there for everyone.
Commit(t) ==
    /\ tx[t].state = "open"
    /\ tx[t].rows = <<>>
    /\ LET locked == {s \in Submissions : t \in Range(line[SubmissionRow(s)])} IN
       status' = [s \in Submissions |->
           IF s \notin locked THEN status[s]
           ELSE CASE tx[t].operation.op = "finalize" -> tx[t].operation.verdict
                  [] tx[t].operation.op = "mark_judging" -> "judging"
                  [] OTHER -> "queued"]
    /\ Ends(t, "done")

\* is_retryable holds for a deadlock, and there is an attempt left.
MayRetry(t) == tx[t].attempt < AttemptCount

\* The database ends a transaction of a circle: all it did is undone.
EndDeadlock(t) ==
    /\ InCircle(t)
    /\ IF MayRetry(t)
         THEN /\ tx' = [tx EXCEPT ![t].state = "asked", ![t].rows = <<>>, ![t].attempt = @ + 1]
              /\ line' = Released(t)
         ELSE Ends(t, "failed")
    /\ UNCHANGED status

Step(t) == Begin(t) \/ Ask(t) \/ Execute(t) \/ Commit(t)

Next == \E t \in Transactions : Step(t) \/ EndDeadlock(t)

\* Statements are executed, and deadlock_timeout finds every circle.
Fairness ==
    /\ \A t \in Transactions : WF_vars(Step(t))
    /\ WF_vars(\E t \in Transactions : EndDeadlock(t))

Spec == Init /\ [][Next]_vars /\ Fairness

-----------------------------------------------------------------------------
(* Properties *)

\* Users who submit and workers who judge lock rows in one order, so a circle
\* of transactions that wait for each other has a rejudge in it, the one
\* operation that takes the statistics before the summary.
EveryDeadlockHasARejudge ==
    \A t \in Transactions : InCircle(t) =>
        \E other \in Transactions : other \in WaitsFor(t) /\ t \in WaitsFor(other) /\ Rejudges(other)

\* The attempts with_retry_service_write_transaction gives are enough: whichever
\* transaction of a circle the database ends, every one is carried out, or
\* refused for what it asks, and none fails for the others.
EveryTransactionIsCarriedOut ==
    <>(\A t \in Transactions : tx[t].state \in {"done", "conflict"})
===============================================================================
