------------------------------ MODULE Transactions ------------------------------
(***************************************************************************)
(* The write transactions of the database: the edits of what a problem     *)
(* shows (ProblemContent), the loop that every one of them runs in         *)
(* (TransactionRetry), and the rows that those about submissions lock      *)
(* (CounterLocks), which are retried as often.                             *)
(***************************************************************************)
EXTENDS ProblemContent, TransactionRetry

CONSTANTS
    Submitters, Workloads, Submissions, Author, InitialStatus   \* of CounterLocks

VARIABLES
    line, status, submitter   \* of CounterLocks: submitter is its tx

Locks == INSTANCE CounterLocks WITH
    Transactions <- Submitters, AttemptCount <- RetryCount, tx <- submitter

\* Each of them is asked for something.
ASSUME WorkloadsAssumption == Workloads \subseteq [Submitters -> Locks!Operation]

\* Users who submit and workers who judge never deadlock without a rejudge
\* (finalize_submission, rejudge_submission).
EveryDeadlockHasARejudge == Locks!EveryDeadlockHasARejudge
===============================================================================
