-------------------------- MODULE TransactionRetry --------------------------
(***************************************************************************)
(* One call of with_retry_(service_)write_transaction: up to RetryCount    *)
(* transactions on one connection, each a callback and a commit.  The      *)
(* statements of the callback may throw, the connection may be lost, and   *)
(* it may be lost during the commit, when nobody can say whether the       *)
(* server committed.  libpqxx reports that as in_doubt_error, which is     *)
(* none of the exceptions map_psql_exception looks for.                    *)
(***************************************************************************)
EXTENDS Naturals

CONSTANTS
    RetryCount    \* DB_TRANSACTION_ATTEMPT_COUNT

ASSUME RetryCountAssumption == RetryCount \in Nat \ {0}

VARIABLES
    layer,        \* "service": the loops of services; "db": retry_db_operation
    attempt,
    pc,           \* where the loop is
    is_connected, \* db_connection::is_connected
    error,        \* the db_error of this attempt, "none" when there is none
    applied,      \* how many of its transactions the server has committed
    outcome       \* what the caller got, "none" while it waits

retryVars == <<layer, attempt, pc, is_connected, error, applied, outcome>>

-----------------------------------------------------------------------------
(* db_error *)

Exceptions == {"serialization_failure", "deadlock_detected", "unique_violation",
               "constraint_violation", "broken_connection", "in_doubt_error", "other"}

\* db_error_code, as far as a transaction meets them
Errors == {"invalid_connection", "unique_violation", "constraint_violation",
           "broken_connection", "serialization_failure", "deadlock_detected", "internal"}

\* Mutant of Mapped: a commit in doubt is taken for a broken connection.
MappedInDoubtAsBroken(exception) ==
    IF exception = "in_doubt_error" THEN "broken_connection"
    ELSE IF exception \in Errors THEN exception ELSE "internal"

\* from_psql_exception
Mapped(exception) == IF exception \in Errors THEN exception ELSE "internal"

\* is_retryable and should_reconnect, from db_error_specs
IsRetryable(e) ==
    e \in {"invalid_connection", "broken_connection", "serialization_failure", "deadlock_detected"}
ShouldReconnect(e) == e \in {"invalid_connection", "broken_connection"}

\* map_service_db_error; a caller of the db layer gets the error itself.
Reported(e) ==
    IF layer = "db" THEN e
    ELSE IF e = "unique_violation" THEN "conflict"
    ELSE IF e = "constraint_violation" THEN "validation_error"
    ELSE IF e = "internal" THEN "internal"
    ELSE "unavailable"

-----------------------------------------------------------------------------

RetryInit ==
    /\ layer \in {"service", "db"}
    /\ attempt = 1
    /\ pc = "begin"
    /\ is_connected \in BOOLEAN
    /\ error = "none"
    /\ applied = 0
    /\ outcome = "none"

\* An exception, of a kind that may also mean the connection is gone.
Throws(exception) ==
    /\ pc' = "error"
    /\ error' = Mapped(exception)
    /\ is_connected' = (exception \notin {"broken_connection", "in_doubt_error"})
    /\ UNCHANGED <<layer, attempt, outcome>>

NotConnected ==
    /\ pc = "begin"
    /\ ~ is_connected
    /\ pc' = "error"
    /\ error' = "invalid_connection"
    /\ UNCHANGED <<layer, attempt, is_connected, applied, outcome>>

BeginTransaction ==
    /\ pc = "begin"
    /\ is_connected
    /\ pc' = "callback"
    /\ UNCHANGED <<layer, attempt, is_connected, error, applied, outcome>>

\* A statement of the callback, or the BEGIN before it, fails: nothing is committed.
StatementThrows ==
    /\ pc = "callback"
    /\ \E exception \in Exceptions \ {"in_doubt_error"} : Throws(exception)
    /\ UNCHANGED applied

\* The callback returns an error of its own: rolled back, and not tried again
\* (a repository_error becomes a service_error on its way).
CallbackRefuses ==
    /\ pc = "callback"
    /\ pc' = "done"
    /\ outcome' = "refused"
    /\ UNCHANGED <<layer, attempt, is_connected, error, applied>>

CommitReturns ==
    /\ pc = "callback"
    /\ applied' = applied + 1
    /\ pc' = "done"
    /\ outcome' = "ok"
    /\ UNCHANGED <<layer, attempt, is_connected, error>>

\* A constraint that is checked at the commit, a serialization failure, ...
CommitThrows ==
    /\ pc = "callback"
    /\ \E exception \in Exceptions \ {"broken_connection", "in_doubt_error"} : Throws(exception)
    /\ UNCHANGED applied

\* The connection is lost during the commit, before or after the server did it.
CommitInDoubt ==
    /\ pc = "callback"
    /\ Throws("in_doubt_error")
    /\ applied' \in {applied, applied + 1}

Returns(e) ==
    /\ pc' = "done"
    /\ outcome' = Reported(e)
    /\ UNCHANGED <<layer, attempt, is_connected, error, applied>>

\* Mutant of NextAttempt: the attempt is not counted.
SameAttempt ==
    /\ pc' = "begin"
    /\ error' = "none"
    /\ UNCHANGED <<layer, attempt>>

NextAttempt ==
    /\ pc' = "begin"
    /\ attempt' = attempt + 1
    /\ error' = "none"
    /\ UNCHANGED layer

\* Whether the loop ends with error e.
GivesUp(e) == attempt = RetryCount \/ ~ IsRetryable(e)

\* handle_service_db_error: the error is final.
GiveUp ==
    /\ pc = "error"
    /\ GivesUp(error)
    /\ Returns(error)

TryAgain ==
    /\ pc = "error"
    /\ ~ GivesUp(error)
    /\ ~ ShouldReconnect(error)
    /\ NextAttempt
    /\ UNCHANGED <<is_connected, applied, outcome>>

Reconnect ==
    /\ pc = "error"
    /\ ~ GivesUp(error)
    /\ ShouldReconnect(error)
    /\ is_connected' = TRUE
    /\ NextAttempt
    /\ UNCHANGED <<applied, outcome>>

\* reconnect fails.  The services give up when its error is final; the db layer
\* goes on, and finds that it has no connection.
ReconnectFails ==
    /\ pc = "error"
    /\ ~ GivesUp(error)
    /\ ShouldReconnect(error)
    /\ \E e \in {"broken_connection", "internal"} :
        IF layer = "service" /\ ~ IsRetryable(e)
        THEN Returns(e)
        ELSE NextAttempt /\ is_connected' = FALSE /\ UNCHANGED <<applied, outcome>>

RetryNext ==
    \/ NotConnected \/ BeginTransaction \/ StatementThrows \/ CallbackRefuses
    \/ CommitReturns \/ CommitThrows \/ CommitInDoubt
    \/ GiveUp \/ TryAgain \/ Reconnect \/ ReconnectFails

\* Every call of the database ends.
RetrySpec == RetryInit /\ [][RetryNext]_retryVars /\ WF_retryVars(RetryNext)

-----------------------------------------------------------------------------
(* Properties *)

Outcomes == {"none", "ok", "refused", "conflict", "validation_error", "unavailable"} \union Errors

RetryTypeOK ==
    /\ layer \in {"service", "db"}
    /\ attempt \in 1 .. RetryCount
    /\ pc \in {"begin", "callback", "error", "done"}
    /\ is_connected \in BOOLEAN
    /\ error \in Errors \union {"none"}
    /\ applied \in Nat
    /\ outcome \in Outcomes

\* The loop never runs a transaction again that the server may have committed:
\* no submission is created twice, no verdict counted twice
\* (with_retry_service_write_transaction, db_service_util.hpp:256-303, over
\* db_error::from_psql_exception, db_error.cpp:43-65).
NeverAppliedTwice == applied <= 1

\* A caller that is told ok has its effects, once, and one that is told to try
\* again or that its request was refused has none: only "internal" leaves a
\* doubt (map_service_db_error, db_service_util.hpp).
AnswerIsTrue ==
    /\ NeverAppliedTwice
    /\ outcome = "ok" => applied = 1
    /\ outcome \notin {"none", "ok", "internal"} => applied = 0

\* Whatever the database does, the caller gets an answer: reconnecting that
\* fails again and again ends with the attempts.
EveryCallReturns == <>(pc = "done")
=============================================================================
