-------------------------- MODULE SubmissionStatus --------------------------
(***************************************************************************)
(* submission_status, the status of a submission, and the classes of it    *)
(* that the code tells apart.                                              *)
(***************************************************************************)

PendingStatus == {"queued", "judging"}

(* is_failed_submission_status: what counts as a failed attempt of a user. *)
FailedStatus ==
    {"wrong_answer", "time_limit_exceeded", "memory_limit_exceeded",
     "runtime_error", "compile_error", "build_resource_exceeded",
     "output_exceeded"}

FinalStatus == FailedStatus \cup {"accepted", "infra_failure"}

(* "absent" is the from_status NULL of a submission's first history row.   *)
Status == {"absent"} \cup PendingStatus \cup FinalStatus

(* A row of submission_status_history.                                     *)
HistoryRow == [from_status : Status, to_status : Status]
=============================================================================
