------------------------ MODULE SubmissionLifecycle ------------------------
(***************************************************************************)
(* What the judge promises about one submission, without queue, leases or  *)
(* workers: the statuses a reader of the submissions table may observe, in *)
(* which order, and the audit trail submission_status_history keeps.       *)
(* JudgeQueue is the system that implements this promise.                  *)
(***************************************************************************)
EXTENDS Naturals, Sequences, SubmissionStatus

CONSTANT Submission     \* submission ids

VARIABLES
    status,     \* status[s]: submissions.status, "absent" before the insert
    history     \* history[s]: the rows of submission_status_history, in order

lifecycleVars == <<status, history>>

-----------------------------------------------------------------------------

Init ==
    /\ status = [s \in Submission |-> "absent"]
    /\ history = [s \in Submission |-> <<>>]

(* Every status change of the submissions in R is written with its audit   *)
(* row, which names the status the change started from.                    *)
Move(R, to) ==
    /\ status' = [s \in Submission |-> IF s \in R THEN to ELSE status[s]]
    /\ history' =
        [s \in Submission |->
            IF s \in R
            THEN Append(history[s], [from_status |-> status[s], to_status |-> to])
            ELSE history[s]]

Submit(s) == status[s] = "absent" /\ Move({s}, "queued")

(* A worker starts judging; it may find the submission already judging,    *)
(* abandoned by an earlier worker.                                         *)
Start(s) == status[s] \in PendingStatus /\ Move({s}, "judging")

(* A worker that cannot judge now hands the submission back.               *)
GiveBack(s) == status[s] = "judging" /\ Move({s}, "queued")

Decide(s, verdict) == status[s] = "judging" /\ Move({s}, verdict)

Rejudge(R) == (\A s \in R : status[s] \in FinalStatus) /\ Move(R, "queued")

Next ==
    \/ \E s \in Submission :
        \/ Submit(s)
        \/ Start(s)
        \/ GiveBack(s)
        \/ \E verdict \in FinalStatus : Decide(s, verdict)
    \/ \E R \in SUBSET Submission : Rejudge(R)

Spec == Init /\ [][Next]_lifecycleVars

-----------------------------------------------------------------------------

TypeOK ==
    /\ status \in [Submission -> Status]
    /\ history \in [Submission -> Seq(HistoryRow)]

(* The audit trail is a path: it starts at "absent", each row starts where *)
(* the previous one ended, and the last one ends at the present status.    *)
HistoryIsAPath ==
    \A s \in Submission :
        /\ status[s] = "absent" <=> history[s] = <<>>
        /\ history[s] # <<>> =>
            /\ history[s][1].from_status = "absent"
            /\ history[s][Len(history[s])].to_status = status[s]
        /\ \A i \in 1 .. Len(history[s]) - 1 :
            history[s][i + 1].from_status = history[s][i].to_status

(* A verdict is never replaced by another one directly: between two        *)
(* verdicts of a submission it was queued and judged again.                *)
VerdictsAreEarned ==
    \A s \in Submission : \A i \in 1 .. Len(history[s]) :
        history[s][i].to_status \in FinalStatus =>
            history[s][i].from_status = "judging"
=============================================================================
