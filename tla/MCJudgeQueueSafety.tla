------------------------- MODULE MCJudgeQueueSafety -------------------------
(***************************************************************************)
(* JudgeQueue in three instances that one run checks: workers that fail    *)
(* and come late, one that comes late with another verdict, and verdicts   *)
(* of every kind that come and go with rejudges.  `part` says which of     *)
(* them a behaviour is of.                                                 *)
(***************************************************************************)
EXTENDS MCJudgeQueue

VARIABLE part

Faults == INSTANCE JudgeQueue WITH
    Verdict <- {"wrong_answer"}, MaxEnqueue <- 3
Disagreeing == INSTANCE JudgeQueue WITH
    Verdict <- {"accepted", "wrong_answer"}, MaxEnqueue <- 3, MaxFault <- 1
Verdicts == INSTANCE JudgeQueue WITH MaxFault <- 0

PartsInit == part \in {"faults", "disagreeing", "verdicts"} /\ Init

PartsNext ==
    /\ \/ part = "faults" /\ Faults!Next
       \/ part = "disagreeing" /\ Disagreeing!Next
       \/ part = "verdicts" /\ Verdicts!Next
    /\ UNCHANGED part

PartsSpec == PartsInit /\ [][PartsNext]_<<vars, part>>
=============================================================================
