---------------------------- MODULE MCJudgeQueue ----------------------------
(***************************************************************************)
(* JudgeQueue with the constants of its model-checking runs.               *)
(***************************************************************************)
EXTENDS JudgeQueue, TLC

CONSTANTS p1, u1

(* Two submissions of one user for one problem share every counter row.    *)
OneProblem == [s \in Submission |-> p1]
OneUser == [s \in Submission |-> u1]

MCToken == 1 .. 5

Symmetry == Permutations(Worker) \cup Permutations(Submission)
=============================================================================
