--------------------------- MODULE MCJudgeAttempt ---------------------------
(***************************************************************************)
(* Instances of JudgeAttempt: one worker and many kinds of runs, and       *)
(* workers that meet at one submission.                                    *)
(***************************************************************************)
EXTENDS JudgeAttempt, TLC

CONSTANTS w1, w2, s1, s2

Cpp == [s \in Submissions |-> "cpp"]
OfEachKind == [s \in Submissions |-> IF s = s1 THEN "java" ELSE "python"]

Accepted ==
    [exit_code |-> 0, signal |-> "none", killed |-> FALSE, wall |-> 1, cpu |-> 1, rss |-> 1,
     output |-> 1, bad_alloc |-> FALSE, right |-> TRUE]
Signaled(signal) == [Accepted EXCEPT !.signal = signal, !.exit_code = 128, !.right = FALSE]

SomeExecutions == {Accepted, [Accepted EXCEPT !.wall = 2]}

(* One symptom each, and pairs of them. *)
ManyExecutions ==
    SomeExecutions \cup
    {[Accepted EXCEPT !.right = FALSE], [Signaled("SIGSEGV") EXCEPT !.bad_alloc = TRUE],
     [Accepted EXCEPT !.cpu = 2], [Accepted EXCEPT !.rss = 2], [Accepted EXCEPT !.killed = TRUE],
     [Accepted EXCEPT !.exit_code = 1], [Accepted EXCEPT !.exit_code = 1, !.bad_alloc = TRUE],
     [Accepted EXCEPT !.output = 2, !.rss = 2], [Signaled("SIGKILL") EXCEPT !.killed = TRUE, !.wall = 2],
     Signaled("SIGXCPU"), Signaled("SIGXFSZ"), Signaled("SIGABRT"),
     [Signaled("SIGSEGV") EXCEPT !.output = 2]}

Compiled == [exit_code |-> 0, signaled |-> FALSE, killed |-> FALSE, cause |-> "none"]

SomeCompilations == {Compiled, [Compiled EXCEPT !.exit_code = 1, !.cause = "source"]}

ManyCompilations ==
    SomeCompilations \cup
    {[Compiled EXCEPT !.killed = TRUE],
     [Compiled EXCEPT !.exit_code = 1, !.cause = "memory"],
     [Compiled EXCEPT !.exit_code = 137, !.signaled = TRUE, !.cause = "memory"],
     [Compiled EXCEPT !.exit_code = 137, !.signaled = TRUE, !.killed = TRUE, !.cause = "time"],
     [Compiled EXCEPT !.exit_code = 1, !.killed = TRUE, !.cause = "time"]}

WorkersAreAlike == Permutations(Workers)
=============================================================================
