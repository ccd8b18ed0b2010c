--------------------------- MODULE MCJudgeAttempts ---------------------------
(***************************************************************************)
(* Four instances of JudgeAttempt for one run; `part` says which of them  *)
(* a behaviour is of.  "workspaces": two workers, a Java and a Python      *)
(* submission, a rejudge.  "late": two workers at one C++ submission, and  *)
(* a rejudge at any time.  "verdicts": one worker, one attempt, and every  *)
(* kind of compiler run and of runs on up to three testcases.  "broken": a *)
(* toolchain whose paths lead nowhere.                                     *)
(***************************************************************************)
EXTENDS MCJudgeAttempt

VARIABLE part

Workspaces == INSTANCE JudgeAttempt WITH
    Compilations <- SomeCompilations, Executions <- SomeExecutions, CaseCounts <- {1}

Late == INSTANCE JudgeAttempt WITH
    Compilations <- SomeCompilations, Executions <- SomeExecutions, CaseCounts <- {1},
    LanguageOf <- Cpp, LateWorkers <- TRUE

Verdicts == INSTANCE JudgeAttempt WITH LanguageOf <- Cpp, MaxRejudges <- 0

Broken == INSTANCE JudgeAttempt WITH
    Compilations <- SomeCompilations, Executions <- SomeExecutions, CaseCounts <- {1},
    MaxRejudges <- 0, BrokenToolchain <- TRUE

PartsInit == part \in {"workspaces", "late", "verdicts", "broken"} /\ Init

PartsNext ==
    /\ \/ part = "workspaces" /\ Workspaces!Next
       \/ part = "late" /\ Late!Next /\ row'[s2] = row[s2]
       \/ /\ part = "verdicts"
          /\ Verdicts!Next
          /\ row'[s2] = row[s2] /\ row'[s1].attempt_no <= 1
          /\ \E w \in Workers : pc'[w] = "idle"
       \/ /\ part = "broken"
          /\ Broken!Next
          /\ \A s \in Submissions : row'[s].attempt_no <= 1
    /\ UNCHANGED part

PartsSpec == PartsInit /\ [][PartsNext]_<<vars, part>>
=============================================================================
