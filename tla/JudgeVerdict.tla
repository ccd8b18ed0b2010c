---------------------------- MODULE JudgeVerdict ----------------------------
(***************************************************************************)
(* How the judge makes a status of what the sandbox reports: the compiler  *)
(* run (program_build_support), the run of each testcase                   *)
(* (execution_failure_classifier), the whole report (judge_policy) and the *)
(* row that is written (submission_decision, submission_completion_policy).*)
(* A measure stands for milliseconds, kilobytes or bytes.                  *)
(***************************************************************************)
EXTENDS Integers, Sequences, FiniteSetsExt

CONSTANTS
    TimeLimit,      \* the limits of the problem
    MemoryLimit,
    OutputLimit     \* output_file_limit_mb

ASSUME LimitsAssumption == {TimeLimit, MemoryLimit, OutputLimit} \subseteq Nat \ {0}

(* sandbox_runner::run_result of a testcase, and whether stdout_text is    *)
(* what the testcase expects once both are normalized.                     *)
Execution ==
    [exit_code: Nat, signal: {"none", "SIGXCPU", "SIGXFSZ", "SIGSEGV", "SIGKILL", "SIGABRT"},
     killed: BOOLEAN, wall: Nat, cpu: Nat, rss: Nat, output: Nat, bad_alloc: BOOLEAN,
     right: BOOLEAN]

(* The compiler run, and what made it end that way. *)
Compilation ==
    [exit_code: Nat, signaled: BOOLEAN, killed: BOOLEAN,
     cause: {"none", "source", "memory", "time", "toolchain"}]

UserFailure == {"wrong_answer", "time_limit_exceeded", "memory_limit_exceeded", "runtime_error",
                "compile_error", "output_exceeded", "build_resource_exceeded"}
FinalStatus == UserFailure \cup {"accepted", "infra_failure"}

ExceededTimeLimit(e) ==
    e.killed \/ e.signal = "SIGXCPU" \/ e.wall > TimeLimit \/ e.cpu > TimeLimit

ExceededOutputLimit(e) == e.output > OutputLimit \/ e.signal = "SIGXFSZ"

ExceededMemoryLimit(e) ==
    \/ e.rss > MemoryLimit
    \/ e.signal = "SIGSEGV"
    \/ e.exit_code # 0 /\ e.bad_alloc

(* execution_failure_classifier::classify *)
Classify(e) ==
    IF ExceededTimeLimit(e) THEN "time_limit_exceeded"
    ELSE IF ExceededOutputLimit(e) THEN "output_exceeded"
    ELSE IF ExceededMemoryLimit(e) THEN "memory_limit_exceeded"
    ELSE IF e.exit_code # 0 THEN "runtime_error"
    ELSE "none"

-----------------------------------------------------------------------------
(* checker::check_all: as many outputs as expectations, all of them right. *)
CheckAll(report, cases) ==
    IF Len(report) = cases /\ \A i \in 1..cases : report[i].right
    THEN "accepted"
    ELSE "wrong_answer"

Failed(report) == {i \in DOMAIN report : Classify(report[i]) # "none"}

\* Mutant of CheckResult: the last failure is the verdict.
LastFailure(report, cases) ==
    IF Failed(report) # {}
    THEN Classify(report[Max(Failed(report))])
    ELSE CheckAll(report, cases)

(* judge_policy::check_result: the first testcase whose run failed decides *)
(* before any output is compared.                                          *)
CheckResult(report, cases) ==
    IF Failed(report) # {}
    THEN Classify(report[Min(Failed(report))])
    ELSE CheckAll(report, cases)

(* make_score: 100 or 0, std::nullopt when the infrastructure failed. *)
ScoreOf(status) ==
    CASE status = "accepted"      -> {100}
      [] status = "infra_failure" -> {}
      [] OTHER                    -> {0}

(* calculate_elapsed_ms, calculate_max_rss_kb: {} is std::nullopt. *)
Largest(values) == IF values = {} THEN {} ELSE {Max(values)}

ElapsedOf(report) == Largest({report[i].wall : i \in DOMAIN report})

MaxRssOf(report) == Largest({report[i].rss : i \in DOMAIN report})

-----------------------------------------------------------------------------
IsSuccess(c) == c.exit_code = 0 /\ ~c.signaled
IsUserExitFailure(c) == c.exit_code # 0 /\ ~c.signaled /\ ~c.killed

(* make_compile_failure_artifact, make_build_completion *)
BuildStatus(c) ==
    IF IsUserExitFailure(c) THEN "compile_error" ELSE "build_resource_exceeded"
=============================================================================
