---------------------------- MODULE JudgeAttempt ----------------------------
(***************************************************************************)
(* What a judge worker does with a leased submission                       *)
(* (submission_processor::process): mark it judging, prepare a workspace,  *)
(* write the source, build, acquire the testcases, run the program on each *)
(* of them, evaluate, report the completion, remove the workspace.  The    *)
(* workspace is the directory source_root/submission_id/attempt_no, found  *)
(* again by its path in every step; the queue gives a submission to        *)
(* another worker when the lease has expired, and numbers its attempts     *)
(* from 1 again when it is rejudged.                                       *)
(***************************************************************************)
EXTENDS JudgeVerdict

CONSTANTS
    Workers,
    Submissions,
    LanguageOf,      \* the language of a submission: "cpp", "java" or "python"
    Compilations,    \* the compiler runs that may happen
    Executions,      \* the runs of a program that may happen
    CaseCounts,      \* how many testcases a version may have
    BrokenToolchain, \* whether the paths of compiler and runtime lead nowhere
    LateWorkers,     \* whether a rejudge may come while a worker is still at the submission
    MaxAttempts,     \* bound: leases of a submission between two rejudges
    MaxRejudges,     \* bound: rejudges of a submission
    MaxFaults,       \* bound: crashes and failed file, sandbox or database operations
    None             \* no worker, no lease

ASSUME LanguageAssumption == LanguageOf \in [Submissions -> {"cpp", "java", "python"}]
(* A compiler that finds an error exits with it, one that takes too long   *)
(* is ended, and one that nothing is wrong with succeeds.                  *)
ASSUME CompilationsAssumption ==
    /\ Compilations \subseteq Compilation
    /\ \A c \in Compilations :
        /\ c.cause # "toolchain"
        /\ c.cause = "none" => IsSuccess(c)
        /\ c.cause = "source" => IsUserExitFailure(c)
        /\ c.cause = "time" => c.killed \/ c.signaled
(* A run that a signal ended has the exit code 128 + signal. *)
ASSUME ExecutionsAssumption ==
    Executions \subseteq Execution /\ \A e \in Executions : e.signal # "none" => e.exit_code # 0
ASSUME CountsAssumption == CaseCounts \subseteq Nat
ASSUME SwitchesAssumption == BrokenToolchain \in BOOLEAN /\ LateWorkers \in BOOLEAN
ASSUME BoundsAssumption == MaxAttempts \in Nat /\ MaxRejudges \in Nat /\ MaxFaults \in Nat

VARIABLES
    row,         \* the queue row of a submission, how often it was rejudged, and whether
                 \* a worker was at it when that happened last
    result,      \* the result in the submissions table, with what it was made of
    dir,         \* the workspace directories
    pc,          \* where each worker is
    lease,       \* what it has leased
    session,     \* whether it has a workspace_session, which removes the directory
    cases,       \* how many testcases the acquired version has
    report,      \* the runs so far, with the program that ran
    completion,  \* what it will tell the queue
    faults

vars == <<row, result, dir, pc, lease, session, cases, report, completion, faults>>
queue == <<row, result>>
work == <<session, cases, report>>

(* A lease tells the lives of a submission apart; its directory does not.  *)
Lease == [submission: Submissions, attempt_no: 1..MaxAttempts, life: 0..MaxRejudges]
Row == [state: {"queued", "leased", "absent"}, attempt_no: 0..MaxAttempts,
        owner: Workers \cup {None}, life: 0..MaxRejudges, late: BOOLEAN]
Path == Submissions \X (1..MaxAttempts)

ASSUME NoneAssumption == None \notin Lease

\* Mutant of PathOf: one directory for all attempts at a submission.
PathOfSubmission(l) == <<l.submission, 1>>

(* make_workspace_path *)
PathOf(l) == <<l.submission, l.attempt_no>>

(* The files of a directory are known by the lease that wrote them. *)
Directory == [exists: BOOLEAN, source: Lease \cup {None}, program: Lease \cup {None}]
NoDirectory == [exists |-> FALSE, source |-> None, program |-> None]
EmptyDirectory == [NoDirectory EXCEPT !.exists = TRUE]

(* A run on a testcase: what the sandbox reported, and whose program ran.  *)
NotFound ==
    [exit_code |-> 127, signal |-> "none", killed |-> FALSE, wall |-> 0, cpu |-> 0, rss |-> 0,
     output |-> 0, bad_alloc |-> FALSE, right |-> FALSE]
Run == [execution: Executions \cup {NotFound}, program: Lease \cup {None}]
Runs(r) == [i \in DOMAIN r |-> r[i].execution]

ErrorCode == {"unavailable", "internal"}

(* {} is std::nullopt.  A completion remembers the compiler run behind it, *)
(* a result also the runs and the lease.                                   *)
Completion ==
    [kind: {"none", "requeue", "finalize"}, status: FinalStatus \cup {"none"}, score: SUBSET {0, 100},
     elapsed: SUBSET Nat, max_rss: SUBSET Nat, compilation: SUBSET Compilation]
NoCompletion ==
    [kind |-> "none", status |-> "none", score |-> {}, elapsed |-> {}, max_rss |-> {},
     compilation |-> {}]
Requeue == [NoCompletion EXCEPT !.kind = "requeue"]
NoResult == [outcome |-> NoCompletion, report |-> <<>>, cases |-> 0, lease |-> None]

Init ==
    /\ row = [s \in Submissions |-> [state |-> "queued", attempt_no |-> 0, owner |-> None,
                                     life |-> 0, late |-> FALSE]]
    /\ result = [s \in Submissions |-> NoResult]
    /\ dir = [p \in Path |-> NoDirectory]
    /\ pc = [w \in Workers |-> "idle"]
    /\ lease = [w \in Workers |-> None]
    /\ session = [w \in Workers |-> FALSE]
    /\ cases = [w \in Workers |-> 0]
    /\ report = [w \in Workers |-> <<>>]
    /\ completion = [w \in Workers |-> NoCompletion]
    /\ faults = 0

Goto(w, state) == pc' = [pc EXCEPT ![w] = state]
Workspace(w) == dir[PathOf(lease[w])]
SetWorkspace(w, d) == dir' = [dir EXCEPT ![PathOf(lease[w])] = d]
Fault == faults < MaxFaults /\ faults' = faults + 1

(* The queue row still names the lease of w. *)
Owns(w) ==
    LET r == row[lease[w].submission]
    IN  /\ r.state = "leased"
        /\ r.owner = w
        /\ r.attempt_no = lease[w].attempt_no
        /\ r.life = lease[w].life

-----------------------------------------------------------------------------
(* lease_submission: a queued submission, or one whose lease has expired.  *)
LeaseSubmission(w, s) ==
    /\ pc[w] = "idle"
    /\ row[s].state \in {"queued", "leased"}
    /\ row[s].attempt_no < MaxAttempts
    /\ row' = [row EXCEPT ![s].state = "leased", ![s].owner = w, ![s].attempt_no = @ + 1]
    /\ lease' = [lease EXCEPT ![w] = [submission |-> s, attempt_no |-> row[s].attempt_no + 1,
                                      life |-> row[s].life]]
    /\ Goto(w, "leased")
    /\ UNCHANGED <<result, dir, work, completion, faults>>

WorkersAt(s) == {w \in Workers : lease[w] # None /\ lease[w].submission = s}

(* rejudge_submission: a new queue row, whose attempt_no is 0. *)
Rejudge(s) ==
    /\ row[s].state = "absent"
    /\ row[s].life < MaxRejudges
    /\ ~LateWorkers => WorkersAt(s) = {}
    /\ row' = [row EXCEPT ![s] = [state |-> "queued", attempt_no |-> 0, owner |-> None,
                                  life |-> @.life + 1, late |-> WorkersAt(s) # {}]]
    /\ result' = [result EXCEPT ![s] = NoResult]
    /\ UNCHANGED <<dir, pc, lease, work, completion, faults>>

(* process returns, and what it had is destroyed. *)
Leave(w, state) ==
    /\ Goto(w, state)
    /\ lease' = [lease EXCEPT ![w] = None]
    /\ session' = [session EXCEPT ![w] = FALSE]
    /\ cases' = [cases EXCEPT ![w] = 0]
    /\ report' = [report EXCEPT ![w] = <<>>]
    /\ completion' = [completion EXCEPT ![w] = NoCompletion]

MarkJudging(w) ==
    /\ pc[w] = "leased"
    /\ Owns(w)
    /\ Goto(w, "preparing")
    /\ UNCHANGED <<queue, dir, lease, work, completion, faults>>

(* An error of process ends judge_worker::run. *)
MarkJudgingFails(w) ==
    /\ pc[w] = "leased"
    /\ IF Owns(w) THEN Fault ELSE UNCHANGED faults
    /\ Leave(w, "down")
    /\ UNCHANGED <<queue, dir>>

-----------------------------------------------------------------------------
(* prepare_workspace: whatever is there is removed first ... *)
PrepareWorkspace(w) ==
    /\ pc[w] = "preparing"
    /\ SetWorkspace(w, NoDirectory)
    /\ Goto(w, "creating")
    /\ UNCHANGED <<queue, lease, work, completion, faults>>

(* ... and create_directories is content with a directory that exists. *)
CreateWorkspace(w) ==
    /\ pc[w] = "creating"
    /\ SetWorkspace(w, IF Workspace(w).exists THEN Workspace(w) ELSE EmptyDirectory)
    /\ session' = [session EXCEPT ![w] = TRUE]
    /\ Goto(w, "writing")
    /\ UNCHANGED <<queue, lease, cases, report, completion, faults>>

(* create_file writes a temporary file in the directory and renames it. *)
WriteSource(w) ==
    /\ pc[w] = "writing"
    /\ Workspace(w).exists
    /\ SetWorkspace(w, [Workspace(w) EXCEPT !.source = lease[w]])
    /\ Goto(w, "building")
    /\ UNCHANGED <<queue, lease, work, completion, faults>>

(* to_finalize_request; an infra failure has no score and no measures. *)
Finalize(status, runs) ==
    [kind |-> "finalize", status |-> status, score |-> ScoreOf(status),
     elapsed |-> ElapsedOf(runs), max_rss |-> MaxRssOf(runs), compilation |-> {}]

(* decide_retry_directive *)
InfraFailure(code) ==
    IF code = "unavailable" THEN Requeue ELSE Finalize("infra_failure", <<>>)

Complete(w, c) ==
    /\ completion' = [completion EXCEPT ![w] = c]
    /\ Goto(w, "completing")

(* python_artifact_builder: the source is the program. *)
BuildPython(w) ==
    /\ pc[w] = "building"
    /\ LanguageOf[lease[w].submission] = "python"
    /\ Goto(w, "acquiring")
    /\ UNCHANGED <<queue, dir, lease, work, completion, faults>>

Compiles(w) ==
    /\ pc[w] = "building"
    /\ LanguageOf[lease[w].submission] # "python"
    /\ Workspace(w).exists

(* The compiler of a broken path, or one without its source, exits with an *)
(* error of its own.                                                       *)
NoCompiler == [exit_code |-> 255, signaled |-> FALSE, killed |-> FALSE, cause |-> "toolchain"]
NoSource == [exit_code |-> 1, signaled |-> FALSE, killed |-> FALSE, cause |-> "source"]
CompilationsOf(w) ==
    IF BrokenToolchain THEN {NoCompiler}
    ELSE IF Workspace(w).source = None THEN {NoSource}
    ELSE Compilations

CompileFailure(c) == [Finalize(BuildStatus(c), <<>>) EXCEPT !.compilation = {c}]

(* The program is program.out, or the classes next to the source. *)
Compile(w, c) ==
    /\ Compiles(w)
    /\ c \in CompilationsOf(w)
    /\ IsSuccess(c)
    /\ SetWorkspace(w, [Workspace(w) EXCEPT !.program = Workspace(w).source])
    /\ Goto(w, "acquiring")
    /\ UNCHANGED <<queue, lease, work, completion, faults>>

CompileFails(w, c) ==
    /\ Compiles(w)
    /\ c \in CompilationsOf(w)
    /\ ~IsSuccess(c)
    /\ Complete(w, CompileFailure(c))
    /\ UNCHANGED <<queue, dir, lease, work, faults>>

BuildCpp(w, c) ==
    lease[w] # None /\ LanguageOf[lease[w].submission] = "cpp" /\ (Compile(w, c) \/ CompileFails(w, c))

BuildJava(w, c) ==
    lease[w] # None /\ LanguageOf[lease[w].submission] = "java" /\ (Compile(w, c) \/ CompileFails(w, c))

AcquireTestcases(w, n) ==
    /\ pc[w] = "acquiring"
    /\ cases' = [cases EXCEPT ![w] = n]
    /\ Goto(w, "running")
    /\ UNCHANGED <<queue, dir, lease, session, report, completion, faults>>

(* make_execution_plan: where the program to run is. *)
EntryOf(w) ==
    IF LanguageOf[lease[w].submission] = "python"
    THEN Workspace(w).source
    ELSE Workspace(w).program

(* The runtime of Java and Python is a tool, and nsjail starts nothing     *)
(* that is not there.                                                      *)
CannotStart(w) ==
    \/ EntryOf(w) = None
    \/ BrokenToolchain /\ LanguageOf[lease[w].submission] # "cpp"

RunTestcase(w, e) ==
    /\ pc[w] = "running"
    /\ Len(report[w]) < cases[w]
    /\ Workspace(w).exists
    /\ IF CannotStart(w) THEN e = NotFound ELSE e \in Executions
    /\ report' = [report EXCEPT ![w] = Append(@, [execution |-> e, program |-> EntryOf(w)])]
    /\ UNCHANGED <<queue, dir, pc, lease, session, cases, completion, faults>>

(* The default execution_policy runs all testcases whatever happens. *)
FinishRuns(w) ==
    /\ pc[w] = "running"
    /\ Len(report[w]) = cases[w]
    /\ Goto(w, "reading")
    /\ UNCHANGED <<queue, dir, lease, work, completion, faults>>

(* The expected outputs are files of the snapshot. *)
ReadExpectations(w) ==
    /\ pc[w] = "reading"
    /\ Goto(w, "evaluating")
    /\ UNCHANGED <<queue, dir, lease, work, completion, faults>>

(* judge_evaluator::evaluate_execution *)
Evaluate(w) ==
    /\ pc[w] = "evaluating"
    /\ Complete(w, Finalize(CheckResult(Runs(report[w]), cases[w]), Runs(report[w])))
    /\ UNCHANGED <<queue, dir, lease, work, faults>>

Fallible == {"preparing", "creating", "writing", "building", "acquiring", "running", "reading"}

(* Any call may fail; the first error is the completion of the attempt.    *)
(* Without a session nothing removes what prepare_workspace left.          *)
StepFails(w, code) ==
    /\ pc[w] \in Fallible
    /\ Fault
    /\ Complete(w, InfraFailure(code))
    /\ UNCHANGED <<queue, dir, lease, work>>

(* A directory that is gone is an error of create_file and of the sandbox. *)
WorkspaceIsGone(w) ==
    /\ \/ pc[w] = "writing"
       \/ pc[w] = "building" /\ LanguageOf[lease[w].submission] # "python"
       \/ pc[w] = "running" /\ Len(report[w]) < cases[w]
    /\ ~Workspace(w).exists
    /\ Complete(w, InfraFailure("internal"))
    /\ UNCHANGED <<queue, dir, lease, work, faults>>

\* Mutant of ApplyCompletion: a worker that lost its lease writes its result.
ApplyAnyway(w) ==
    LET s == lease[w].submission
    IN  /\ pc[w] = "completing"
        /\ row' = [row EXCEPT ![s].state = "absent", ![s].owner = None]
        /\ result' = [result EXCEPT ![s] =
               [outcome |-> completion[w], report |-> report[w], cases |-> cases[w],
                lease |-> lease[w]]]
        /\ Goto(w, "closing")
        /\ UNCHANGED <<dir, lease, work, completion, faults>>

-----------------------------------------------------------------------------
(* apply_completion: the row must still carry the lease. *)
ApplyCompletion(w) ==
    LET s == lease[w].submission
    IN  /\ pc[w] = "completing"
        /\ Owns(w)
        /\ IF completion[w].kind = "requeue"
           THEN /\ row' = [row EXCEPT ![s].state = "queued", ![s].owner = None]
                /\ UNCHANGED result
           ELSE /\ row' = [row EXCEPT ![s].state = "absent", ![s].owner = None]
                /\ result' = [result EXCEPT ![s] =
                       [outcome |-> completion[w], report |-> report[w], cases |-> cases[w],
                        lease |-> lease[w]]]
        /\ Goto(w, "closing")
        /\ UNCHANGED <<dir, lease, work, completion, faults>>

ApplyCompletionFails(w) ==
    /\ pc[w] = "completing"
    /\ IF Owns(w) THEN Fault ELSE UNCHANGED faults
    /\ Goto(w, "failing")
    /\ UNCHANGED <<queue, dir, lease, work, completion>>

(* remove_all takes the files before the directory. *)
EmptyWorkspace(w) ==
    /\ pc[w] \in {"closing", "failing"}
    /\ session[w]
    /\ Workspace(w).exists /\ Workspace(w) # EmptyDirectory
    /\ SetWorkspace(w, EmptyDirectory)
    /\ UNCHANGED <<queue, pc, lease, work, completion, faults>>

(* close_workspace_best_effort, and the destructor if it fails; the error  *)
(* of an attempt that could not be reported ends the worker.               *)
CloseWorkspace(w) ==
    /\ pc[w] \in {"closing", "failing"}
    /\ IF session[w] THEN SetWorkspace(w, NoDirectory) ELSE UNCHANGED dir
    /\ Leave(w, IF pc[w] = "closing" THEN "idle" ELSE "down")
    /\ UNCHANGED <<queue, faults>>

CloseWorkspaceFails(w) ==
    /\ pc[w] \in {"closing", "failing"}
    /\ session[w]
    /\ Fault
    /\ Leave(w, IF pc[w] = "closing" THEN "idle" ELSE "down")
    /\ UNCHANGED <<queue, dir>>

Crash(w) ==
    /\ pc[w] \notin {"idle", "down"}
    /\ Fault
    /\ Leave(w, "down")
    /\ UNCHANGED <<queue, dir>>

(* The judge server is started again. *)
Restart(w) ==
    /\ pc[w] = "down"
    /\ Goto(w, "idle")
    /\ UNCHANGED <<queue, dir, lease, work, completion, faults>>

WorkerStep(w) ==
    \/ \E s \in Submissions : LeaseSubmission(w, s)
    \/ MarkJudging(w) \/ MarkJudgingFails(w)
    \/ PrepareWorkspace(w) \/ CreateWorkspace(w) \/ WriteSource(w)
    \/ BuildPython(w)
    \/ \E c \in Compilations \cup {NoCompiler, NoSource} : BuildCpp(w, c) \/ BuildJava(w, c)
    \/ \E n \in CaseCounts : AcquireTestcases(w, n)
    \/ \E e \in Executions \cup {NotFound} : RunTestcase(w, e)
    \/ FinishRuns(w) \/ ReadExpectations(w) \/ Evaluate(w)
    \/ \E code \in ErrorCode : StepFails(w, code)
    \/ WorkspaceIsGone(w)
    \/ ApplyCompletion(w) \/ ApplyCompletionFails(w)
    \/ EmptyWorkspace(w) \/ CloseWorkspace(w) \/ CloseWorkspaceFails(w)
    \/ Crash(w) \/ Restart(w)

Next ==
    \/ \E w \in Workers : WorkerStep(w)
    \/ \E s \in Submissions : Rejudge(s)

Spec == Init /\ [][Next]_vars

-----------------------------------------------------------------------------
States == {"idle", "leased", "completing", "closing", "failing", "down", "evaluating"} \cup Fallible

(* The variables keep their types. *)
TypeOK ==
    /\ row \in [Submissions -> Row]
    /\ dir \in [Path -> Directory]
    /\ pc \in [Workers -> States]
    /\ lease \in [Workers -> Lease \cup {None}]
    /\ session \in [Workers -> BOOLEAN]
    /\ cases \in [Workers -> CaseCounts \cup {0}]
    /\ \A w \in Workers : report[w] \in Seq(Run) /\ Len(report[w]) <= cases[w]
    /\ completion \in [Workers -> Completion]
    /\ \A s \in Submissions : result[s].outcome \in Completion /\ result[s].report \in Seq(Run)
    /\ faults \in 0..MaxFaults

Clean(e) ==
    /\ e.exit_code = 0 /\ e.signal = "none" /\ ~e.killed
    /\ e.wall <= TimeLimit /\ e.cpu <= TimeLimit
    /\ e.rss <= MemoryLimit /\ e.output <= OutputLimit

Shows(e, status) ==
    CASE status = "time_limit_exceeded" ->
            e.killed \/ e.signal = "SIGXCPU" \/ e.wall > TimeLimit \/ e.cpu > TimeLimit
      [] status = "memory_limit_exceeded" ->
            e.rss > MemoryLimit \/ e.signal = "SIGSEGV" \/ e.bad_alloc
      [] status = "output_exceeded" -> e.output > OutputLimit \/ e.signal = "SIGXFSZ"
      [] status = "runtime_error" -> e.exit_code # 0

(* Why a compiler failed that the judge cannot tell from one that found an *)
(* error: both only exit with a code of their own.                         *)
Indistinct == {"memory", "toolchain"}

(* A stored verdict follows from the runs behind it: all testcases ran and *)
(* were clean for an accepted or wrong answer, and the difference is the   *)
(* output; any other verdict is the symptom of one testcase, and all those *)
(* before it were clean; a compiler verdict has a failed compiler run and  *)
(* no other, and is compile_error for an error in the source and           *)
(* build_resource_exceeded for a compiler that took too long               *)
(* (judge_policy::check_result, make_compile_failure_artifact).  What it   *)
(* is for the other causes, CompileFailuresAreToldApart is about.          *)
VerdictFollowsTheRuns ==
    \A s \in Submissions :
        LET status == result[s].outcome.status
            runs == Runs(result[s].report)
        IN  /\ status \in {"accepted", "wrong_answer"} =>
                /\ Len(runs) = result[s].cases
                /\ \A i \in DOMAIN runs : Clean(runs[i])
                /\ status = "accepted" <=> \A i \in DOMAIN runs : runs[i].right
            /\ status \in {"time_limit_exceeded", "memory_limit_exceeded", "output_exceeded",
                           "runtime_error"} =>
                \E i \in DOMAIN runs :
                    Shows(runs[i], status) /\ \A j \in 1..(i - 1) : Clean(runs[j])
            /\ status \in {"compile_error", "build_resource_exceeded"} =>
                /\ runs = <<>>
                /\ \E c \in result[s].outcome.compilation :
                    /\ ~IsSuccess(c)
                    /\ c.cause \notin Indistinct =>
                        (status = "compile_error" <=> c.cause = "source")

(* An author reads compile_error only of an error in his source: a         *)
(* compiler that runs out of memory is a resource that is exceeded, and a  *)
(* broken toolchain a failure of the infrastructure                        *)
(* (submission_schema.md, "internal build outcome model").                 *)
CompileFailuresAreToldApart ==
    \A s \in Submissions :
        result[s].outcome.status = "compile_error" =>
            \A c \in result[s].outcome.compilation : c.cause \notin Indistinct

(* What is stored with a verdict fits it: 100 points for an accepted       *)
(* answer only, no points when the infrastructure failed, and the measures *)
(* bound those of every run (submission_decision::to_finalize_request).    *)
ResultFitsTheReport ==
    \A s \in Submissions :
        LET r == result[s] IN
        r.outcome.kind = "finalize" =>
            /\ r.outcome.score = {100} <=> r.outcome.status = "accepted"
            /\ r.outcome.score = {} <=> r.outcome.status = "infra_failure"
            /\ r.outcome.status \in {"compile_error", "infra_failure"} => r.outcome.elapsed = {}
            /\ r.outcome.status \notin {"compile_error", "build_resource_exceeded", "infra_failure"} =>
                \A i \in DOMAIN r.report : \E t \in r.outcome.elapsed, m \in r.outcome.max_rss :
                    r.report[i].execution.wall <= t /\ r.report[i].execution.rss <= m

(* What a reader sees of a submission is what its runs gave it: verdict,   *)
(* score and measures (judge_policy and submission_decision).              *)
VerdictIsDeserved == VerdictFollowsTheRuns /\ ResultFitsTheReport

(* The result of a rejudged submission is never that of a worker which     *)
(* leased it before the rejudge, and a submission that waits or is being   *)
(* judged has none (finalize_submission checks the lease).                 *)
ResultIsOfThisLife ==
    \A s \in Submissions : result[s].outcome.kind = "finalize" =>
        row[s].state = "absent" /\ result[s].lease.life = row[s].life

(* The directory of a worker is no other's: the path is that of an attempt *)
(* (workspace_manager::make_workspace_path).                               *)
IsPrivate(w) ==
    \A v \in Workers \ {w} : session[v] /\ session[w] => PathOf(lease[v]) # PathOf(lease[w])

WorkspaceIsPrivate == \A w \in Workers : IsPrivate(w)

(* A worker writes its source into an empty directory, whatever an earlier *)
(* attempt or a crash left there (workspace_manager::prepare_workspace).   *)
StartsEmpty(w) == pc[w] = "writing" => Workspace(w) = EmptyDirectory

(* Every run counted for a submission is one of the program that the same  *)
(* attempt built (program_executor::run after submission_builder::build).  *)
RunsWhatItBuilt(w) == \A i \in DOMAIN report[w] : report[w][i].program = lease[w]

InUse(p) == \E w \in Workers : session[w] /\ PathOf(lease[w]) = p

(* Only a crash or a failed removal leaves a workspace behind: every way   *)
(* out of process passes close or the destructor of workspace_session.     *)
Abandoned == {p \in Path : dir[p].exists /\ ~InUse(p)}
NothingIsLeftBehind == Cardinality(Abandoned) <= faults

(* Only a fault leaves a directory behind.  A worker has its directory for *)
(* itself, writes its source into an empty one and runs what it has built  *)
(* there, unless somebody was still at the submission when it was last     *)
(* rejudged: then all three are lost (workspace_manager,                   *)
(* workspace_session).                                                     *)
WorkspacesAreTheirOwn ==
    /\ TypeOK
    /\ NothingIsLeftBehind
    /\ \A w \in Workers : lease[w] # None /\ ~row[lease[w].submission].late =>
            IsPrivate(w) /\ StartsEmpty(w) /\ RunsWhatItBuilt(w)
=============================================================================
