------------------------- MODULE JudgeAttemptProofs -------------------------
(***************************************************************************)
(* Proofs about JudgeAttempt, for any workers, submissions, languages,     *)
(* compilers, runs, testcases, faults and rejudges: a verdict follows from *)
(* the runs behind it, the result of a submission is one of its present    *)
(* life, and workers do not meet in a workspace unless somebody was at the *)
(* submission when it was rejudged.                                        *)
(***************************************************************************)
EXTENDS JudgeAttempt, FiniteSetTheorems, SequenceTheorems, WellFoundedInduction, TLAPS

Result ==
    [outcome: Completion, report: Seq(Run), cases: CaseCounts \cup {0}, lease: Lease \cup {None}]

(* TypeOK, and the type of what it looks into. *)
Types ==
    /\ TypeOK
    /\ report \in [Workers -> Seq(Run)]
    /\ result \in [Submissions -> Result]

(* The compiler runs there can be. *)
Possible == Compilations \cup {NoCompiler, NoSource}

(* How a worker may come to its completion, and a submission to its result *)
(* with n testcases.                                                       *)
Justified(o, runs, n) ==
    \/ o \in {NoCompletion, Requeue, Finalize("infra_failure", <<>>)}
    \/ runs = <<>> /\ \E c \in Possible : ~IsSuccess(c) /\ o = CompileFailure(c)
    \/ Len(runs) = n /\ o = Finalize(CheckResult(Runs(runs), n), Runs(runs))

Idle == {"idle", "down"}
BeforeWorkspace == {"leased", "preparing", "creating"}
BeforeRuns == Idle \cup BeforeWorkspace \cup {"writing", "building", "acquiring"}
InWorkspace == {"writing", "building", "acquiring", "running", "reading", "evaluating"}

(* What a worker has depends on where it is. *)
PhaseOf(w) ==
    /\ lease[w] = None <=> pc[w] \in Idle
    /\ pc[w] \in InWorkspace => session[w]
    /\ session[w] => pc[w] \notin Idle \cup BeforeWorkspace
    /\ pc[w] \in BeforeRuns => report[w] = <<>>
    /\ pc[w] \in {"reading", "evaluating"} => Len(report[w]) = cases[w]
    /\ pc[w] = "completing" => Justified(completion[w], report[w], cases[w])
Phases == \A w \in Workers : PhaseOf(w)

ResultsAreJustified ==
    \A s \in Submissions : Justified(result[s].outcome, result[s].report, result[s].cases)

(* A lease is one the queue has given out; it is of the submission's       *)
(* present life unless somebody was at it at the last rejudge.             *)
IsGivenOut(w) ==
    lease[w] # None =>
        LET r == row[lease[w].submission]
        IN  /\ lease[w].life <= r.life
            /\ lease[w].life = r.life => lease[w].attempt_no <= r.attempt_no
            /\ ~r.late => lease[w].life = r.life
LeasesDiffer == \A v, w \in Workers : v # w /\ lease[v] # None => lease[v] # lease[w]
Leases == (\A w \in Workers : IsGivenOut(w)) /\ LeasesDiffer

(* What a worker finds in its directory, as long as it is undisturbed. *)
Undisturbed(w) == lease[w] # None /\ ~row[lease[w].submission].late
HasProgram == {"acquiring", "running"}
WorkspaceOf(w) ==
    Undisturbed(w) =>
        /\ pc[w] = "creating" => Workspace(w) = NoDirectory
        /\ pc[w] = "writing" => Workspace(w) = EmptyDirectory
        /\ pc[w] \in {"building"} \cup HasProgram =>
            Workspace(w).exists /\ Workspace(w).source = lease[w]
        /\ pc[w] \in HasProgram /\ LanguageOf[lease[w].submission] # "python" =>
            Workspace(w).program = lease[w]
        /\ RunsWhatItBuilt(w)
Workspaces == \A w \in Workers : WorkspaceOf(w)

IInv ==
    /\ Types
    /\ Phases
    /\ ResultsAreJustified
    /\ ResultIsOfThisLife
    /\ Leases
    /\ Workspaces

-----------------------------------------------------------------------------
(* The verdict of a report. *)

Less == {pair \in Nat \X Nat : pair[1] < pair[2]}

LEMMA LeastElement ==
    ASSUME NEW S, S \subseteq Nat, S # {}
    PROVE  Min(S) \in S /\ \A y \in S : Min(S) <= y
<1>1. IsWellFoundedOn(Less, Nat)
    BY NatLessThanWellFounded DEF OpToRel, Less
<1>2. PICK x \in S : \A y \in S : ~ (<<y, x>> \in Less)
    BY <1>1, WFMin
<1>3. \A y \in S : ~ (y < x)
    BY <1>2 DEF Less
<1>4. \A y \in S : x <= y
    BY <1>3
<1>. QED
    BY <1>4 DEF Min

(* A number that bounds the first k values of a report. *)
LEMMA PrefixBound ==
    ASSUME NEW n \in Nat, NEW f, f \in [1..n -> Nat]
    PROVE  \E b \in Nat : \A i \in 1..n : f[i] <= b
<1>. DEFINE unbounded == {k \in 0..n : ~ \E b \in Nat : \A i \in 1..k : f[i] <= b}
<1>1. ASSUME unbounded # {} PROVE FALSE
    <2>1. unbounded \subseteq Nat
        OBVIOUS
    <2>2. PICK k \in unbounded : \A j \in unbounded : k <= j
        <3>. HIDE DEF unbounded
        <3>. QED
            BY <1>1, <2>1, LeastElement
    <2>3. k \in 0..n /\ ~ \E b \in Nat : \A i \in 1..k : f[i] <= b
        OBVIOUS
    <2>4. k # 0
        BY <2>3
    <2>5. k - 1 \in 0..n /\ k - 1 \notin unbounded
        <3>1. k - 1 \in 0..n /\ ~ (k <= k - 1)
            BY <2>3, <2>4
        <3>. HIDE DEF unbounded
        <3>. QED
            BY <3>1, <2>2
    <2>6. PICK b \in Nat : \A i \in 1..(k - 1) : f[i] <= b
        BY <2>5
    <2>7. k \in 1..n /\ f[k] \in Nat
        BY <2>3, <2>4
    <2>8. \A i \in 1..k : f[i] <= b + f[k]
        <3>1. \A i \in 1..k : (i \in 1..(k - 1) \/ i = k) /\ f[i] \in Nat
            BY <2>3
        <3>. QED
            BY <2>6, <2>7, <3>1
    <2>. QED
        BY <2>3, <2>7, <2>8
<1>2. n \in 0..n
    OBVIOUS
<1>. QED
    BY <1>1, <1>2

(* The values a measure takes in a report have a greatest one. *)
LEMMA GreatestElement ==
    ASSUME NEW n \in Nat, NEW f, f \in [1..n -> Nat], n # 0, NEW S, S = {f[i] : i \in 1..n}
    PROVE  Max(S) \in S /\ \A y \in S : y <= Max(S)
<1>. DEFINE bounds == {b \in Nat : \A i \in 1..n : f[i] <= b}
<1>1. bounds \subseteq Nat /\ bounds # {}
    BY PrefixBound
<1>2. PICK b \in bounds : \A c \in bounds : b <= c
    <2>. HIDE DEF bounds
    <2>. QED
        BY <1>1, LeastElement
<1>3. b \in Nat /\ \A i \in 1..n : f[i] <= b
    OBVIOUS
<1>4. b \in S
    <2>. SUFFICES ASSUME b \notin S PROVE FALSE
        OBVIOUS
    <2>1. \A i \in 1..n : f[i] <= b - 1 /\ f[i] \in Nat
        BY <1>3
    <2>2. b - 1 \in Nat
        BY <1>3, <2>1
    <2>3. b - 1 \in bounds
        BY <2>1, <2>2
    <2>4. b <= b - 1
        <3>. HIDE DEF bounds
        <3>. QED
            BY <1>2, <2>3
    <2>. QED
        BY <1>3, <2>4
<1>5. S \subseteq Nat /\ \A y \in S : b >= y
    BY <1>3
<1>6. \A x \in S : (\A y \in S : x >= y) => x = b
    BY <1>3, <1>4, <1>5
<1>7. Max(S) = b
    BY <1>4, <1>5, <1>6 DEF Max
<1>. QED
    BY <1>3, <1>4, <1>5, <1>7

LEMMA PossibleRuns ==
    \A e \in Executions \cup {NotFound} :
        e \in Execution /\ (e.signal # "none" => e.exit_code # 0)
<1>1. NotFound \in Execution
    BY DEF NotFound, Execution
<1>2. NotFound.signal = "none"
    BY DEF NotFound
<1>. QED
    BY <1>1, <1>2, ExecutionsAssumption

(* The classifier names the symptom, and finds one in every run that is    *)
(* not clean.                                                              *)
LEMMA ClassifierIsRight ==
    ASSUME NEW e \in Executions \cup {NotFound}
    PROVE  /\ Classify(e) = "none" => Clean(e)
           /\ Classify(e) # "none" =>
                /\ Classify(e) \in {"time_limit_exceeded", "memory_limit_exceeded",
                                    "output_exceeded", "runtime_error"}
                /\ Shows(e, Classify(e))
<1>1. e \in Execution /\ (e.signal # "none" => e.exit_code # 0)
    BY PossibleRuns
<1>2. {TimeLimit, MemoryLimit, OutputLimit} \subseteq Nat
    BY LimitsAssumption
<1>3. Classify(e) = "none" => Clean(e)
    BY <1>1, <1>2
    DEF Classify, Clean, Execution, ExceededTimeLimit, ExceededOutputLimit, ExceededMemoryLimit
<1>4. CASE ExceededTimeLimit(e)
    <2>1. Classify(e) = "time_limit_exceeded"
        BY <1>4 DEF Classify
    <2>. QED
        BY <1>3, <1>4, <2>1 DEF Shows, ExceededTimeLimit
<1>5. CASE ~ExceededTimeLimit(e) /\ ExceededOutputLimit(e)
    <2>1. Classify(e) = "output_exceeded"
        BY <1>5 DEF Classify
    <2>. QED
        BY <1>3, <1>5, <2>1 DEF Shows, ExceededOutputLimit
<1>6. CASE ~ExceededTimeLimit(e) /\ ~ExceededOutputLimit(e) /\ ExceededMemoryLimit(e)
    <2>1. Classify(e) = "memory_limit_exceeded"
        BY <1>6 DEF Classify
    <2>. QED
        BY <1>3, <1>6, <2>1 DEF Shows, ExceededMemoryLimit
<1>7. CASE ~ExceededTimeLimit(e) /\ ~ExceededOutputLimit(e) /\ ~ExceededMemoryLimit(e)
    BY <1>3, <1>7 DEF Classify, Shows
<1>. QED
    BY <1>4, <1>5, <1>6, <1>7

(* What a sequence of runs shows of each testcase. *)
LEMMA RunsProperties ==
    ASSUME NEW r \in Seq(Run)
    PROVE  /\ Len(r) \in Nat
           /\ DOMAIN r = 1..Len(r)
           /\ DOMAIN Runs(r) = 1..Len(r)
           /\ Len(Runs(r)) = Len(r)
           /\ \A i \in 1..Len(r) : r[i] \in Run /\ Runs(r)[i] = r[i].execution
           /\ \A i \in 1..Len(r) : Runs(r)[i] \in Executions \cup {NotFound}
           /\ \A i \in 1..Len(r) : Runs(r)[i] \in Execution
<1>1. Len(r) \in Nat /\ DOMAIN r = 1..Len(r) /\ r \in [1..Len(r) -> Run]
    BY LenProperties
<1>2. DOMAIN Runs(r) = 1..Len(r) /\ \A i \in 1..Len(r) : Runs(r)[i] = r[i].execution
    BY <1>1 DEF Runs
<1>3. Executions \cup {NotFound} \subseteq Execution
    BY PossibleRuns
<1>4. \A i \in 1..Len(r) : Runs(r)[i] \in Executions \cup {NotFound}
    BY <1>1, <1>2 DEF Run
<1>5. Runs(r) \in Seq(Execution) /\ Len(Runs(r)) = Len(r)
    <2>1. \A i \in 1..Len(r) : r[i].execution \in Execution
        BY <1>2, <1>3, <1>4
    <2>2. Runs(r) = [i \in 1..Len(r) |-> r[i].execution]
        BY <1>1 DEF Runs
    <2>3. Runs(r) \in [1..Len(r) -> Execution]
        BY <2>1, <2>2
    <2>4. Runs(r) \in Seq(Execution)
        BY <1>1, <2>3, SeqDef
    <2>. QED
        BY <1>1, <1>2, <2>4, LenProperties
<1>. QED
    BY <1>1, <1>2, <1>3, <1>4, <1>5

(* judge_policy::check_result: the verdict on a report with a failure is   *)
(* the symptom of the first run that failed, all before it being clean.    *)
LEMMA VerdictOfFailure ==
    ASSUME NEW r \in Seq(Run), NEW n, Failed(Runs(r)) # {}
    PROVE  \E i \in DOMAIN Runs(r) :
               /\ CheckResult(Runs(r), n) \in {"time_limit_exceeded", "memory_limit_exceeded",
                                               "output_exceeded", "runtime_error"}
               /\ Shows(Runs(r)[i], CheckResult(Runs(r), n))
               /\ \A j \in 1..(i - 1) : Clean(Runs(r)[j])
<1>. DEFINE failed == Failed(Runs(r))
            first == Min(failed)
<1>1. /\ DOMAIN Runs(r) = 1..Len(r) /\ Len(r) \in Nat
      /\ \A i \in 1..Len(r) : Runs(r)[i] \in Executions \cup {NotFound}
    BY RunsProperties
<1>2. failed \subseteq Nat
    BY <1>1 DEF Failed
<1>3. first \in failed /\ \A i \in failed : first <= i
    BY <1>2, LeastElement
<1>4. first \in 1..Len(r) /\ Classify(Runs(r)[first]) # "none"
    BY <1>1, <1>3 DEF Failed
<1>5. CheckResult(Runs(r), n) = Classify(Runs(r)[first])
    BY DEF CheckResult
<1>6. ASSUME NEW j \in 1..(first - 1) PROVE Clean(Runs(r)[j])
    <2>1. j \in 1..Len(r) /\ ~ (first <= j)
        BY <1>1, <1>4
    <2>2. j \notin failed
        <3>. HIDE DEF first, failed
        <3>. QED
            BY <1>3, <2>1
    <2>3. Classify(Runs(r)[j]) = "none"
        BY <1>1, <2>1, <2>2 DEF Failed
    <2>. QED
        BY <1>1, <2>1, <2>3, ClassifierIsRight
<1>7. /\ Classify(Runs(r)[first]) \in {"time_limit_exceeded", "memory_limit_exceeded",
                                       "output_exceeded", "runtime_error"}
      /\ Shows(Runs(r)[first], Classify(Runs(r)[first]))
    BY <1>1, <1>4, ClassifierIsRight
<1>. HIDE DEF first
<1>. QED
    BY <1>1, <1>4, <1>5, <1>6, <1>7

(* A report without a failure is accepted or wrong by its outputs alone.   *)
LEMMA VerdictWithoutFailure ==
    ASSUME NEW r \in Seq(Run), NEW n, Len(r) = n, Failed(Runs(r)) = {}
    PROVE  /\ CheckResult(Runs(r), n) \in {"accepted", "wrong_answer"}
           /\ \A i \in DOMAIN Runs(r) : Clean(Runs(r)[i])
           /\ CheckResult(Runs(r), n) = "accepted" <=> \A i \in DOMAIN Runs(r) : Runs(r)[i].right
<1>1. /\ DOMAIN Runs(r) = 1..Len(r) /\ Len(Runs(r)) = Len(r)
      /\ \A i \in 1..Len(r) : Runs(r)[i] \in Executions \cup {NotFound}
    BY RunsProperties
<1>2. CheckResult(Runs(r), n) = CheckAll(Runs(r), n)
    BY DEF CheckResult
<1>3. ASSUME NEW i \in DOMAIN Runs(r) PROVE Clean(Runs(r)[i])
    <2>1. Classify(Runs(r)[i]) = "none"
        BY DEF Failed
    <2>. QED
        BY <1>1, <2>1, ClassifierIsRight
<1>. QED
    BY <1>1, <1>2, <1>3 DEF CheckAll

LEMMA VerdictIsAStatus ==
    ASSUME NEW r \in Seq(Run), NEW n, Len(r) = n
    PROVE  CheckResult(Runs(r), n) \in
               FinalStatus \ {"infra_failure", "compile_error", "build_resource_exceeded"}
<1>1. CASE Failed(Runs(r)) = {}
    BY <1>1, VerdictWithoutFailure DEF FinalStatus, UserFailure
<1>2. CASE Failed(Runs(r)) # {}
    BY <1>2, VerdictOfFailure DEF FinalStatus, UserFailure
<1>. QED
    BY <1>1, <1>2

LEMMA NoMeasures == Runs(<<>>) = <<>> /\ ElapsedOf(<<>>) = {} /\ MaxRssOf(<<>>) = {}
<1>1. DOMAIN <<>> = {}
    OBVIOUS
<1>2. Runs(<<>>) = <<>>
    BY <1>1 DEF Runs
<1>3. ElapsedOf(<<>>) = {}
    BY <1>1 DEF ElapsedOf, Largest
<1>4. MaxRssOf(<<>>) = {}
    BY <1>1 DEF MaxRssOf, Largest
<1>. QED
    BY <1>2, <1>3, <1>4

(* The measures stored are numbers and bound those of every run. *)
LEMMA MeasuresBoundTheRuns ==
    ASSUME NEW r \in Seq(Run)
    PROVE  /\ ElapsedOf(Runs(r)) \in SUBSET Nat /\ MaxRssOf(Runs(r)) \in SUBSET Nat
           /\ \A i \in DOMAIN r : \E t \in ElapsedOf(Runs(r)), m \in MaxRssOf(Runs(r)) :
                  r[i].execution.wall <= t /\ r[i].execution.rss <= m
<1>1. /\ Len(r) \in Nat /\ DOMAIN r = 1..Len(r) /\ DOMAIN Runs(r) = 1..Len(r)
      /\ \A i \in 1..Len(r) : Runs(r)[i] = r[i].execution /\ Runs(r)[i] \in Execution
    BY RunsProperties
<1>. DEFINE walls == {Runs(r)[i].wall : i \in 1..Len(r)}
            sizes == {Runs(r)[i].rss : i \in 1..Len(r)}
<1>2. ElapsedOf(Runs(r)) = Largest(walls) /\ MaxRssOf(Runs(r)) = Largest(sizes)
    BY <1>1 DEF ElapsedOf, MaxRssOf
<1>3. CASE Len(r) = 0
    <2>1. walls = {} /\ sizes = {}
        BY <1>3
    <2>. QED
        BY <1>1, <1>2, <1>3, <2>1 DEF Largest
<1>4. CASE Len(r) # 0
    <2>. DEFINE wall == [i \in 1..Len(r) |-> Runs(r)[i].wall]
                rss == [i \in 1..Len(r) |-> Runs(r)[i].rss]
    <2>1. wall \in [1..Len(r) -> Nat] /\ rss \in [1..Len(r) -> Nat]
        BY <1>1 DEF Execution
    <2>2. walls = {wall[i] : i \in 1..Len(r)} /\ sizes = {rss[i] : i \in 1..Len(r)}
        OBVIOUS
    <2>3. walls \subseteq Nat /\ sizes \subseteq Nat /\ walls # {} /\ sizes # {}
        BY <1>1, <1>4 DEF Execution
    <2>4. \A i \in 1..Len(r) : r[i].execution.wall \in walls /\ r[i].execution.rss \in sizes
        BY <1>1
    <2>. HIDE DEF walls, sizes, wall, rss
    <2>5. /\ Max(walls) \in walls /\ \A y \in walls : y <= Max(walls)
          /\ Max(sizes) \in sizes /\ \A y \in sizes : y <= Max(sizes)
        BY <1>1, <1>4, <2>1, <2>2, GreatestElement
    <2>6. ElapsedOf(Runs(r)) = {Max(walls)} /\ MaxRssOf(Runs(r)) = {Max(sizes)}
        BY <1>2, <2>3 DEF Largest
    <2>. QED
        BY <1>1, <2>3, <2>4, <2>5, <2>6
<1>. QED
    BY <1>3, <1>4

(* What a completion says, field by field. *)
LEMMA FinalizeFields ==
    ASSUME NEW status, NEW runs, NEW o, o = Finalize(status, runs)
    PROVE  /\ o.kind = "finalize" /\ o.status = status /\ o.score = ScoreOf(status)
           /\ o.elapsed = ElapsedOf(runs) /\ o.max_rss = MaxRssOf(runs) /\ o.compilation = {}
BY DEF Finalize

LEMMA CompileFailureFields ==
    ASSUME NEW c, NEW o, o = CompileFailure(c)
    PROVE  /\ o.kind = "finalize" /\ o.status \in {"compile_error", "build_resource_exceeded"}
           /\ o.status = BuildStatus(c)
           /\ o.score = {0} /\ o.elapsed = {} /\ o.max_rss = {} /\ o.compilation = {c}
<1>. DEFINE plain == Finalize(BuildStatus(c), <<>>)
<1>1. BuildStatus(c) \in {"compile_error", "build_resource_exceeded"}
    BY DEF BuildStatus
<1>2. /\ plain.kind = "finalize" /\ plain.status = BuildStatus(c)
      /\ plain.score = {0} /\ plain.elapsed = {} /\ plain.max_rss = {}
    BY <1>1, FinalizeFields, NoMeasures DEF ScoreOf
<1>3. /\ o.kind = plain.kind /\ o.status = plain.status /\ o.score = plain.score
      /\ o.elapsed = plain.elapsed /\ o.max_rss = plain.max_rss /\ o.compilation = {c}
    BY DEF CompileFailure, Finalize
<1>. QED
    BY <1>1, <1>2, <1>3

LEMMA ScoreFitsTheStatus ==
    ASSUME NEW status
    PROVE  /\ ScoreOf(status) \in SUBSET {0, 100}
           /\ ScoreOf(status) = {100} <=> status = "accepted"
           /\ ScoreOf(status) = {} <=> status = "infra_failure"
<1>1. {100} # {} /\ {0} # {} /\ {0} # {100}
    OBVIOUS
<1>. QED
    BY <1>1 DEF ScoreOf

LEMMA UnfinishedFields ==
    /\ NoCompletion.kind = "none" /\ NoCompletion.status = "none"
    /\ Requeue.kind = "requeue" /\ Requeue.status = "none"
BY DEF NoCompletion, Requeue

LEMMA PossibleCompilations == Possible \subseteq Compilation
<1>1. NoCompiler \in Compilation /\ NoSource \in Compilation
    BY DEF NoCompiler, NoSource, Compilation
<1>. QED
    BY <1>1, CompilationsAssumption DEF Possible

(* The status of a failed compiler run, where its cause can be seen. *)
LEMMA FailureHasItsStatus ==
    ASSUME NEW c \in Possible, ~IsSuccess(c), c.cause \notin Indistinct
    PROVE  BuildStatus(c) = "compile_error" <=> c.cause = "source"
<1>1. CASE c \in {NoCompiler, NoSource}
    BY <1>1 DEF NoCompiler, NoSource, Indistinct, BuildStatus, IsUserExitFailure
<1>2. CASE c \in Compilations
    BY <1>2, CompilationsAssumption DEF Indistinct, Compilation, BuildStatus, IsUserExitFailure
<1>. QED
    BY <1>1, <1>2 DEF Possible

(* A completion as process makes it is one. *)
LEMMA JustifiedIsACompletion ==
    ASSUME NEW o, NEW r \in Seq(Run), NEW n, Justified(o, r, n)
    PROVE  o \in Completion
<1>1. NoCompletion \in Completion /\ Requeue \in Completion
    BY DEF NoCompletion, Requeue, Completion
<1>2. ASSUME NEW status \in FinalStatus, NEW runs, ElapsedOf(runs) \in SUBSET Nat,
             MaxRssOf(runs) \in SUBSET Nat
      PROVE  Finalize(status, runs) \in Completion
    BY <1>2, ScoreFitsTheStatus DEF Finalize, Completion
<1>3. Finalize("infra_failure", <<>>) \in Completion
    BY <1>2, NoMeasures DEF FinalStatus
<1>4. ASSUME NEW c \in Compilation PROVE CompileFailure(c) \in Completion
    <2>1. BuildStatus(c) \in FinalStatus
        BY DEF BuildStatus, FinalStatus, UserFailure
    <2>2. Finalize(BuildStatus(c), <<>>) \in Completion
        BY <1>2, <2>1, NoMeasures
    <2>. QED
        BY <2>2 DEF CompileFailure, Completion
<1>5. ASSUME Len(r) = n PROVE Finalize(CheckResult(Runs(r), n), Runs(r)) \in Completion
    <2>1. CheckResult(Runs(r), n) \in FinalStatus
        BY <1>5, VerdictIsAStatus
    <2>. QED
        BY <1>2, <2>1, MeasuresBoundTheRuns
<1>. QED
    BY <1>1, <1>3, <1>4, <1>5, PossibleCompilations DEF Justified, Possible

(* A justified result says what its runs say: both halves of               *)
(* VerdictIsDeserved for one submission.                                   *)
Follows(o, r, n) ==
    /\ o.status \in {"accepted", "wrong_answer"} =>
        /\ Len(Runs(r)) = n
        /\ \A i \in DOMAIN Runs(r) : Clean(Runs(r)[i])
        /\ o.status = "accepted" <=> \A i \in DOMAIN Runs(r) : Runs(r)[i].right
    /\ o.status \in {"time_limit_exceeded", "memory_limit_exceeded", "output_exceeded",
                     "runtime_error"} =>
        \E i \in DOMAIN Runs(r) :
            Shows(Runs(r)[i], o.status) /\ \A j \in 1..(i - 1) : Clean(Runs(r)[j])
    /\ o.status \in {"compile_error", "build_resource_exceeded"} =>
        /\ Runs(r) = <<>>
        /\ \E c \in o.compilation :
            /\ ~IsSuccess(c)
            /\ c.cause \notin Indistinct => (o.status = "compile_error" <=> c.cause = "source")

Fits(o, r) ==
    o.kind = "finalize" =>
        /\ o.score = {100} <=> o.status = "accepted"
        /\ o.score = {} <=> o.status = "infra_failure"
        /\ o.status \in {"compile_error", "infra_failure"} => o.elapsed = {}
        /\ o.status \notin {"compile_error", "build_resource_exceeded", "infra_failure"} =>
            \A i \in DOMAIN r : \E t \in o.elapsed, m \in o.max_rss :
                r[i].execution.wall <= t /\ r[i].execution.rss <= m

LEMMA JustifiedIsDeserved ==
    ASSUME NEW o, NEW r \in Seq(Run), NEW n, Justified(o, r, n)
    PROVE  Follows(o, r, n) /\ Fits(o, r)
<1>1. CASE o \in {NoCompletion, Requeue}
    BY <1>1, UnfinishedFields DEF Follows, Fits
<1>2. CASE o = Finalize("infra_failure", <<>>)
    <2>1. o.status = "infra_failure" /\ o.score = {} /\ o.elapsed = {}
        BY <1>2, FinalizeFields, NoMeasures, ScoreFitsTheStatus
    <2>. QED
        BY <2>1 DEF Follows, Fits
<1>3. ASSUME NEW c \in Possible, ~IsSuccess(c), o = CompileFailure(c), r = <<>>
      PROVE  Follows(o, r, n) /\ Fits(o, r)
    <2>1. /\ o.status \in {"compile_error", "build_resource_exceeded"} /\ o.score = {0}
          /\ o.elapsed = {} /\ o.compilation = {c}
        BY <1>3, CompileFailureFields
    <2>2. Follows(o, r, n)
        BY <1>3, <2>1, NoMeasures, FailureHasItsStatus, CompileFailureFields DEF Follows
    <2>3. {0} # {100} /\ {0} # {}
        OBVIOUS
    <2>. QED
        BY <2>1, <2>2, <2>3 DEF Fits
<1>4. CASE Len(r) = n /\ o = Finalize(CheckResult(Runs(r), n), Runs(r))
    <2>. DEFINE status == CheckResult(Runs(r), n)
    <2>1. /\ o.status = status /\ o.score = ScoreOf(status)
          /\ o.elapsed = ElapsedOf(Runs(r)) /\ o.max_rss = MaxRssOf(Runs(r))
        BY <1>4, FinalizeFields
    <2>2. status \in FinalStatus \ {"infra_failure", "compile_error", "build_resource_exceeded"}
        BY <1>4, VerdictIsAStatus
    <2>3. Follows(o, r, n)
        <3>1. CASE Failed(Runs(r)) = {}
            BY <1>4, <2>1, <2>2, <3>1, VerdictWithoutFailure, RunsProperties DEF Follows
        <3>2. CASE Failed(Runs(r)) # {}
            BY <2>1, <3>2, VerdictOfFailure DEF Follows
        <3>. QED
            BY <3>1, <3>2
    <2>4. Fits(o, r)
        BY <2>1, <2>2, MeasuresBoundTheRuns, ScoreFitsTheStatus DEF Fits
    <2>. QED
        BY <2>3, <2>4
<1>. QED
    BY <1>1, <1>2, <1>3, <1>4 DEF Justified

LEMMA JustifiedResultsAreDeserved ==
    ASSUME Types, ResultsAreJustified
    PROVE  VerdictIsDeserved
<1>1. ASSUME NEW s \in Submissions
      PROVE  /\ Follows(result[s].outcome, result[s].report, result[s].cases)
             /\ Fits(result[s].outcome, result[s].report)
    <2>1. result[s].report \in Seq(Run)
        BY DEF Types, Result
    <2>2. Justified(result[s].outcome, result[s].report, result[s].cases)
        BY DEF ResultsAreJustified
    <2>. QED
        BY <2>1, <2>2, JustifiedIsDeserved
<1>. QED
    BY <1>1 DEF VerdictIsDeserved, VerdictFollowsTheRuns, ResultFitsTheReport, Follows, Fits

-----------------------------------------------------------------------------
(* The types. *)

LEMMA LeaseFacts ==
    ASSUME Types, NEW w \in Workers, lease[w] # None
    PROVE  /\ lease[w] \in Lease
           /\ lease[w].submission \in Submissions /\ lease[w].attempt_no \in 1..MaxAttempts
           /\ lease[w].life \in 0..MaxRejudges
           /\ PathOf(lease[w]) \in Path
           /\ Workspace(w) \in Directory
BY DEF Types, TypeOK, Lease, Path, PathOf, Workspace

LEMMA DirectoryFacts ==
    /\ NoDirectory \in Directory /\ EmptyDirectory \in Directory
    /\ ~NoDirectory.exists /\ NoDirectory.source = None /\ NoDirectory.program = None
    /\ EmptyDirectory.exists /\ EmptyDirectory.source = None /\ EmptyDirectory.program = None
BY DEF NoDirectory, EmptyDirectory, Directory

LEMMA NothingIsReported == <<>> \in Seq(Run) /\ Len(<<>>) = 0
BY EmptySeq

LEMMA InitTypes == Init => Types
<1>. SUFFICES ASSUME Init PROVE Types
    OBVIOUS
<1>1. NoCompletion \in Completion
    BY DEF NoCompletion, Completion
<1>2. NoResult \in Result /\ NoResult.outcome \in Completion /\ NoResult.report \in Seq(Run)
    BY <1>1, NothingIsReported DEF NoResult, Result
<1>3. result \in [Submissions -> Result]
    BY <1>2 DEF Init
<1>4. TypeOK
    <2>1. row \in [Submissions -> Row]
        BY BoundsAssumption DEF Init, Row
    <2>2. dir \in [Path -> Directory]
        BY DirectoryFacts DEF Init
    <2>3. \A w \in Workers : report[w] \in Seq(Run) /\ Len(report[w]) <= cases[w]
        BY NothingIsReported DEF Init
    <2>4. \A s \in Submissions : result[s].outcome \in Completion /\ result[s].report \in Seq(Run)
        BY <1>2 DEF Init
    <2>5. pc \in [Workers -> States]
        BY DEF Init, States
    <2>6. /\ lease \in [Workers -> Lease \cup {None}] /\ session \in [Workers -> BOOLEAN]
          /\ cases \in [Workers -> CaseCounts \cup {0}] /\ completion \in [Workers -> Completion]
          /\ faults \in 0..MaxFaults
        BY <1>1, BoundsAssumption DEF Init
    <2>. QED
        BY <2>1, <2>2, <2>3, <2>4, <2>5, <2>6 DEF TypeOK
<1>. QED
    BY <1>3, <1>4, NothingIsReported DEF Types, Init

(* What Leave and Complete do keeps the types. *)
LEMMA LeaveTypes ==
    ASSUME Types, NEW w \in Workers, NEW state \in States, Leave(w, state),
           UNCHANGED queue, dir' \in [Path -> Directory], faults' \in 0..MaxFaults
    PROVE  Types'
<1>1. NoCompletion \in Completion
    BY DEF NoCompletion, Completion
<1>2. \A v \in Workers : report'[v] \in Seq(Run) /\ Len(report'[v]) <= cases'[v]
    BY NothingIsReported DEF Leave, Types, TypeOK
<1>3. TypeOK'
    BY <1>1, <1>2 DEF Leave, Goto, Types, TypeOK, queue
<1>. QED
    BY <1>3, NothingIsReported DEF Leave, Types, queue

LEMMA CompleteTypes ==
    ASSUME Types, NEW w \in Workers, NEW c \in Completion, Complete(w, c),
           UNCHANGED <<queue, dir, lease, work>>, faults' \in 0..MaxFaults
    PROVE  Types'
<1>1. TypeOK'
    BY DEF Complete, Goto, Types, TypeOK, queue, work, States
<1>. QED
    BY <1>1 DEF Types, queue, work

LEMMA FaultTypes == ASSUME Types, Fault PROVE faults' \in 0..MaxFaults
BY BoundsAssumption DEF Types, TypeOK, Fault

(* Steps that only move a worker on, or change its directory too. *)
LEMMA GotoTypes ==
    ASSUME Types, NEW w \in Workers, NEW state \in States, Goto(w, state),
           UNCHANGED <<queue, lease, work, completion>>, dir' \in [Path -> Directory],
           faults' \in 0..MaxFaults
    PROVE  Types'
<1>1. TypeOK'
    BY DEF Goto, Types, TypeOK, queue, work
<1>. QED
    BY <1>1 DEF Types, queue, work

LEMMA InfraFailureTypes == \A code \in ErrorCode : InfraFailure(code) \in Completion
<1>. SUFFICES ASSUME NEW code \in ErrorCode PROVE InfraFailure(code) \in Completion
    OBVIOUS
<1>1. Justified(InfraFailure(code), <<>>, 0)
    BY DEF InfraFailure, Justified
<1>. QED
    BY <1>1, NothingIsReported, JustifiedIsACompletion

LEMMA SetWorkspaceTypes ==
    ASSUME Types, NEW w \in Workers, NEW d \in Directory, SetWorkspace(w, d)
    PROVE  dir' \in [Path -> Directory]
BY DEF Types, TypeOK, SetWorkspace

LEMMA Working ==
    ASSUME Phases, NEW w \in Workers, pc[w] \notin Idle
    PROVE  lease[w] # None
BY DEF Phases, PhaseOf

LEMMA RejudgeTypes ==
    ASSUME Types, NEW s \in Submissions, Rejudge(s)
    PROVE  Types'
<1>1. NoResult \in Result
    BY NothingIsReported DEF NoResult, Result, NoCompletion, Completion
<1>2. result' \in [Submissions -> Result]
    BY <1>1 DEF Rejudge, Types
<1>3. row'[s].life \in 0..MaxRejudges
    BY BoundsAssumption DEF Rejudge, Types, TypeOK, Row
<1>4. row' \in [Submissions -> Row]
    BY <1>3, BoundsAssumption DEF Rejudge, Types, TypeOK, Row
<1>5. \A t \in Submissions : result'[t].outcome \in Completion /\ result'[t].report \in Seq(Run)
    BY <1>2 DEF Result
<1>6. TypeOK'
    BY <1>4, <1>5 DEF Rejudge, Types, TypeOK, work
<1>. QED
    BY <1>2, <1>6 DEF Rejudge, Types, work

LEMMA LeaseSubmissionTypes ==
    ASSUME Types, NEW w \in Workers, NEW s \in Submissions, LeaseSubmission(w, s)
    PROVE  Types' /\ lease'[w] \in Lease
<1>. DEFINE l == [submission |-> s, attempt_no |-> row[s].attempt_no + 1, life |-> row[s].life]
<1>1. row[s].attempt_no + 1 \in 1..MaxAttempts /\ row[s].life \in 0..MaxRejudges
    BY BoundsAssumption DEF LeaseSubmission, Types, TypeOK, Row
<1>2. l \in Lease
    BY <1>1 DEF Lease
<1>. DEFINE leased == [row[s] EXCEPT !.state = "leased", !.owner = w, !.attempt_no = @ + 1]
<1>3. row' \in [Submissions -> Row]
    <2>1. row[s].attempt_no + 1 \in 0..MaxAttempts
        BY <1>1, BoundsAssumption
    <2>2. leased \in Row
        BY <2>1, ZenonT(30) DEF Types, TypeOK, Row
    <2>3. row' = [row EXCEPT ![s] = leased]
        BY DEF LeaseSubmission, Types, TypeOK
    <2>. QED
        BY <2>2, <2>3 DEF Types, TypeOK
<1>4. lease' \in [Workers -> Lease \cup {None}]
    BY <1>2 DEF LeaseSubmission, Types, TypeOK
<1>5. TypeOK'
    BY <1>3, <1>4 DEF LeaseSubmission, Goto, Types, TypeOK, work, States, Fallible
<1>6. lease'[w] \in Lease
    BY <1>2 DEF LeaseSubmission, Types, TypeOK
<1>. QED
    BY <1>5, <1>6 DEF LeaseSubmission, Types, work

LEMMA RunTestcaseTypes ==
    ASSUME Types, NEW w \in Workers, lease[w] # None, NEW e \in Executions \cup {NotFound},
           RunTestcase(w, e)
    PROVE  Types'
<1>. DEFINE run == [execution |-> e, program |-> EntryOf(w)]
<1>1. run \in Run
    BY LeaseFacts DEF EntryOf, Directory, Run
<1>2. report[w] \in Seq(Run) /\ cases[w] \in Nat /\ Len(report[w]) < cases[w]
    <2>1. CaseCounts \cup {0} \subseteq Nat
        BY CountsAssumption
    <2>. QED
        BY <2>1 DEF RunTestcase, Types, TypeOK
<1>3. /\ report'[w] = Append(report[w], run)
      /\ \A v \in Workers \ {w} : report'[v] = report[v]
      /\ report' = [report EXCEPT ![w] = Append(report[w], run)]
    BY DEF RunTestcase, Types
<1>4. Append(report[w], run) \in Seq(Run) /\ Len(Append(report[w], run)) = Len(report[w]) + 1
    BY <1>1, <1>2, AppendProperties
<1>5. Len(report'[w]) <= cases[w]
    BY <1>2, <1>3, <1>4, LenProperties
<1>6. \A v \in Workers : report'[v] \in Seq(Run) /\ Len(report'[v]) <= cases'[v]
    BY <1>3, <1>4, <1>5 DEF RunTestcase, Types, TypeOK
<1>7. TypeOK'
    BY <1>6 DEF RunTestcase, Types, TypeOK, queue
<1>. QED
    BY <1>3, <1>4, <1>7 DEF RunTestcase, Types, queue

LEMMA ApplyCompletionTypes ==
    ASSUME Types, NEW w \in Workers, lease[w] # None, ApplyCompletion(w)
    PROVE  Types'
<1>. DEFINE s == lease[w].submission
            r == [outcome |-> completion[w], report |-> report[w], cases |-> cases[w],
                  lease |-> lease[w]]
<1>1. s \in Submissions
    BY LeaseFacts
<1>2. r \in Result
    BY DEF Types, TypeOK, Result
<1>3. result' \in [Submissions -> Result]
    BY <1>1, <1>2 DEF ApplyCompletion, Types
<1>. DEFINE closed(state) == [row[s] EXCEPT !.state = state, !.owner = None]
<1>4. row' \in [Submissions -> Row]
    <2>1. \A state \in {"queued", "absent"} : closed(state) \in Row
        BY <1>1, ZenonT(30) DEF Types, TypeOK, Row
    <2>2. \E state \in {"queued", "absent"} : row' = [row EXCEPT ![s] = closed(state)]
        BY <1>1, ZenonT(30) DEF ApplyCompletion, Types, TypeOK
    <2>. QED
        BY <2>1, <2>2 DEF Types, TypeOK
<1>5. \A t \in Submissions : result'[t].outcome \in Completion /\ result'[t].report \in Seq(Run)
    BY <1>3, SMTT(30) DEF Result
<1>6. TypeOK'
    BY <1>4, <1>5 DEF ApplyCompletion, Goto, Types, TypeOK, work, States
<1>. QED
    BY <1>3, <1>6 DEF ApplyCompletion, Types, work

LEMMA CreateWorkspaceTypes ==
    ASSUME Types, NEW w \in Workers, lease[w] # None, CreateWorkspace(w)
    PROVE  Types'
<1>1. dir' \in [Path -> Directory]
    BY LeaseFacts, DirectoryFacts, SetWorkspaceTypes DEF CreateWorkspace
<1>2. TypeOK'
    BY <1>1 DEF CreateWorkspace, Goto, Types, TypeOK, queue, States, Fallible
<1>. QED
    BY <1>2 DEF CreateWorkspace, Types, queue

LEMMA AcquireTestcasesTypes ==
    ASSUME Types, NEW w \in Workers, report[w] = <<>>, NEW n \in CaseCounts,
           AcquireTestcases(w, n)
    PROVE  Types'
<1>1. n \in Nat
    BY CountsAssumption
<1>2. \A v \in Workers : report'[v] \in Seq(Run) /\ Len(report'[v]) <= cases'[v]
    BY <1>1, NothingIsReported DEF AcquireTestcases, Types, TypeOK
<1>3. TypeOK'
    BY <1>2 DEF AcquireTestcases, Goto, Types, TypeOK, queue, States, Fallible
<1>. QED
    BY <1>3 DEF AcquireTestcases, Types, queue

LEMMA CompileTypes ==
    ASSUME Types, NEW w \in Workers, lease[w] # None, NEW c \in Possible,
           Compile(w, c) \/ CompileFails(w, c)
    PROVE  Types'
<1>1. CASE Compile(w, c)
    <2>1. [Workspace(w) EXCEPT !.program = Workspace(w).source] \in Directory
        BY LeaseFacts DEF Directory
    <2>2. dir' \in [Path -> Directory]
        BY <1>1, <2>1, SetWorkspaceTypes DEF Compile
    <2>3. "acquiring" \in States /\ faults' \in 0..MaxFaults
        BY <1>1 DEF Compile, States, Fallible, Types, TypeOK
    <2>. QED
        BY <1>1, <2>2, <2>3, GotoTypes DEF Compile
<1>2. CASE CompileFails(w, c)
    <2>1. Justified(CompileFailure(c), <<>>, 0)
        BY <1>2 DEF CompileFails, Justified, Possible
    <2>2. CompileFailure(c) \in Completion
        BY <2>1, NothingIsReported, JustifiedIsACompletion
    <2>3. faults' \in 0..MaxFaults
        BY <1>2 DEF CompileFails, Types, TypeOK
    <2>. QED
        BY <1>2, <2>2, <2>3, CompleteTypes DEF CompileFails
<1>. QED
    BY <1>1, <1>2

LEMMA EvaluateTypes ==
    ASSUME Types, Phases, NEW w \in Workers, Evaluate(w)
    PROVE  Types'
<1>. DEFINE c == Finalize(CheckResult(Runs(report[w]), cases[w]), Runs(report[w]))
<1>1. report[w] \in Seq(Run) /\ Len(report[w]) = cases[w]
    BY DEF Evaluate, Phases, PhaseOf, Types
<1>2. Justified(c, report[w], cases[w])
    BY <1>1 DEF Justified
<1>3. c \in Completion
    BY <1>1, <1>2, JustifiedIsACompletion
<1>4. faults' \in 0..MaxFaults /\ Complete(w, c) /\ UNCHANGED <<queue, dir, lease, work>>
    BY DEF Evaluate, Types, TypeOK
<1>. HIDE DEF c
<1>. QED
    BY <1>3, <1>4, CompleteTypes

(* A build of either compiled language is one compiler run. *)
LEMMA Builds ==
    ASSUME NEW w \in Workers,
           \E c \in Compilations \cup {NoCompiler, NoSource} : BuildCpp(w, c) \/ BuildJava(w, c)
    PROVE  lease[w] # None /\ \E c \in Possible : Compile(w, c) \/ CompileFails(w, c)
BY DEF BuildCpp, BuildJava, Possible

LEMMA TypesStep ==
    ASSUME Types, Phases, [Next]_vars
    PROVE  Types'
<1>1. CASE UNCHANGED vars
    BY <1>1 DEF vars, Types, TypeOK, work, queue
<1>2. ASSUME NEW s \in Submissions, Rejudge(s) PROVE Types'
    BY <1>2, RejudgeTypes
<1>3. ASSUME NEW w \in Workers, WorkerStep(w) PROVE Types'
    <2>. DEFINE Gone(state) == Goto(w, state) /\ UNCHANGED <<queue, lease, work, completion>>
                Kept == dir' \in [Path -> Directory] /\ faults' \in 0..MaxFaults
    <2>a. \A state \in States : Gone(state) /\ Kept => Types'
        BY GotoTypes
    <2>b. /\ UNCHANGED dir => dir' \in [Path -> Directory]
          /\ UNCHANGED faults \/ Fault => faults' \in 0..MaxFaults
        BY FaultTypes DEF Types, TypeOK
    <2>c. pc[w] \notin Idle => lease[w] # None
        BY Working
    <2>d. {"down", "idle", "preparing", "creating", "writing", "building", "acquiring", "reading",
           "evaluating", "closing", "failing"} \subseteq States
        BY DEF States, Fallible
    <2>1. ASSUME NEW s \in Submissions, LeaseSubmission(w, s) PROVE Types'
        BY <2>1, LeaseSubmissionTypes
    <2>2. CASE MarkJudging(w)
        BY <2>2, <2>a, <2>b, <2>d DEF MarkJudging
    <2>3. CASE MarkJudgingFails(w)
        BY <2>3, <2>b, <2>d, LeaveTypes DEF MarkJudgingFails
    <2>4. CASE PrepareWorkspace(w)
        BY <2>4, <2>a, <2>b, <2>d, DirectoryFacts, SetWorkspaceTypes DEF PrepareWorkspace
    <2>5. CASE CreateWorkspace(w)
        BY <2>5, <2>c, CreateWorkspaceTypes DEF CreateWorkspace, Idle
    <2>6. CASE WriteSource(w)
        <3>1. [Workspace(w) EXCEPT !.source = lease[w]] \in Directory
            BY <2>6, <2>c, LeaseFacts DEF WriteSource, Idle, Directory
        <3>. QED
            BY <2>6, <2>a, <2>b, <2>d, <3>1, SetWorkspaceTypes DEF WriteSource
    <2>7. CASE BuildPython(w)
        BY <2>7, <2>a, <2>b, <2>d DEF BuildPython
    <2>8. CASE \E c \in Compilations \cup {NoCompiler, NoSource} : BuildCpp(w, c) \/ BuildJava(w, c)
        BY <2>8, Builds, CompileTypes
    <2>9. ASSUME NEW n \in CaseCounts, AcquireTestcases(w, n) PROVE Types'
        <3>1. report[w] = <<>>
            BY <2>9 DEF AcquireTestcases, Phases, PhaseOf, BeforeRuns
        <3>. QED
            BY <2>9, <3>1, AcquireTestcasesTypes
    <2>10. ASSUME NEW e \in Executions \cup {NotFound}, RunTestcase(w, e) PROVE Types'
        BY <2>10, <2>c, RunTestcaseTypes DEF RunTestcase, Idle
    <2>11. CASE FinishRuns(w) \/ ReadExpectations(w)
        BY <2>11, <2>a, <2>b, <2>d DEF FinishRuns, ReadExpectations
    <2>12. CASE Evaluate(w)
        BY <2>12, EvaluateTypes
    <2>13. ASSUME NEW code \in ErrorCode, StepFails(w, code) PROVE Types'
        BY <2>13, <2>b, InfraFailureTypes, CompleteTypes DEF StepFails
    <2>14. CASE WorkspaceIsGone(w)
        BY <2>14, <2>b, InfraFailureTypes, CompleteTypes DEF WorkspaceIsGone, ErrorCode
    <2>15. CASE ApplyCompletion(w)
        BY <2>15, <2>c, ApplyCompletionTypes DEF ApplyCompletion, Idle
    <2>16. CASE ApplyCompletionFails(w)
        BY <2>16, <2>a, <2>b, <2>d DEF ApplyCompletionFails
    <2>17. CASE EmptyWorkspace(w)
        <3>1. dir' \in [Path -> Directory]
            BY <2>17, DirectoryFacts, SetWorkspaceTypes DEF EmptyWorkspace
        <3>2. TypeOK'
            BY <2>17, <3>1 DEF EmptyWorkspace, Types, TypeOK, queue, work
        <3>. QED
            BY <2>17, <3>2 DEF EmptyWorkspace, Types, queue, work
    <2>18. CASE CloseWorkspace(w)
        BY <2>18, <2>b, <2>d, DirectoryFacts, SetWorkspaceTypes, LeaveTypes DEF CloseWorkspace
    <2>19. CASE CloseWorkspaceFails(w)
        BY <2>19, <2>b, <2>d, LeaveTypes DEF CloseWorkspaceFails
    <2>20. CASE Crash(w)
        BY <2>20, <2>b, <2>d, LeaveTypes DEF Crash
    <2>21. CASE Restart(w)
        BY <2>21, <2>a, <2>b, <2>d DEF Restart
    <2>. QED
        BY <1>3, <2>1, <2>2, <2>3, <2>4, <2>5, <2>6, <2>7, <2>8, <2>9, <2>10, <2>11, <2>12, <2>13,
           <2>14, <2>15, <2>16, <2>17, <2>18, <2>19, <2>20, <2>21 DEF WorkerStep
<1>. QED
    BY <1>1, <1>2, <1>3 DEF Next

-----------------------------------------------------------------------------
(* Where a worker is. *)

LEMMA OthersAreUnmoved ==
    ASSUME Types, NEW w \in Workers, WorkerStep(w), NEW v \in Workers \ {w}
    PROVE  /\ pc'[v] = pc[v] /\ lease'[v] = lease[v] /\ session'[v] = session[v]
           /\ cases'[v] = cases[v] /\ report'[v] = report[v] /\ completion'[v] = completion[v]
<1>. DEFINE Unmoved == /\ pc'[v] = pc[v] /\ lease'[v] = lease[v] /\ session'[v] = session[v]
                       /\ cases'[v] = cases[v] /\ report'[v] = report[v]
                       /\ completion'[v] = completion[v]
<1>. USE DEF Types, TypeOK, Goto, work
<1>1. ASSUME NEW s \in Submissions, LeaseSubmission(w, s) PROVE Unmoved
    BY <1>1 DEF LeaseSubmission
<1>2. ASSUME NEW state, Leave(w, state) PROVE Unmoved
    BY <1>2 DEF Leave
<1>3. CASE MarkJudging(w) \/ PrepareWorkspace(w) \/ CreateWorkspace(w) \/ WriteSource(w)
    BY <1>3 DEF MarkJudging, PrepareWorkspace, CreateWorkspace, WriteSource
<1>4. CASE BuildPython(w) \/ FinishRuns(w) \/ ReadExpectations(w) \/ Restart(w)
    BY <1>4 DEF BuildPython, FinishRuns, ReadExpectations, Restart
<1>5. ASSUME NEW c \in Possible, Compile(w, c) \/ CompileFails(w, c) PROVE Unmoved
    BY <1>5 DEF Compile, CompileFails, Complete
<1>6. ASSUME NEW n \in CaseCounts, AcquireTestcases(w, n) PROVE Unmoved
    BY <1>6 DEF AcquireTestcases
<1>7. ASSUME NEW e \in Executions \cup {NotFound}, RunTestcase(w, e) PROVE Unmoved
    BY <1>7 DEF RunTestcase
<1>8. CASE Evaluate(w) \/ WorkspaceIsGone(w) \/ \E code \in ErrorCode : StepFails(w, code)
    BY <1>8 DEF Evaluate, WorkspaceIsGone, StepFails, Complete
<1>9. CASE ApplyCompletion(w) \/ ApplyCompletionFails(w) \/ EmptyWorkspace(w)
    BY <1>9 DEF ApplyCompletion, ApplyCompletionFails, EmptyWorkspace
<1>10. CASE MarkJudgingFails(w) \/ CloseWorkspace(w) \/ CloseWorkspaceFails(w) \/ Crash(w)
    BY <1>2, <1>10 DEF MarkJudgingFails, CloseWorkspace, CloseWorkspaceFails, Crash
<1>. QED
    BY <1>1, <1>3, <1>4, <1>5, <1>6, <1>7, <1>8, <1>9, <1>10, Builds DEF WorkerStep

LEMMA InfraFailureIsJustified ==
    \A code \in ErrorCode : \A r, n : Justified(InfraFailure(code), r, n)
BY DEF InfraFailure, Justified

LEMMA LeavePhase ==
    ASSUME Types, NEW w \in Workers, NEW state \in Idle, Leave(w, state)
    PROVE  PhaseOf(w)'
BY DEF Leave, Goto, Types, TypeOK, PhaseOf, Idle, BeforeWorkspace, BeforeRuns, InWorkspace

LEMMA CompletePhase ==
    ASSUME Types, NEW w \in Workers, PhaseOf(w), NEW c, Complete(w, c), pc[w] \notin Idle,
           UNCHANGED <<lease, work>>, Justified(c, report[w], cases[w])
    PROVE  PhaseOf(w)'
<1>1. /\ pc'[w] = "completing" /\ completion'[w] = c /\ lease'[w] = lease[w]
      /\ session'[w] = session[w] /\ report'[w] = report[w] /\ cases'[w] = cases[w]
    BY DEF Complete, Goto, Types, TypeOK, work
<1>2. Justified(c, report[w], cases[w])'
    BY <1>1 DEF Justified
<1>. QED
    BY <1>1 DEF PhaseOf, Idle, BeforeWorkspace, BeforeRuns, InWorkspace

LEMMA PhasesStep ==
    ASSUME Types, Phases, [Next]_vars
    PROVE  Phases'
<1>1. CASE UNCHANGED vars
    BY <1>1 DEF vars, Phases, PhaseOf, Justified, work, queue
<1>2. ASSUME NEW s \in Submissions, Rejudge(s) PROVE Phases'
    BY <1>2 DEF Rejudge, Phases, PhaseOf, Justified, work
<1>3. ASSUME NEW w \in Workers, WorkerStep(w) PROVE Phases'
    <2>1. ASSUME NEW v \in Workers \ {w} PROVE PhaseOf(v)'
        <3>1. PhaseOf(v)
            BY DEF Phases
        <3>2. /\ pc'[v] = pc[v] /\ lease'[v] = lease[v] /\ session'[v] = session[v]
              /\ cases'[v] = cases[v] /\ report'[v] = report[v] /\ completion'[v] = completion[v]
            BY <1>3, OthersAreUnmoved
        <3>. QED
            BY <3>1, <3>2 DEF PhaseOf, Justified
    <2>2. PhaseOf(w)'
        <3>. DEFINE Same == /\ lease'[w] = lease[w] /\ session'[w] = session[w]
                            /\ cases'[w] = cases[w] /\ report'[w] = report[w]
        <3>p. PhaseOf(w)
            BY DEF Phases
        <3>a. \A state : Goto(w, state) => pc'[w] = state
            BY DEF Goto, Types, TypeOK
        <3>b. ASSUME NEW s \in Submissions, LeaseSubmission(w, s) PROVE PhaseOf(w)'
            <4>1. lease'[w] \in Lease
                BY <3>b, LeaseSubmissionTypes
            <4>2. lease'[w] # None
                BY <4>1, NoneAssumption
            <4>. QED
                BY <3>a, <3>b, <3>p, <4>2
                DEF LeaseSubmission, work, PhaseOf, Idle, BeforeWorkspace, BeforeRuns, InWorkspace
        <3>c. CASE MarkJudging(w) \/ PrepareWorkspace(w) \/ WriteSource(w) \/ BuildPython(w)
            <4>1. /\ Same /\ pc[w] \in BeforeRuns \ Idle /\ pc'[w] \in BeforeRuns \ Idle
                  /\ pc[w] \in InWorkspace <=> pc'[w] \in InWorkspace
                BY <3>a, <3>c
                DEF MarkJudging, PrepareWorkspace, WriteSource, BuildPython, work, Idle,
                    BeforeWorkspace, BeforeRuns, InWorkspace
            <4>2. pc'[w] \in {"preparing", "creating", "building", "acquiring"}
                BY <3>a, <3>c DEF MarkJudging, PrepareWorkspace, WriteSource, BuildPython
            <4>. QED
                BY <3>p, <4>1, <4>2 DEF PhaseOf, Idle, BeforeWorkspace, BeforeRuns, InWorkspace
        <3>d. CASE CreateWorkspace(w)
            <4>1. session'[w]
                BY <3>d DEF CreateWorkspace, Types, TypeOK
            <4>. QED
                BY <3>a, <3>d, <3>p, <4>1
                DEF CreateWorkspace, PhaseOf, Idle, BeforeWorkspace, BeforeRuns, InWorkspace
        <3>e. ASSUME NEW c \in Possible, Compile(w, c) PROVE PhaseOf(w)'
            BY <3>a, <3>e, <3>p
            DEF Compile, Compiles, work, PhaseOf, Idle, BeforeWorkspace, BeforeRuns, InWorkspace
        <3>f. ASSUME NEW c \in Possible, CompileFails(w, c) PROVE PhaseOf(w)'
            <4>1. report[w] = <<>> /\ pc[w] \notin Idle
                BY <3>f, <3>p DEF CompileFails, Compiles, PhaseOf, BeforeRuns, Idle
            <4>2. Justified(CompileFailure(c), report[w], cases[w])
                BY <3>f, <4>1 DEF CompileFails, Justified, Possible
            <4>. QED
                BY <3>f, <3>p, <4>1, <4>2, CompletePhase DEF CompileFails
        <3>g. ASSUME NEW n \in CaseCounts, AcquireTestcases(w, n) PROVE PhaseOf(w)'
            BY <3>a, <3>g, <3>p
            DEF AcquireTestcases, PhaseOf, Idle, BeforeWorkspace, BeforeRuns, InWorkspace
        <3>h. ASSUME NEW e \in Executions \cup {NotFound}, RunTestcase(w, e) PROVE PhaseOf(w)'
            BY <3>h, <3>p
            DEF RunTestcase, PhaseOf, Idle, BeforeWorkspace, BeforeRuns, InWorkspace
        <3>i. CASE FinishRuns(w) \/ ReadExpectations(w)
            BY <3>a, <3>i, <3>p
            DEF FinishRuns, ReadExpectations, work, PhaseOf, Idle, BeforeWorkspace, BeforeRuns,
                InWorkspace
        <3>j. CASE Evaluate(w)
            <4>. DEFINE c == Finalize(CheckResult(Runs(report[w]), cases[w]), Runs(report[w]))
            <4>1. Len(report[w]) = cases[w] /\ pc[w] \notin Idle
                BY <3>j, <3>p DEF Evaluate, PhaseOf, Idle
            <4>2. Justified(c, report[w], cases[w])
                BY <4>1 DEF Justified
            <4>3. Complete(w, c) /\ UNCHANGED <<lease, work>>
                BY <3>j DEF Evaluate
            <4>. HIDE DEF c
            <4>. QED
                BY <3>p, <4>1, <4>2, <4>3, CompletePhase
        <3>k. ASSUME NEW code \in ErrorCode, StepFails(w, code) PROVE PhaseOf(w)'
            <4>1. pc[w] \notin Idle
                BY <3>k DEF StepFails, Fallible, Idle
            <4>. QED
                BY <3>k, <3>p, <4>1, InfraFailureIsJustified, CompletePhase DEF StepFails
        <3>l. CASE WorkspaceIsGone(w)
            <4>1. pc[w] \notin Idle /\ "internal" \in ErrorCode
                BY <3>l DEF WorkspaceIsGone, Idle, ErrorCode
            <4>. QED
                BY <3>l, <3>p, <4>1, InfraFailureIsJustified, CompletePhase DEF WorkspaceIsGone
        <3>m. CASE ApplyCompletion(w) \/ ApplyCompletionFails(w)
            BY <3>a, <3>m, <3>p
            DEF ApplyCompletion, ApplyCompletionFails, work, PhaseOf, Idle, BeforeWorkspace,
                BeforeRuns, InWorkspace
        <3>n. CASE EmptyWorkspace(w)
            BY <3>n, <3>p
            DEF EmptyWorkspace, work, PhaseOf, Idle, BeforeWorkspace, BeforeRuns, InWorkspace
        <3>o. CASE MarkJudgingFails(w) \/ CloseWorkspace(w) \/ CloseWorkspaceFails(w) \/ Crash(w)
            BY <3>o, LeavePhase
            DEF MarkJudgingFails, CloseWorkspace, CloseWorkspaceFails, Crash, Idle
        <3>q. CASE Restart(w)
            BY <3>a, <3>q, <3>p
            DEF Restart, work, PhaseOf, Idle, BeforeWorkspace, BeforeRuns, InWorkspace
        <3>. QED
            BY <1>3, <3>b, <3>c, <3>d, <3>e, <3>f, <3>g, <3>h, <3>i, <3>j, <3>k, <3>l, <3>m, <3>n,
               <3>o, <3>q, Builds DEF WorkerStep
    <2>. QED
        BY <2>1, <2>2 DEF Phases
<1>. QED
    BY <1>1, <1>2, <1>3 DEF Next

-----------------------------------------------------------------------------
(* The queue and the results. *)

(* Only leasing and applying a completion touch the queue, and only        *)
(* leasing and leaving the lease of a worker.                              *)
LEMMA QueueMoves ==
    ASSUME Types, NEW w \in Workers, WorkerStep(w)
    PROVE  /\ \/ \E s \in Submissions : LeaseSubmission(w, s)
              \/ ApplyCompletion(w)
              \/ UNCHANGED queue
           /\ \/ \E s \in Submissions : LeaseSubmission(w, s)
              \/ lease'[w] = None
              \/ lease'[w] = lease[w]
<1>. DEFINE Moves == /\ \/ \E s \in Submissions : LeaseSubmission(w, s)
                        \/ ApplyCompletion(w)
                        \/ UNCHANGED queue
                     /\ \/ \E s \in Submissions : LeaseSubmission(w, s)
                        \/ lease'[w] = None
                        \/ lease'[w] = lease[w]
<1>1. ASSUME NEW s \in Submissions, LeaseSubmission(w, s) PROVE Moves
    BY <1>1
<1>2. CASE MarkJudging(w) \/ PrepareWorkspace(w) \/ CreateWorkspace(w) \/ WriteSource(w)
    BY <1>2 DEF MarkJudging, PrepareWorkspace, CreateWorkspace, WriteSource
<1>3. CASE BuildPython(w) \/ FinishRuns(w) \/ ReadExpectations(w) \/ Restart(w)
    BY <1>3 DEF BuildPython, FinishRuns, ReadExpectations, Restart
<1>4. ASSUME NEW c \in Possible, Compile(w, c) \/ CompileFails(w, c) PROVE Moves
    BY <1>4 DEF Compile, CompileFails, Complete
<1>5. ASSUME NEW n \in CaseCounts, AcquireTestcases(w, n) PROVE Moves
    BY <1>5 DEF AcquireTestcases
<1>6. ASSUME NEW e \in Executions \cup {NotFound}, RunTestcase(w, e) PROVE Moves
    BY <1>6 DEF RunTestcase
<1>7. CASE Evaluate(w) \/ WorkspaceIsGone(w) \/ \E code \in ErrorCode : StepFails(w, code)
    BY <1>7 DEF Evaluate, WorkspaceIsGone, StepFails, Complete
<1>8. CASE ApplyCompletion(w) \/ ApplyCompletionFails(w) \/ EmptyWorkspace(w)
    BY <1>8 DEF ApplyCompletion, ApplyCompletionFails, EmptyWorkspace
<1>9. ASSUME NEW state, Leave(w, state) PROVE lease'[w] = None
    BY <1>9 DEF Leave, Types, TypeOK
<1>10. CASE MarkJudgingFails(w) \/ CloseWorkspace(w) \/ CloseWorkspaceFails(w) \/ Crash(w)
    BY <1>9, <1>10 DEF MarkJudgingFails, CloseWorkspace, CloseWorkspaceFails, Crash
<1>. QED
    BY <1>1, <1>2, <1>3, <1>4, <1>5, <1>6, <1>7, <1>8, <1>10, Builds DEF WorkerStep

(* What applying a completion stores. *)
LEMMA StoredResult ==
    ASSUME Types, NEW w \in Workers, lease[w] # None, ApplyCompletion(w),
           NEW s, s = lease[w].submission
    PROVE  /\ s \in Submissions /\ row[s].state = "leased" /\ row[s].life = lease[w].life
           /\ \A t \in Submissions \ {s} : row'[t] = row[t] /\ result'[t] = result[t]
           /\ row'[s].life = row[s].life /\ row'[s].attempt_no = row[s].attempt_no
           /\ row'[s].late = row[s].late
           /\ \/ result'[s] = result[s]
              \/ /\ row'[s].state = "absent"
                 /\ result'[s].outcome = completion[w] /\ result'[s].report = report[w]
                 /\ result'[s].cases = cases[w] /\ result'[s].lease = lease[w]
<1>1. s \in Submissions
    BY LeaseFacts
<1>2. row[s].state = "leased" /\ row[s].life = lease[w].life
    BY DEF ApplyCompletion, Owns
<1>3. /\ \A t \in Submissions \ {s} : row'[t] = row[t]
      /\ row'[s].life = row[s].life /\ row'[s].attempt_no = row[s].attempt_no
      /\ row'[s].late = row[s].late
    <2>1. PICK state \in {"queued", "absent"} :
              row' = [row EXCEPT ![s] = [row[s] EXCEPT !.state = state, !.owner = None]]
        BY <1>1 DEF ApplyCompletion, Types, TypeOK
    <2>2. row'[s] = [row[s] EXCEPT !.state = state, !.owner = None]
        BY <1>1, <2>1 DEF Types, TypeOK
    <2>. QED
        BY <1>1, <2>1, <2>2 DEF Types, TypeOK
<1>4. CASE completion[w].kind = "requeue"
    BY <1>1, <1>2, <1>3, <1>4 DEF ApplyCompletion
<1>5. CASE completion[w].kind # "requeue"
    <2>. DEFINE r == [outcome |-> completion[w], report |-> report[w], cases |-> cases[w],
                      lease |-> lease[w]]
    <2>1. result' = [result EXCEPT ![s] = r] /\ row'[s].state = "absent"
        BY <1>1, <1>5 DEF ApplyCompletion, Types, TypeOK, Row
    <2>2. result'[s] = r /\ \A t \in Submissions \ {s} : result'[t] = result[t]
        BY <1>1, <2>1 DEF Types
    <2>. QED
        BY <1>1, <1>2, <1>3, <2>1, <2>2
<1>. QED
    BY <1>4, <1>5

(* What leasing and rejudging do to the row of a submission. *)
LEMMA LeasedRow ==
    ASSUME Types, NEW w \in Workers, NEW s \in Submissions, LeaseSubmission(w, s)
    PROVE  /\ row'[s].attempt_no = row[s].attempt_no + 1 /\ row'[s].life = row[s].life
           /\ row'[s].late = row[s].late /\ row[s].state \in {"queued", "leased"}
           /\ \A t \in Submissions \ {s} : row'[t] = row[t]
           /\ lease'[w].submission = s /\ lease'[w].attempt_no = row[s].attempt_no + 1
           /\ lease'[w].life = row[s].life /\ result' = result
BY DEF LeaseSubmission, Types, TypeOK

LEMMA RejudgedRow ==
    ASSUME Types, NEW s \in Submissions, Rejudge(s)
    PROVE  /\ row'[s].life = row[s].life + 1 /\ row'[s].attempt_no = 0
           /\ row'[s].late <=> WorkersAt(s) # {}
           /\ \A t \in Submissions \ {s} : row'[t] = row[t] /\ result'[t] = result[t]
           /\ result'[s].outcome = NoCompletion /\ lease' = lease
BY DEF Rejudge, Types, TypeOK, NoResult

LEMMA ResultsStep ==
    ASSUME Types, Phases, ResultsAreJustified, [Next]_vars
    PROVE  ResultsAreJustified'
<1>1. CASE UNCHANGED queue
    BY <1>1 DEF queue, ResultsAreJustified, Justified
<1>2. ASSUME NEW s \in Submissions, Rejudge(s) PROVE ResultsAreJustified'
    BY <1>2, RejudgedRow DEF ResultsAreJustified, Justified
<1>3. ASSUME NEW w \in Workers, NEW s \in Submissions, LeaseSubmission(w, s)
      PROVE  ResultsAreJustified'
    BY <1>3, LeasedRow DEF ResultsAreJustified, Justified
<1>4. ASSUME NEW w \in Workers, ApplyCompletion(w) PROVE ResultsAreJustified'
    <2>. DEFINE s == lease[w].submission
    <2>1. lease[w] # None /\ Justified(completion[w], report[w], cases[w])
        BY <1>4 DEF ApplyCompletion, Phases, PhaseOf, Idle
    <2>2. /\ \A t \in Submissions \ {s} : result'[t] = result[t]
          /\ \/ result'[s] = result[s]
             \/ /\ result'[s].outcome = completion[w] /\ result'[s].report = report[w]
                /\ result'[s].cases = cases[w]
        BY <1>4, <2>1, StoredResult
    <2>. HIDE DEF s
    <2>. QED
        BY <2>1, <2>2 DEF ResultsAreJustified, Justified
<1>. QED
    BY <1>1, <1>2, <1>3, <1>4, QueueMoves DEF Next, vars, queue

LEMMA LifeStep ==
    ASSUME Types, Phases, ResultIsOfThisLife, [Next]_vars
    PROVE  ResultIsOfThisLife'
<1>1. CASE UNCHANGED queue
    BY <1>1 DEF queue, ResultIsOfThisLife
<1>2. ASSUME NEW s \in Submissions, Rejudge(s) PROVE ResultIsOfThisLife'
    BY <1>2, RejudgedRow, UnfinishedFields DEF ResultIsOfThisLife
<1>3. ASSUME NEW w \in Workers, NEW s \in Submissions, LeaseSubmission(w, s)
      PROVE  ResultIsOfThisLife'
    BY <1>3, LeasedRow DEF ResultIsOfThisLife
<1>4. ASSUME NEW w \in Workers, ApplyCompletion(w) PROVE ResultIsOfThisLife'
    <2>. DEFINE s == lease[w].submission
    <2>1. lease[w] # None
        BY <1>4 DEF ApplyCompletion, Phases, PhaseOf, Idle
    <2>2. /\ s \in Submissions /\ row[s].state = "leased" /\ row[s].life = lease[w].life
          /\ row'[s].life = row[s].life
          /\ \A t \in Submissions \ {s} : row'[t] = row[t] /\ result'[t] = result[t]
          /\ \/ result'[s] = result[s]
             \/ row'[s].state = "absent" /\ result'[s].lease = lease[w]
        BY <1>4, <2>1, StoredResult
    <2>3. row[s].state = "leased" => result[s].outcome.kind # "finalize"
        BY <2>2 DEF ResultIsOfThisLife
    <2>. HIDE DEF s
    <2>. QED
        BY <2>2, <2>3 DEF ResultIsOfThisLife
<1>. QED
    BY <1>1, <1>2, <1>3, <1>4, QueueMoves DEF Next, vars, queue

(* The numbers of a row. *)
LEMMA RowFacts ==
    ASSUME Types, NEW s \in Submissions
    PROVE  row[s].attempt_no \in Nat /\ row[s].life \in Nat /\ row[s].late \in BOOLEAN
BY BoundsAssumption DEF Types, TypeOK, Row

LEMMA LeaseNumbers ==
    ASSUME Types, NEW w \in Workers, lease[w] # None
    PROVE  /\ lease[w].submission \in Submissions
           /\ lease[w].attempt_no \in Nat /\ lease[w].life \in Nat
<1>1. lease[w].attempt_no \in 1..MaxAttempts /\ lease[w].life \in 0..MaxRejudges
    BY LeaseFacts
<1>. QED
    BY <1>1, LeaseFacts, BoundsAssumption

(* A worker's step leaves the life of a submission, and counts on. *)
LEMMA RowsCountOn ==
    ASSUME Types, Phases, NEW w \in Workers, WorkerStep(w), NEW t \in Submissions
    PROVE  /\ row'[t].life = row[t].life /\ row'[t].late = row[t].late
           /\ row'[t].attempt_no >= row[t].attempt_no
<1>1. row[t].attempt_no \in Nat
    BY RowFacts
<1>2. ASSUME NEW s \in Submissions, LeaseSubmission(w, s)
      PROVE  /\ row'[t].life = row[t].life /\ row'[t].late = row[t].late
             /\ row'[t].attempt_no >= row[t].attempt_no
    BY <1>1, <1>2, LeasedRow
<1>3. ASSUME ApplyCompletion(w)
      PROVE  /\ row'[t].life = row[t].life /\ row'[t].late = row[t].late
             /\ row'[t].attempt_no = row[t].attempt_no
    <2>1. lease[w] # None
        BY <1>3 DEF ApplyCompletion, Phases, PhaseOf, Idle
    <2>. QED
        BY <1>3, <2>1, StoredResult
<1>. QED
    BY <1>1, <1>2, <1>3, QueueMoves DEF queue

LEMMA LeasesStep ==
    ASSUME Types, Phases, Leases, [Next]_vars
    PROVE  Leases'
<1>1. CASE UNCHANGED vars
    BY <1>1 DEF vars, queue, Leases, IsGivenOut, LeasesDiffer
<1>2. ASSUME NEW s \in Submissions, Rejudge(s) PROVE Leases'
    <2>1. /\ row'[s].life = row[s].life + 1 /\ lease' = lease
          /\ row'[s].late <=> WorkersAt(s) # {}
          /\ \A t \in Submissions \ {s} : row'[t] = row[t]
        BY <1>2, RejudgedRow
    <2>2. ASSUME NEW w \in Workers, lease[w] # None PROVE IsGivenOut(w)'
        <3>1. IsGivenOut(w) /\ lease'[w] = lease[w] /\ lease[w].submission \in Submissions
            BY <2>1, <2>2, LeaseFacts DEF Leases
        <3>2. CASE lease[w].submission # s
            BY <2>1, <2>2, <3>1, <3>2 DEF IsGivenOut
        <3>3. CASE lease[w].submission = s
            <4>1. lease[w].life \in Nat /\ row[s].life \in Nat /\ lease[w].life <= row[s].life
                BY <2>2, <3>1, <3>3, LeaseNumbers, RowFacts DEF IsGivenOut
            <4>2. row'[s].late
                BY <2>1, <2>2, <3>3 DEF WorkersAt
            <4>. QED
                BY <2>1, <3>1, <3>3, <4>1, <4>2 DEF IsGivenOut
        <3>. QED
            BY <3>2, <3>3
    <2>. QED
        BY <2>1, <2>2 DEF Leases, LeasesDiffer, IsGivenOut
<1>3. ASSUME NEW w \in Workers, WorkerStep(w) PROVE Leases'
    <2>1. ASSUME NEW v \in Workers, lease'[v] = lease[v], lease[v] # None PROVE IsGivenOut(v)'
        <3>. DEFINE t == lease[v].submission
        <3>1. t \in Submissions /\ lease[v].life \in Nat /\ lease[v].attempt_no \in Nat
            BY <2>1, LeaseNumbers
        <3>2. /\ row'[t].life = row[t].life /\ row'[t].late = row[t].late
              /\ row'[t].attempt_no >= row[t].attempt_no
              /\ row[t].attempt_no \in Nat /\ row'[t].attempt_no \in Nat
            <4>1. Types'
                BY TypesStep, <1>3 DEF Next
            <4>2. row'[t].attempt_no \in Nat
                BY <3>1, <4>1, BoundsAssumption DEF Types, TypeOK, Row
            <4>. QED
                BY <1>3, <3>1, <4>2, RowsCountOn, RowFacts
        <3>3. /\ lease[v].life <= row[t].life
              /\ lease[v].life = row[t].life => lease[v].attempt_no <= row[t].attempt_no
              /\ ~row[t].late => lease[v].life = row[t].life
            BY <2>1 DEF Leases, IsGivenOut
        <3>4. /\ lease[v].life <= row'[t].life
              /\ lease[v].life = row'[t].life => lease[v].attempt_no <= row'[t].attempt_no
              /\ ~row'[t].late => lease[v].life = row'[t].life
            BY <3>1, <3>2, <3>3
        <3>. QED
            BY <2>1, <3>4 DEF IsGivenOut
    <2>2. \A v \in Workers \ {w} : lease'[v] = lease[v]
        BY <1>3, OthersAreUnmoved
    <2>3. CASE lease'[w] \in {None, lease[w]}
        <3>1. \A v \in Workers : lease'[v] = None \/ lease'[v] = lease[v]
            BY <2>2, <2>3
        <3>2. \A v \in Workers : IsGivenOut(v)'
            <4>1. \A v \in Workers : lease'[v] = None => IsGivenOut(v)'
                BY DEF IsGivenOut
            <4>. QED
                BY <2>1, <3>1, <4>1
        <3>3. LeasesDiffer'
            BY <3>1 DEF Leases, LeasesDiffer
        <3>. QED
            BY <3>2, <3>3 DEF Leases
    <2>4. ASSUME NEW s \in Submissions, LeaseSubmission(w, s) PROVE Leases'
        <3>1. /\ row'[s].attempt_no = row[s].attempt_no + 1 /\ row'[s].life = row[s].life
              /\ lease'[w].submission = s /\ lease'[w].attempt_no = row[s].attempt_no + 1
              /\ lease'[w].life = row[s].life
            BY <2>4, LeasedRow
        <3>2. row[s].attempt_no \in Nat /\ row[s].life \in Nat
            BY RowFacts
        <3>3. IsGivenOut(w)'
            BY <3>1, <3>2 DEF IsGivenOut
        <3>4. \A v \in Workers \ {w} : IsGivenOut(v)'
            <4>1. \A v \in Workers : lease'[v] = None => IsGivenOut(v)'
                BY DEF IsGivenOut
            <4>. QED
                BY <2>1, <2>2, <4>1
        <3>5. ASSUME NEW v \in Workers \ {w}, lease[v] # None PROVE lease[v] # lease'[w]
            <4>. SUFFICES ASSUME lease[v] = lease'[w] PROVE FALSE
                OBVIOUS
            <4>1. lease[v].attempt_no <= row[s].attempt_no
                BY <3>1, <3>5 DEF Leases, IsGivenOut
            <4>. QED
                BY <3>1, <3>2, <4>1
        <3>6. LeasesDiffer'
            <4>1. ASSUME NEW u \in Workers, NEW v \in Workers, u # v, lease'[u] # None
                  PROVE  lease'[u] # lease'[v]
                <5>1. CASE u = w
                    BY <2>2, <3>5, <4>1, <5>1
                <5>2. CASE v = w
                    BY <2>2, <3>5, <4>1, <5>2
                <5>3. CASE u # w /\ v # w
                    BY <2>2, <4>1, <5>3 DEF Leases, LeasesDiffer
                <5>. QED
                    BY <5>1, <5>2, <5>3
            <4>. QED
                BY <4>1 DEF LeasesDiffer
        <3>. QED
            BY <3>3, <3>4, <3>6 DEF Leases
    <2>. QED
        BY <1>3, <2>3, <2>4, QueueMoves
<1>. QED
    BY <1>1, <1>2, <1>3 DEF Next

-----------------------------------------------------------------------------
(* The workspaces. *)

(* The path of an undisturbed worker is no other's: two leases of one life *)
(* differ in their attempt_no.                                             *)
LEMMA PathsApart ==
    ASSUME Types, Leases, NEW w \in Workers, NEW v \in Workers \ {w}, Undisturbed(w),
           lease[v] # None
    PROVE  PathOf(lease[v]) # PathOf(lease[w])
<1>. SUFFICES ASSUME PathOf(lease[v]) = PathOf(lease[w]) PROVE FALSE
    OBVIOUS
<1>1. lease[v] \in Lease /\ lease[w] \in Lease
    BY LeaseFacts DEF Undisturbed
<1>2. /\ lease[v].submission = lease[w].submission
      /\ lease[v].attempt_no = lease[w].attempt_no
    BY DEF PathOf
<1>3. lease[v].life = lease[w].life
    BY <1>2 DEF Leases, IsGivenOut, Undisturbed
<1>4. lease[v] = lease[w]
    BY <1>1, <1>2, <1>3 DEF Lease
<1>. QED
    BY <1>4 DEF Leases, LeasesDiffer

(* A worker only touches its own directory. *)
LEMMA OtherDirectoriesAreKept ==
    ASSUME Types, Phases, NEW w \in Workers, WorkerStep(w), NEW p \in Path
    PROVE  dir'[p] = dir[p] \/ (lease[w] # None /\ p = PathOf(lease[w]))
<1>1. ASSUME NEW d, SetWorkspace(w, d) PROVE dir'[p] = dir[p] \/ p = PathOf(lease[w])
    BY <1>1 DEF SetWorkspace, Types, TypeOK
<1>. DEFINE Kept == dir'[p] = dir[p] \/ p = PathOf(lease[w])
            Busy == pc[w] \notin Idle
<1>2. CASE MarkJudging(w) \/ BuildPython(w) \/ FinishRuns(w) \/ ReadExpectations(w) \/ Restart(w)
    BY <1>2 DEF MarkJudging, BuildPython, FinishRuns, ReadExpectations, Restart
<1>3. CASE PrepareWorkspace(w) \/ CreateWorkspace(w) \/ WriteSource(w)
    <2>1. Kept /\ Busy
        BY <1>1, <1>3 DEF PrepareWorkspace, CreateWorkspace, WriteSource, Idle
    <2>. QED
        BY <2>1, Working
<1>4. ASSUME NEW c \in Possible, Compile(w, c) \/ CompileFails(w, c) PROVE Kept /\ Busy
    BY <1>1, <1>4 DEF Compile, CompileFails, Compiles, Idle
<1>5. CASE \/ \E s \in Submissions : LeaseSubmission(w, s)
           \/ \E n \in CaseCounts : AcquireTestcases(w, n)
           \/ \E e \in Executions \cup {NotFound} : RunTestcase(w, e)
    BY <1>5 DEF LeaseSubmission, AcquireTestcases, RunTestcase
<1>6. CASE Evaluate(w) \/ WorkspaceIsGone(w) \/ \E code \in ErrorCode : StepFails(w, code)
    BY <1>6 DEF Evaluate, WorkspaceIsGone, StepFails
<1>7. CASE EmptyWorkspace(w) \/ CloseWorkspace(w)
    <2>1. Kept /\ Busy
        BY <1>1, <1>7 DEF EmptyWorkspace, CloseWorkspace, Idle
    <2>. QED
        BY <2>1, Working
<1>8. CASE ApplyCompletion(w) \/ ApplyCompletionFails(w)
    BY <1>8 DEF ApplyCompletion, ApplyCompletionFails
<1>9. CASE MarkJudgingFails(w) \/ CloseWorkspaceFails(w) \/ Crash(w)
    BY <1>9 DEF MarkJudgingFails, CloseWorkspaceFails, Crash
<1>. QED
    BY <1>2, <1>3, <1>4, <1>5, <1>6, <1>7, <1>8, <1>9, Builds, Working DEF WorkerStep

(* What an undisturbed worker finds, with everything it depends on.        *)
LEMMA WorkspaceStep ==
    ASSUME Types, Phases, Workspaces, NEW w \in Workers, WorkerStep(w)
    PROVE  WorkspaceOf(w)'
<1>. SUFFICES ASSUME Undisturbed(w)' PROVE WorkspaceOf(w)'
    BY DEF WorkspaceOf
<1>1. \A state : Goto(w, state) => pc'[w] = state
    BY DEF Goto, Types, TypeOK
<1>2. \A state : Leave(w, state) => lease'[w] = None
    BY DEF Leave, Types, TypeOK
<1>3. ASSUME lease' = lease, lease[w] # None PROVE Undisturbed(w)
    <2>1. row'[lease[w].submission].late = row[lease[w].submission].late
        BY <1>3, LeaseNumbers, RowsCountOn
    <2>. QED
        BY <1>3, <2>1 DEF Undisturbed
<1>4. ASSUME lease' = lease, pc[w] \notin Idle
      PROVE  /\ Undisturbed(w) /\ lease[w] # None /\ WorkspaceOf(w)
             /\ PathOf(lease[w]) \in Path
             /\ Workspace(w)' = dir'[PathOf(lease[w])]
             /\ \A d : SetWorkspace(w, d) => Workspace(w)' = d
             /\ UNCHANGED dir => Workspace(w)' = Workspace(w)
    <2>1. lease[w] # None /\ Undisturbed(w) /\ PathOf(lease[w]) \in Path
        BY <1>3, <1>4, Working, LeaseFacts
    <2>2. Workspace(w)' = dir'[PathOf(lease[w])]
        BY <1>4 DEF Workspace, PathOf
    <2>3. \A d : SetWorkspace(w, d) => Workspace(w)' = d
        BY <2>1, <2>2 DEF SetWorkspace, Types, TypeOK
    <2>4. UNCHANGED dir => Workspace(w)' = Workspace(w)
        BY <2>2 DEF Workspace
    <2>. QED
        BY <2>1, <2>2, <2>3, <2>4 DEF Workspaces
<1>5. ASSUME UNCHANGED <<lease, report>>, RunsWhatItBuilt(w) PROVE RunsWhatItBuilt(w)'
    BY <1>5 DEF RunsWhatItBuilt
<1>6. ASSUME UNCHANGED <<lease, dir, report>>, pc[w] \notin Idle,
             \/ pc'[w] \notin {"creating", "writing", "building"} \cup HasProgram
             \/ pc'[w] \in HasProgram /\ pc[w] \in HasProgram
      PROVE  WorkspaceOf(w)'
    BY <1>4, <1>5, <1>6 DEF WorkspaceOf, HasProgram
<1>7. ASSUME NEW s \in Submissions, LeaseSubmission(w, s) PROVE WorkspaceOf(w)'
    <2>1. report'[w] = <<>>
        BY <1>7 DEF LeaseSubmission, work, Phases, PhaseOf, BeforeRuns, Idle
    <2>. QED
        BY <1>1, <1>7, <2>1 DEF LeaseSubmission, WorkspaceOf, RunsWhatItBuilt, HasProgram
<1>8. CASE MarkJudging(w)
    BY <1>1, <1>6, <1>8 DEF MarkJudging, work, HasProgram, Idle
<1>9. CASE PrepareWorkspace(w)
    BY <1>1, <1>4, <1>5, <1>9 DEF PrepareWorkspace, work, WorkspaceOf, HasProgram, Idle
<1>10. CASE CreateWorkspace(w)
    BY <1>1, <1>4, <1>5, <1>10, DirectoryFacts
    DEF CreateWorkspace, WorkspaceOf, HasProgram, Idle
<1>11. CASE WriteSource(w)
    <2>1. lease' = lease /\ pc[w] \notin Idle /\ pc'[w] = "building"
        BY <1>1, <1>11 DEF WriteSource, Idle
    <2>2. Workspace(w)' = [Workspace(w) EXCEPT !.source = lease[w]] /\ Workspace(w) \in Directory
        BY <1>4, <1>11, <2>1, LeaseFacts DEF WriteSource
    <2>3. Workspace(w)'.exists /\ Workspace(w)'.source = lease[w]
        BY <1>11, <2>2 DEF WriteSource, Directory
    <2>. QED
        BY <1>4, <1>5, <1>11, <2>1, <2>3 DEF WriteSource, work, WorkspaceOf, HasProgram
<1>12. CASE BuildPython(w)
    BY <1>1, <1>4, <1>5, <1>12 DEF BuildPython, work, WorkspaceOf, HasProgram, Idle
<1>13. ASSUME NEW c \in Possible, Compile(w, c) PROVE WorkspaceOf(w)'
    <2>1. lease' = lease /\ pc[w] = "building" /\ pc[w] \notin Idle /\ pc'[w] = "acquiring"
        BY <1>1, <1>13 DEF Compile, Compiles, Idle
    <2>2. /\ Workspace(w)' = [Workspace(w) EXCEPT !.program = Workspace(w).source]
          /\ Workspace(w) \in Directory /\ Workspace(w).exists /\ Workspace(w).source = lease[w]
        BY <1>4, <1>13, <2>1, LeaseFacts DEF Compile, WorkspaceOf
    <2>3. /\ Workspace(w)'.exists /\ Workspace(w)'.source = lease[w]
          /\ Workspace(w)'.program = lease[w]
        BY <2>2 DEF Directory
    <2>. QED
        BY <1>4, <1>5, <1>13, <2>1, <2>3 DEF Compile, work, WorkspaceOf, HasProgram
<1>14. ASSUME NEW c \in Possible, CompileFails(w, c) PROVE WorkspaceOf(w)'
    BY <1>1, <1>6, <1>14 DEF CompileFails, Compiles, Complete, work, HasProgram, Idle
<1>15. ASSUME NEW n \in CaseCounts, AcquireTestcases(w, n) PROVE WorkspaceOf(w)'
    BY <1>1, <1>6, <1>15 DEF AcquireTestcases, HasProgram, Idle
<1>16. ASSUME NEW e \in Executions \cup {NotFound}, RunTestcase(w, e) PROVE WorkspaceOf(w)'
    <2>1. /\ lease' = lease /\ pc' = pc /\ dir' = dir /\ pc[w] \in HasProgram
          /\ pc[w] \notin Idle
        BY <1>16 DEF RunTestcase, HasProgram, Idle
    <2>2. EntryOf(w) = lease[w]
        BY <1>4, <2>1 DEF EntryOf, WorkspaceOf
    <2>3. /\ report[w] \in Seq(Run)
          /\ report'[w] = Append(report[w], [execution |-> e, program |-> lease[w]])
        BY <1>16, <2>2 DEF RunTestcase, Types
    <2>4. Len(report[w]) \in Nat /\ DOMAIN report[w] = 1..Len(report[w])
        BY <2>3, LenProperties
    <2>5. /\ DOMAIN report'[w] = 1..(Len(report[w]) + 1)
          /\ \A i \in 1..Len(report[w]) : report'[w][i] = report[w][i]
          /\ report'[w][Len(report[w]) + 1].program = lease[w]
        BY <2>3, <2>4
    <2>6. \A i \in 1..(Len(report[w]) + 1) : i \in 1..Len(report[w]) \/ i = Len(report[w]) + 1
        BY <2>4
    <2>7. \A i \in DOMAIN report'[w] : report'[w][i].program = lease[w]
        BY <1>4, <2>1, <2>4, <2>5, <2>6 DEF WorkspaceOf, RunsWhatItBuilt
    <2>. QED
        BY <1>4, <2>1, <2>7 DEF WorkspaceOf, RunsWhatItBuilt
<1>17. CASE FinishRuns(w) \/ ReadExpectations(w) \/ Evaluate(w)
    BY <1>1, <1>6, <1>17
    DEF FinishRuns, ReadExpectations, Evaluate, Complete, work, HasProgram, Idle
<1>18. CASE WorkspaceIsGone(w) \/ \E code \in ErrorCode : StepFails(w, code)
    BY <1>1, <1>6, <1>18
    DEF WorkspaceIsGone, StepFails, Fallible, Complete, work, HasProgram, Idle
<1>19. CASE ApplyCompletion(w) \/ ApplyCompletionFails(w)
    BY <1>1, <1>6, <1>19 DEF ApplyCompletion, ApplyCompletionFails, work, HasProgram, Idle
<1>20. CASE EmptyWorkspace(w)
    BY <1>4, <1>5, <1>20 DEF EmptyWorkspace, work, WorkspaceOf, HasProgram, Idle
<1>21. CASE MarkJudgingFails(w) \/ CloseWorkspace(w) \/ CloseWorkspaceFails(w) \/ Crash(w)
    BY <1>2, <1>21
    DEF MarkJudgingFails, CloseWorkspace, CloseWorkspaceFails, Crash, Undisturbed
<1>22. CASE Restart(w)
    BY <1>22 DEF Restart, Phases, PhaseOf, Idle, Undisturbed
<1>. QED
    BY <1>7, <1>8, <1>9, <1>10, <1>11, <1>12, <1>13, <1>14, <1>15, <1>16, <1>17, <1>18, <1>19,
       <1>20, <1>21, <1>22, Builds DEF WorkerStep

LEMMA WorkspacesStep ==
    ASSUME Types, Phases, Leases, Workspaces, [Next]_vars
    PROVE  Workspaces'
<1>1. CASE UNCHANGED vars
    BY <1>1
    DEF vars, queue, work, Workspaces, WorkspaceOf, Undisturbed, Workspace, RunsWhatItBuilt
<1>2. ASSUME NEW s \in Submissions, Rejudge(s) PROVE Workspaces'
    <2>1. ASSUME NEW w \in Workers, Undisturbed(w)' PROVE WorkspaceOf(w)'
        <3>1. lease' = lease /\ lease[w] # None
            BY <1>2, <2>1 DEF Rejudge, Undisturbed
        <3>2. lease[w].submission \in Submissions /\ lease[w].submission # s
            BY <1>2, <2>1, <3>1, LeaseFacts, RejudgedRow DEF WorkersAt, Undisturbed
        <3>3. Undisturbed(w) /\ WorkspaceOf(w)
            BY <1>2, <2>1, <3>1, <3>2, RejudgedRow DEF Undisturbed, Workspaces
        <3>. QED
            BY <1>2, <3>3 DEF Rejudge, work, WorkspaceOf, Workspace, RunsWhatItBuilt
    <2>. QED
        BY <2>1 DEF Workspaces, WorkspaceOf
<1>3. ASSUME NEW w \in Workers, WorkerStep(w) PROVE Workspaces'
    <2>1. ASSUME NEW v \in Workers \ {w}, Undisturbed(v)' PROVE WorkspaceOf(v)'
        <3>1. pc'[v] = pc[v] /\ lease'[v] = lease[v] /\ report'[v] = report[v]
            BY <1>3, OthersAreUnmoved
        <3>2. lease[v] # None
            BY <2>1, <3>1 DEF Undisturbed
        <3>3. row'[lease[v].submission].late = row[lease[v].submission].late
            BY <1>3, <3>2, LeaseNumbers, RowsCountOn
        <3>4. Undisturbed(v) /\ WorkspaceOf(v)
            BY <2>1, <3>1, <3>2, <3>3 DEF Undisturbed, Workspaces
        <3>5. dir'[PathOf(lease[v])] = dir[PathOf(lease[v])]
            BY <1>3, <3>2, <3>4, LeaseFacts, OtherDirectoriesAreKept, PathsApart
        <3>6. Workspace(v)' = Workspace(v)
            BY <3>1, <3>5 DEF Workspace, PathOf
        <3>. QED
            BY <3>1, <3>4, <3>6 DEF WorkspaceOf, RunsWhatItBuilt
    <2>2. WorkspaceOf(w)'
        BY <1>3, WorkspaceStep
    <2>. QED
        BY <2>1, <2>2 DEF Workspaces, WorkspaceOf
<1>. QED
    BY <1>1, <1>2, <1>3 DEF Next

(* A directory loses its last user only when a worker leaves it. *)
LEMMA UsersStay ==
    ASSUME Types, NEW w \in Workers, WorkerStep(w), NEW p \in Path, InUse(p),
           session[w] => p # PathOf(lease[w]) \/ (session'[w] /\ lease'[w] = lease[w])
    PROVE  InUse(p)'
<1>1. PICK v \in Workers : session[v] /\ PathOf(lease[v]) = p
    BY DEF InUse
<1>2. session'[v] /\ lease'[v] = lease[v]
    BY <1>1, OthersAreUnmoved
<1>. QED
    BY <1>1, <1>2 DEF InUse, PathOf

(* A step either abandons nothing, or it is a fault and abandons at most   *)
(* the worker's own directory.                                             *)
LEMMA WhatIsAbandoned ==
    ASSUME Types, Phases, NEW w \in Workers, WorkerStep(w)
    PROVE  \/ Abandoned' \subseteq Abandoned /\ faults' \in {faults, faults + 1}
           \/ Abandoned' \subseteq Abandoned \cup {PathOf(lease[w])} /\ faults' = faults + 1
<1>. DEFINE Kept == \A p \in Path : dir'[p].exists => dir[p].exists
            Stays == session[w] => session'[w] /\ lease'[w] = lease[w]
            Counted == faults' \in {faults, faults + 1}
            Goal == \/ Abandoned' \subseteq Abandoned /\ Counted
                    \/ /\ Abandoned' \subseteq Abandoned \cup {PathOf(lease[w])}
                       /\ faults' = faults + 1
<1>1. ASSUME Kept, Stays PROVE Abandoned' \subseteq Abandoned
    BY <1>1, UsersStay DEF Abandoned
<1>2. ASSUME Kept PROVE Abandoned' \subseteq Abandoned \cup {PathOf(lease[w])}
    BY <1>2, UsersStay DEF Abandoned
<1>3. UNCHANGED dir => Kept
    OBVIOUS
<1>4. UNCHANGED <<lease, session>> => Stays
    OBVIOUS
<1>5. UNCHANGED faults \/ Fault => Counted
    BY DEF Fault
<1>6. ASSUME NEW d, d \in Directory, SetWorkspace(w, d), d.exists => Workspace(w).exists PROVE Kept
    BY <1>6 DEF SetWorkspace, Workspace, Types, TypeOK
<1>7. ASSUME NEW s \in Submissions, LeaseSubmission(w, s) PROVE Goal
    <2>1. ~session[w]
        BY <1>7 DEF LeaseSubmission, Phases, PhaseOf, Idle
    <2>. QED
        BY <1>1, <1>3, <1>5, <1>7, <2>1 DEF LeaseSubmission
<1>8. CASE MarkJudging(w) \/ BuildPython(w) \/ FinishRuns(w) \/ ReadExpectations(w) \/ Restart(w)
    BY <1>1, <1>3, <1>4, <1>5, <1>8
    DEF MarkJudging, BuildPython, FinishRuns, ReadExpectations, Restart, work
<1>9. CASE PrepareWorkspace(w)
    BY <1>1, <1>4, <1>5, <1>6, <1>9, DirectoryFacts DEF PrepareWorkspace, work
<1>10. CASE CreateWorkspace(w)
    <2>1. session'[w] /\ lease' = lease /\ lease[w] # None
        BY <1>10, Working DEF CreateWorkspace, Types, TypeOK, Idle
    <2>2. \A p \in Path : p = PathOf(lease[w]) => InUse(p)'
        BY <2>1 DEF InUse, PathOf
    <2>3. \A p \in Path : p # PathOf(lease[w]) => dir'[p] = dir[p]
        BY <1>10 DEF CreateWorkspace, SetWorkspace, Types, TypeOK
    <2>4. ASSUME NEW p \in Abandoned' PROVE p \in Abandoned
        <3>1. p \in Path /\ dir'[p].exists /\ ~InUse(p)'
            BY <2>4 DEF Abandoned
        <3>2. p # PathOf(lease[w])
            BY <2>2, <3>1
        <3>. QED
            BY <2>3, <3>1, <3>2, UsersStay DEF Abandoned
    <2>. QED
        BY <1>5, <1>10, <2>4 DEF CreateWorkspace
<1>11. CASE WriteSource(w)
    <2>1. lease[w] # None
        BY <1>11, Working DEF WriteSource, Idle
    <2>2. [Workspace(w) EXCEPT !.source = lease[w]] \in Directory
        BY <2>1, LeaseFacts DEF Directory
    <2>3. Kept
        BY <1>6, <1>11, <2>2 DEF WriteSource
    <2>. QED
        BY <1>1, <1>4, <1>5, <1>11, <2>3 DEF WriteSource, work
<1>12. ASSUME NEW c \in Possible, lease[w] # None, Compile(w, c) PROVE Goal
    <2>1. [Workspace(w) EXCEPT !.program = Workspace(w).source] \in Directory
        BY <1>12, LeaseFacts DEF Directory
    <2>2. Kept
        BY <1>6, <1>12, <2>1 DEF Compile, Compiles
    <2>. QED
        BY <1>1, <1>4, <1>5, <1>12, <2>2 DEF Compile, work
<1>13. ASSUME NEW c \in Possible, CompileFails(w, c) PROVE Goal
    BY <1>1, <1>3, <1>4, <1>5, <1>13 DEF CompileFails, work
<1>14. CASE \/ \E n \in CaseCounts : AcquireTestcases(w, n)
            \/ \E e \in Executions \cup {NotFound} : RunTestcase(w, e)
    BY <1>1, <1>3, <1>4, <1>5, <1>14 DEF AcquireTestcases, RunTestcase
<1>15. CASE Evaluate(w) \/ WorkspaceIsGone(w) \/ \E code \in ErrorCode : StepFails(w, code)
    BY <1>1, <1>3, <1>4, <1>5, <1>15 DEF Evaluate, WorkspaceIsGone, StepFails, work
<1>16. CASE ApplyCompletion(w) \/ ApplyCompletionFails(w)
    BY <1>1, <1>3, <1>4, <1>5, <1>16 DEF ApplyCompletion, ApplyCompletionFails, work
<1>17. CASE EmptyWorkspace(w)
    BY <1>1, <1>4, <1>5, <1>6, <1>17, DirectoryFacts DEF EmptyWorkspace, work
<1>18. CASE MarkJudgingFails(w)
    <2>1. ~session[w]
        BY <1>18 DEF MarkJudgingFails, Phases, PhaseOf, BeforeWorkspace
    <2>. QED
        BY <1>1, <1>3, <1>5, <1>18, <2>1 DEF MarkJudgingFails
<1>19. CASE CloseWorkspace(w)
    <2>1. CASE ~session[w]
        BY <1>1, <1>3, <1>5, <1>19, <2>1 DEF CloseWorkspace
    <2>2. CASE session[w]
        <3>1. Kept /\ Counted
            BY <1>5, <1>6, <1>19, <2>2, DirectoryFacts DEF CloseWorkspace
        <3>2. lease[w] # None
            BY <1>19, Working DEF CloseWorkspace, Idle
        <3>3. dir'[PathOf(lease[w])] = NoDirectory
            BY <1>19, <2>2, <3>2, LeaseFacts DEF CloseWorkspace, SetWorkspace, Types, TypeOK
        <3>4. PathOf(lease[w]) \notin Abandoned'
            BY <3>3, DirectoryFacts DEF Abandoned
        <3>. QED
            BY <1>2, <3>1, <3>4
    <2>. QED
        BY <2>1, <2>2
<1>20. CASE CloseWorkspaceFails(w) \/ Crash(w)
    BY <1>2, <1>3, <1>20 DEF CloseWorkspaceFails, Crash, Fault
<1>. QED
    BY <1>7, <1>8, <1>9, <1>10, <1>11, <1>12, <1>13, <1>14, <1>15, <1>16, <1>17, <1>18, <1>19,
       <1>20, Builds DEF WorkerStep

LEMMA AbandonedIsFinite ==
    ASSUME IsFiniteSet(Submissions)
    PROVE  IsFiniteSet(Abandoned)
<1>1. IsFiniteSet(1..MaxAttempts)
    BY FS_Interval, BoundsAssumption
<1>2. IsFiniteSet(Path)
    BY <1>1, FS_Product DEF Path
<1>. QED
    BY <1>2, FS_Subset DEF Abandoned

LEMMA LeftBehindStep ==
    ASSUME IsFiniteSet(Submissions), Types, Phases, NothingIsLeftBehind, [Next]_vars
    PROVE  NothingIsLeftBehind'
<1>1. IsFiniteSet(Abandoned) /\ Cardinality(Abandoned) \in Nat /\ faults \in Nat
    BY AbandonedIsFinite, FS_CardinalityType, BoundsAssumption DEF Types, TypeOK
<1>2. ASSUME UNCHANGED <<dir, session, lease, faults>> PROVE NothingIsLeftBehind'
    BY <1>2 DEF NothingIsLeftBehind, Abandoned, InUse, PathOf
<1>3. ASSUME NEW w \in Workers, WorkerStep(w) PROVE NothingIsLeftBehind'
    <2>1. CASE Abandoned' \subseteq Abandoned /\ faults' \in {faults, faults + 1}
        <3>1. Cardinality(Abandoned') <= Cardinality(Abandoned) /\ Cardinality(Abandoned') \in Nat
            BY <1>1, <2>1, FS_Subset, FS_CardinalityType
        <3>. QED
            BY <1>1, <2>1, <3>1 DEF NothingIsLeftBehind
    <2>2. CASE Abandoned' \subseteq Abandoned \cup {PathOf(lease[w])} /\ faults' = faults + 1
        <3>. DEFINE more == Abandoned \cup {PathOf(lease[w])}
        <3>1. IsFiniteSet(more) /\ Cardinality(more) <= Cardinality(Abandoned) + 1
            <4>. DEFINE p == PathOf(lease[w])
            <4>1. /\ IsFiniteSet(Abandoned \cup {p})
                  /\ Cardinality(Abandoned \cup {p}) =
                        IF p \in Abandoned THEN Cardinality(Abandoned)
                        ELSE Cardinality(Abandoned) + 1
                <5>. HIDE DEF p
                <5>. QED
                    BY <1>1, FS_AddElement
            <4>. QED
                BY <1>1, <4>1
        <3>2. /\ Cardinality(Abandoned') <= Cardinality(more)
              /\ Cardinality(Abandoned') \in Nat /\ Cardinality(more) \in Nat
            BY <2>2, <3>1, FS_Subset, FS_CardinalityType
        <3>. QED
            BY <1>1, <2>2, <3>1, <3>2 DEF NothingIsLeftBehind
    <2>. QED
        BY <1>3, <2>1, <2>2, WhatIsAbandoned
<1>. QED
    BY <1>2, <1>3 DEF Next, Rejudge, work, vars

-----------------------------------------------------------------------------
LEMMA InitInvariant == Init => IInv
<1>. SUFFICES ASSUME Init PROVE IInv
    OBVIOUS
<1>1. Types
    BY InitTypes
<1>2. Phases
    BY DEF Init, Phases, PhaseOf, Idle, BeforeWorkspace, BeforeRuns, InWorkspace
<1>3. ResultsAreJustified
    BY DEF Init, ResultsAreJustified, Justified, NoResult
<1>4. ResultIsOfThisLife
    BY UnfinishedFields DEF Init, ResultIsOfThisLife, NoResult
<1>5. Leases
    BY DEF Init, Leases, IsGivenOut, LeasesDiffer
<1>6. Workspaces
    BY DEF Init, Workspaces, WorkspaceOf, Undisturbed
<1>. QED
    BY <1>1, <1>2, <1>3, <1>4, <1>5, <1>6 DEF IInv

LEMMA NothingIsLeftAtFirst == Init => NothingIsLeftBehind
<1>. SUFFICES ASSUME Init PROVE NothingIsLeftBehind
    OBVIOUS
<1>1. Abandoned = {}
    BY DirectoryFacts DEF Init, Abandoned
<1>. QED
    BY <1>1, FS_EmptySet DEF Init, NothingIsLeftBehind

LEMMA InductiveInvariant == IInv /\ [Next]_vars => IInv'
<1>. SUFFICES ASSUME IInv, [Next]_vars PROVE IInv'
    OBVIOUS
<1>. USE DEF IInv
<1>1. Types' /\ Phases'
    BY TypesStep, PhasesStep
<1>2. ResultsAreJustified' /\ ResultIsOfThisLife'
    BY ResultsStep, LifeStep
<1>3. Leases' /\ Workspaces'
    BY LeasesStep, WorkspacesStep
<1>. QED
    BY <1>1, <1>2, <1>3

(* What a worker has fits where it is, every completion and result is      *)
(* justified, leases differ, and an undisturbed worker finds in its        *)
(* directory what it has put there (submission_processor::process).        *)
THEOREM AttemptsStayGood == Spec => []IInv
BY InitInvariant, InductiveInvariant, PTL DEF Spec

(* The verdict, score and measures of every submission follow from the     *)
(* runs that its attempt has made, whatever the compiler and the sandbox   *)
(* report and however many testcases there are (judge_policy,              *)
(* submission_decision).                                                   *)
THEOREM VerdictsAreDeserved == Spec => []VerdictIsDeserved
<1>1. IInv => VerdictIsDeserved
    BY JustifiedResultsAreDeserved DEF IInv
<1>. QED
    BY <1>1, AttemptsStayGood, PTL

(* A result is one of the submission's present life, also when workers are *)
(* late (finalize_submission checks the lease).                            *)
THEOREM ResultsAreOfThisLife == Spec => []ResultIsOfThisLife
<1>1. IInv => ResultIsOfThisLife
    BY DEF IInv
<1>. QED
    BY <1>1, AttemptsStayGood, PTL

(* Workers do not meet in a directory, start in an empty one and run what  *)
(* they built unless somebody was at the submission when it was rejudged,  *)
(* and only faults leave directories behind (workspace_manager,            *)
(* workspace_session).                                                     *)
THEOREM WorkspacesStayTheirOwn ==
    ASSUME IsFiniteSet(Submissions)
    PROVE  Spec => []WorkspacesAreTheirOwn
<1>. DEFINE Inv == IInv /\ NothingIsLeftBehind
<1>1. Init => Inv
    BY InitInvariant, NothingIsLeftAtFirst
<1>2. Inv /\ [Next]_vars => Inv'
    <2>1. ASSUME Inv, [Next]_vars PROVE NothingIsLeftBehind'
        BY <2>1, LeftBehindStep DEF IInv
    <2>. QED
        BY <2>1, InductiveInvariant
<1>3. Inv => WorkspacesAreTheirOwn
    <2>. SUFFICES ASSUME Inv PROVE WorkspacesAreTheirOwn
        OBVIOUS
    <2>1. ASSUME NEW w \in Workers, Undisturbed(w) PROVE IsPrivate(w)
        <3>1. ASSUME NEW v \in Workers \ {w}, session[v] PROVE lease[v] # None
            BY <3>1 DEF IInv, Phases, PhaseOf
        <3>. QED
            BY <2>1, <3>1, PathsApart DEF IInv, IsPrivate
    <2>2. ASSUME NEW w \in Workers, Undisturbed(w) PROVE StartsEmpty(w) /\ RunsWhatItBuilt(w)
        BY <2>2 DEF IInv, Workspaces, WorkspaceOf, StartsEmpty
    <2>. QED
        BY <2>1, <2>2 DEF WorkspacesAreTheirOwn, Undisturbed, IInv, Types
<1>. HIDE DEF Inv
<1>4. Spec => []Inv
    BY <1>1, <1>2, PTL DEF Spec
<1>. QED
    BY <1>3, <1>4, PTL
===============================================================================
