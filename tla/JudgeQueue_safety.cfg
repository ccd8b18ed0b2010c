SPECIFICATION PartsSpec
CONSTANTS
    p1 = p1
    u1 = u1
    Null = Null
    Submission = {s1, s2}
    Worker = {w1, w2}
    Token <- MCToken
    Problem = {p1}
    User = {u1}
    ProblemOf <- OneProblem
    UserOf <- OneUser
    Verdict = {"accepted", "wrong_answer", "build_resource_exceeded", "infra_failure"}
    MaxEnqueue = 4
    MaxFault = 2
SYMMETRY Symmetry
INVARIANTS
    TypeInvariant
    LeaseInvariant
    ResultBelongsToVerdict
    CountersExact
PROPERTIES
    LiveLeaseIsExclusive
    OnlyTheLeaseholderDecides
    ImplementsLifecycle
