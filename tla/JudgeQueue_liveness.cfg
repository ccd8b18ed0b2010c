SPECIFICATION FairSpec
CONSTANTS
    p1 = p1
    u1 = u1
    Null = Null
    Submission = {s1, s2}
    Worker = {w1, w2}
    Token <- MCToken
    Problem = {p1}
    User = {u1}
    ProblemOf <- OneProblem
    UserOf <- OneUser
    Verdict = {"wrong_answer"}
    MaxEnqueue = 2
    MaxFault = 2
PROPERTIES
    EverySubmissionIsDecided
