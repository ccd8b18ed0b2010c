SPECIFICATION Spec
CONSTANTS
    w1 = w1
    w2 = w2
    s1 = s1
    s2 = s2
    None = None
    TimeLimit = 1
    MemoryLimit = 1
    OutputLimit = 1
    Workers = {w1, w2}
    Submissions = {s1}
    LanguageOf <- Cpp
    Compilations <- SomeCompilations
    Executions <- SomeExecutions
    CaseCounts = {1}
    BrokenToolchain = FALSE
    LateWorkers = TRUE
    MaxAttempts = 1
    MaxRejudges = 1
    MaxFaults = 0
INVARIANTS
    WorkspaceIsPrivate
CHECK_DEADLOCK FALSE
