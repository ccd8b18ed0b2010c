SPECIFICATION PartsSpec
CONSTANTS
    w1 = w1
    w2 = w2
    s1 = s1
    s2 = s2
    None = None
    TimeLimit = 1
    MemoryLimit = 1
    OutputLimit = 1
    Workers = {w1, w2}
    Submissions = {s1, s2}
    LanguageOf <- OfEachKind
    Compilations <- ManyCompilations
    Executions <- ManyExecutions
    CaseCounts = {0, 1, 2, 3}
    BrokenToolchain = FALSE
    LateWorkers = FALSE
    MaxAttempts = 2
    MaxRejudges = 1
    MaxFaults = 1
SYMMETRY WorkersAreAlike
INVARIANTS
    CompileFailuresAreToldApart
CHECK_DEADLOCK FALSE
