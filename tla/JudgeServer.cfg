SPECIFICATION PartsSpec
CONSTANTS
    Threads = {t1, t2}
    Dirs = {d1, d2, d3}
    TimeLimit = 2
    CallsFail = TRUE
    Submissions = {s1, s2}
    Instances = {i1, i2}
    WorkerCount = 2
    Interval = 2
    StaleAfter = 3
    Horizon = 6
    p1 = p1
    p2 = p2
    w1 = w1
    w2 = w2
    w3 = w3
    t1 = t1
    t2 = t2
    d1 = d1
    d2 = d2
    d3 = d3
    s1 = s1
    s2 = s2
    i1 = i1
    i2 = i2
    Main = Main
    NoDir = NoDir
    NoThread = NoThread
    None = None
    Processes = {p1, p2}
    Workers = {w1, w2, w3}
    Versions = {1, 2}
    Cases = 2
    Found = {"absent", "whole"}
    MaxFailures = 2
    ProcessOf <- InTwoProcesses
INVARIANTS
    DirectoriesAreWhole
    DirectoriesAreKept
    RunsAreSeparate
    StatusIsTrue
    RestartRenewsTheCache
PROPERTIES
    WholeDirectoryIsKept
    EveryWaitEnds
    WorkIsTaken
CHECK_DEADLOCK FALSE
