SPECIFICATION PartsSpec
CONSTANTS
    Transactions = {t1, t2, t3}
    Kinds = {"create", "delete", "set", "limits", "title", "statement"}
    Limits = {l1, l2}
    InitialLimits = l1
    MaxSamples = 3
    MaxVersion = 3
    RetryCount = 5
    Submitters = {1, 2, 3, 4}
    Workloads <- MCWorkloads
    Submissions = {1, 2, 3, 4}
    Author <- Authors
    InitialStatus <- Statuses
    None = None
    t1 = t1
    t2 = t2
    t3 = t3
    l1 = l1
    l2 = l2
INVARIANTS
    CountIsNumberOfSamples
    CurrentLimitsArePublished
    EveryDeadlockHasARejudge
    AnswerIsTrue
    VersionsAreTrue
PROPERTIES
    ManifestsNeverChange
    EveryCallEnds
    PublishedVersionsNeverChange
CHECK_DEADLOCK FALSE
