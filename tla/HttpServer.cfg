SPECIFICATION PartsSpec
CONSTANTS
    s1 = s1
    s2 = s2
    s3 = s3
    Sessions = {s1, s2, s3}
    Workers = {w1, w2}
    QueueLimit = 2
    NoLimit = NoLimit
    NoTask = NoTask
    PoolSize = 1
    TimesOut = TRUE
    HasDeadline = TRUE
    HasIdleTimeout = TRUE
    MaxRequests = 2
INVARIANTS
    AnswersAreInOrder
    NoRequestIsForgotten
    SlotsAreKept
    QueueIsSound
PROPERTIES
    ClosesWhenItShould
    EveryRequestEnds
    SilentClientsLoseTheirSession
CHECK_DEADLOCK FALSE
