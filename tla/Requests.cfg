SPECIFICATION PartsSpec
CONSTANTS
    ann = ann
    t1 = t1
    s1 = s1
    s2 = s2
    NoUser = NoUser
    Users = {ann, bob}
    Tokens = {t1, t2}
    Slots = {s1, s2}
    Served <- Submissions
    FirstLevel <- Levels
    FirstOwner <- Owners
    TokenTtl = 2
    BanLength = 1
    MaxTime = 1
    Paths <- MCPaths
    Int32Segments = {"1"}
    Int64Segments = {"1", "3000000000"}
    UndecodableSegments = {"", "%zz"}
SYMMETRY SlotSymmetry
INVARIANTS
    EachFindsItsRoute
    OnlyTheEntitledAreServed
    LogoutIsFinal
    SubmissionsAreAllowed
CHECK_DEADLOCK FALSE
