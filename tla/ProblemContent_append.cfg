SPECIFICATION Spec
CONSTANTS
    Transactions = {t1, t2}
    Kinds = {"create", "delete"}
    Limits = {l1}
    InitialLimits = l1
    MaxSamples = 3
    MaxVersion = 3
    None = None
    t1 = t1
    t2 = t2
    l1 = l1
SYMMETRY MCSymmetry
INVARIANT NextSampleHasItsPlace
