SPECIFICATION Spec
CONSTANTS
    Session = {t1, t2}
    Row = {1, 2, 3, 4, 5, 6}
    Content = {a}
    Operation <- CreateAndDelete
    Uploaded <- NewProblem
    Null = Null
    MaxVersion = 4
SYMMETRY Symmetry
INVARIANTS
    PublishedOrdersAreContiguous
