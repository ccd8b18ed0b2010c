SPECIFICATION PartsSpec
CONSTANTS
    Session = {t1, t2}
    Row = {1, 2, 3, 4, 5, 6, 7}
    Content = {a, b, c}
    Operation <- AllEdits
    Uploaded <- NewOrThree
    Null = Null
    MaxVersion = 4
SYMMETRY Symmetry
INVARIANTS
    ListIsSound
PROPERTIES
    ImplementsTestcaseList
