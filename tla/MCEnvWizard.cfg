CONSTANTS
    k1 = k1
    Wizards = {w1, w2}
    MasterKeys = {k1, k2, k3}
    InitialFiles <- MCInitialFiles
    Picks = {"telegram", "all"}
    MaxEdits = 2
    MaxInits = 2
SPECIFICATION Spec
INVARIANT TypeOK
INVARIANT FileIsLedger
INVARIANT CopyIsAnswers
INVARIANT KeyKept
SYMMETRY Symmetry
CHECK_DEADLOCK FALSE
