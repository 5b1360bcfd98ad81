CONSTANTS
    User = {u1, u2}
    NoUser = NoUser
    MaxFailures = 2
    LockoutTicks = 2
    FailureWindow = 1
    MaxTime = 4
    MaxGuesses = 4
    MaxFaults = 1
SPECIFICATION Spec
INVARIANTS
    TypeOK
    GuessRateBounded
    LockoutEarned
PROPERTY OnlyUnlockLifts
SYMMETRY Symmetry
