CONSTANTS
    Proc = {bot}
    MaxBytes = 2
    DayTicks = 2
    BackupCount = 2
    Compress = TRUE
    MaxTime = 4
    MaxLines = 7
    MaxFaults = 2
SPECIFICATION Spec
INVARIANTS
    TypeOK
    RetentionHonoured
    RotationKeepsUp
PROPERTY NeverOverwritten
CHECK_DEADLOCK FALSE
