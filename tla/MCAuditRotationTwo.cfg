CONSTANTS
    Proc = {bot, cli}
    MaxBytes = 1
    DayTicks = 0
    BackupCount = 2
    Compress = FALSE
    MaxTime = 1
    MaxLines = 4
    MaxFaults = 0
SPECIFICATION Spec
PROPERTY NeverOverwritten
CHECK_DEADLOCK FALSE
