CONSTANTS
    slow = slow
    User = {u1}
    Chat = {c1, c2}
    Privileged = {slow}
    Otp = otp
    Emergency = emergency
    NoSession = NoSession
    Acls <- MCAcls
    CodeAt <- MCCodeAt
    Digits = 2
    Code = {0, 1, 9}
    Requested = {3}
    StepTicks = 1
    PendingTTL = 1
    EmergencyCap = 2
    MaxFailures = 2
    LockoutTicks = 1
    FailureWindow = 2
    OtpTimeout = 1
    CmdTimeout <- MCCmdTimeout
    MaxTime = 4
    MaxRequests = 3
    MaxRuns = 2
    MaxRestarts = 1
SPECIFICATION Spec
INVARIANTS
    TypeOK
    RequestAnsweredOnce
    CodesAscend
    ResumedAsAsked
    WindowBacked
PROPERTIES
    GateSpec
SYMMETRY Symmetry
