SPECIFICATION Spec
CONSTANTS
    Lines <- MCLines
    Hosts = {"h1", "h3", "h4"}
    Services <- MCServices
    SafeActions = {"status", "list"}
    Reserved = {"list", "info", "help"}
    Allowed <- MCAllowed
    KubectlVerbs = {"get"}
    Runbooks = {"get"}
    PlainArgs = {"get"}
    ShortLimit = 2
    ActionLimit = 4
    RunbookLimit = 8
    CommandTimeout = 1
    Local = "local"
    None = "none"
    MaxTime = 8
INVARIANT TypeOK
INVARIANT RunsAsAsked
INVARIANT AnsweredInFull
CHECK_DEADLOCK FALSE
