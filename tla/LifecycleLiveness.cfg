SPECIFICATION FairSpec
CONSTANTS
    OP = OP
    Externals = {}
    CliCommands = {}
    HttpActions = {"start", "stop", "restart"}
    AttemptLimits = {1}
    Windows = {1}
    MaxAge = 2
    MaxHistory = 3
    MaxProcesses = 1
    LockUsers = {}
    Unscheduled = Unscheduled
    LateStart = TRUE
    DiskFaults = FALSE
    RecoveryDelay <- MCDelay
PROPERTIES OperationEnds CrashIsAnswered
