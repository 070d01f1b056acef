SPECIFICATION Spec
CONSTANTS
    OP = OP
    Externals = {e1}
    CliCommands = {}
    HttpActions = {"start"}
    AttemptLimits = {1}
    Windows = {0}
    MaxAge = 1
    MaxHistory = 3
    MaxProcesses = 1
    LockUsers = {}
    Unscheduled = Unscheduled
    LateStart = FALSE
    DiskFaults = FALSE
    RecoveryDelay <- MCDelay
INVARIANTS StoredOperationIsValid
