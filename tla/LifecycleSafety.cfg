SPECIFICATION SafetySpec
CONSTANTS
    OP = OP
    Externals = {e1}
    CliCommands = {"start", "stop", "update", "recover"}
    HttpActions = {"start", "restart"}
    AttemptLimits = {1, 2}
    Windows = {0, 2}
    MaxAge = 3
    MaxHistory = 3
    MaxProcesses = 2
    LockUsers = {"steam"}
    Unscheduled = Unscheduled
    LateStart = FALSE
    DiskFaults = TRUE
    RecoveryDelay <- MCDelay
INVARIANTS
    TypeOK OneScriptAtATime LaunchIsWanted SingleServer
    RecordDescribesScript RunningHasScript StoredRecoveryIsValid
PROPERTIES RecoveryWithinBudget
