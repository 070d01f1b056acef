---- MODULE MCLifecycleSafety ----
(* The safety of Lifecycle on three instances, one per behaviour: scripts of *)
(* every command against each other; files that fail to be written; and      *)
(* recoveries under changing limits, with a clock of several windows.        *)
EXTENDS MCLifecycle

VARIABLE focus  \* the instance of this behaviour

Scripts == INSTANCE Lifecycle WITH
    AttemptLimits <- {1}, Windows <- {0}, MaxAge <- 1, MaxHistory <- 1,
    DiskFaults <- FALSE
Records == INSTANCE Lifecycle WITH
    CliCommands <- {"stop"}, HttpActions <- {"restart"}, LockUsers <- {},
    AttemptLimits <- {1}, Windows <- {0}, MaxAge <- 1, MaxHistory <- 1
Recovery == INSTANCE Lifecycle WITH
    CliCommands <- {}, HttpActions <- {"restart"}, LockUsers <- {},
    Windows <- {2}, DiskFaults <- FALSE

SafetyInit ==
    \/ focus = "scripts" /\ Scripts!Init
    \/ focus = "records" /\ Records!Init
    \/ focus = "recovery" /\ Recovery!Init

SafetyNext ==
    /\ \/ focus = "scripts" /\ Scripts!Next
       \/ focus = "records" /\ Records!Next
       \/ focus = "recovery" /\ Recovery!Next
    /\ UNCHANGED focus

SafetySpec == SafetyInit /\ [][SafetyNext]_<<vars, focus>>
====
