CONSTANTS
    kept = kept
    cli = cli
    Services <- MCServices
    CommandsOf <- MCCommandsOf
    ModuleCount = 3
    Executable = {2, 3}
    Consumer = {3}
    Volatile = TRUE
    LaunchBound = 4
SPECIFICATION Spec
INVARIANTS
    RollbackComplete
    StopComplete
    CommandLineInjects
    OneServiceLosesNone
CHECK_DEADLOCK FALSE
