SPECIFICATION Spec
CONSTANTS
    MaxAttempts = 2
    BackoffNs = 1
    RestartWindowNs = 5
    ReadyTimeoutNs = 2
    CleanupTimeoutNs = 2
    HistoryCapacity = 3
    U64Max = 1000
    FirstTransaction = 1
    Exits <- MCExits
    Failures <- MCFailures
    Elapses <- MCElapses
    Horizon = 4
CHECK_DEADLOCK FALSE
INVARIANTS
    FatalMeansSubstrateLost
