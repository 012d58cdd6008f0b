SPECIFICATION Spec
CONSTANTS
    MaxAttempts = 2
    BackoffNs = 1
    RestartWindowNs = 3
    ReadyTimeoutNs = 2
    CleanupTimeoutNs = 2
    HistoryCapacity = 3
    U64Max = 1000
    FirstTransaction = 1
    Exits <- MCCrash
    Failures <- MCSilence
    Elapses <- MCElapses
    Horizon = 0
CHECK_DEADLOCK FALSE
PROPERTIES
    TicksEnd
    ExitsAreHandled
