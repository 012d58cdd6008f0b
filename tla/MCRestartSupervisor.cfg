SPECIFICATION Spec
CONSTANTS
    MaxAttempts = 2
    HistoryCapacity = 3
    BackoffNs = 2
    RestartWindowNs = 3
    ReadyTimeoutNs = 2
    CleanupTimeoutNs = 2
    U64Max = 6
    Clock <- MCClock
    Generations <- MCGenerations
    Transactions <- MCTransactions
    FailureKinds <- MCFailureKinds
    Exits <- MCExits
INVARIANTS
    TypeOK
    HistoryCountsAttempts
    NoReplacementOverFailedCleanup
    GenerationsAdvance
    ReplacementsInsideWindow
    StaleEventsAreInert
PROPERTIES
    OnlyForward
    BudgetNeverRenewed
    ReadyBeforeDeadline
