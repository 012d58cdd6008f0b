SPECIFICATION Spec
CONSTANTS
    Operations <- AwaitOnly
    MaxMessages = 1
CHECK_DEADLOCK FALSE
INVARIANTS
    MissingReadyIsReal
