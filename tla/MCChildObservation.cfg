SPECIFICATION Spec
CONSTANTS
    Operations <- AllOperations
    MaxMessages = 3
CHECK_DEADLOCK FALSE
INVARIANTS
    TypeOK
    ExitReportsAreReal
    OkIsEarned
    SupervisionDrains
PROPERTIES
    ObservationEnds
