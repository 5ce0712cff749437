SPECIFICATION Spec
CONSTANTS
    Protocols <- MCProtocols
    Sets <- MCSets
    Security = "None"
    SetupTimeout = 3
    MessageTimeout = 2
    Budget <- MCBudget
    MaxPending = 2
    MaxLate = 1
    Rejoins = {0, 2}
    Transfers <- RejoinedTransfers
    Script <- MCScript
    Reads <- MCReads
    MaxAge = 5
INVARIANTS
    TypeOK
    WaitsUntilADeadline
    LoopIsBounded
PROPERTIES
    IdIsAdoptedOnce
    FailureLeavesTheStop
CHECK_DEADLOCK FALSE
