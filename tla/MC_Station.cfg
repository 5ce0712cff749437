SPECIFICATION Spec
CONSTANTS
    Protocols = {"Din70121", "Iso2", "Iso20"}
    Sets = {"Dc"}
    Security = "None"
    SetupTimeout = 2
    SequenceTimeout = 4
    Budget <- MCBudget
    MaxPending = 2
    MaxLate = 1
    StationIds = {0, 1}
    PausedId = 2
    Transfers <- RejoinedTransfers
    Reads <- MCReads
    MaxAge = 5
INVARIANTS
    TypeOK
    OpenUntilADeadline
    NoFrameLeftBehind
    LoopIsBounded
    AssignedBeforeChecked
PROPERTIES
    OverdueEndsTheSession
    FailureEndsTheSession
CHECK_DEADLOCK FALSE
