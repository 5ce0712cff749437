SPECIFICATION Spec
CONSTANTS
    Protocols = {"Din70121", "Iso2", "Iso20"}
    Sets = {"Dc"}
    Security = "None"
    SetupTimeout = 2
    SequenceTimeout = 4
    Budget <- MCBudget
    MaxPending = 2
    MaxLate = 1
    StationIds = {0, 1}
    PausedId = 2
    Transfers = {}
    Reads <- MCReads
    MaxAge = 0
PROPERTY
    OverdueMeansOngoing
CHECK_DEADLOCK FALSE
