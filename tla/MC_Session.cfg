SPECIFICATION Spec
CONSTANTS
    SeccProtocols = {"Iso2", "Iso20"}
    SeccSets = {"Dc"}
    SeccId = 1
    SeccSetup = 2
    SeccSequence = 4
    SeccBudget <- StationBudget
    EvccProtocols <- VehicleProtocols
    EvccSets <- VehicleSets
    Rejoin = 2
    EvccSetup = 3
    EvccMessage = 2
    EvccBudget <- VehicleBudget
    Security = "None"
    MaxPending = 2
    MaxLate = 0
    Script <- MCScript
    Outcomes = {"Ok", "Ongoing", "Failed", "Joined"}
    PausedTransfer <- DcTransfer
    MaxRest = 1
INVARIANTS
    EndsAgree
    NobodyIsBlamed
    StationGivesUpFirst
PROPERTIES
    OneExchangeAtATime
    BreakIsNoticed
CHECK_DEADLOCK FALSE
