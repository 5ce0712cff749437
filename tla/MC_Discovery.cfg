SPECIFICATION Spec
CONSTANTS
    station = station
    neighbour = neighbour
    router = router
    Malformed = Malformed
    Requests <- AllRequests
    Policies <- AllPolicies
    Strays <- OtherAnswers
    LinkLocal <- OnTheLink
    Interval = 2
    Attempts = {0, 1, 2}
    MaxLate = 1
INVARIANTS
    OneOutcome
    RivalIsReported
    EndsInTime
CHECK_DEADLOCK FALSE
