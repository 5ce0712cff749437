SPECIFICATION Spec
INVARIANTS
    TypeOK
    ServiceNeedsAuthorization
    DcPowerNeedsIsolation
    RenegotiationCanComplete
PROPERTIES
    FailureIsFinal
    LivePauseLeavesRenegotiation
