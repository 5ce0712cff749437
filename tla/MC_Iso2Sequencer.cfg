SPECIFICATION Spec
INVARIANTS
    TypeOK
    PlugAndChargeNeedsTls
    PowerNeedsAuthorization
    DcPowerNeedsIsolation
    RenegotiationCanComplete
PROPERTIES
    FailureIsFinal
    LivePauseLeavesRenegotiation
