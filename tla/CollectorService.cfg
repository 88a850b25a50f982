CONSTANT ConfiguredDelay = 3
SPECIFICATION FairSpec
INVARIANTS PendingIsPresentDemand DelayAccountedFor
PROPERTIES StartDelayRespected OverrideHolds FailureKeepsIntent ForcedOnSettles DemandServed ReleaseServed
