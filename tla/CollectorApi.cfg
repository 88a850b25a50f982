CONSTANT ConfiguredDelay = 1
SPECIFICATION ApiFairSpec
INVARIANTS ModeIsTheGrantedOne
PROPERTIES AcceptedIsUnderWay PollingShowsOutcome
