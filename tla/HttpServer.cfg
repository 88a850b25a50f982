SPECIFICATION FairSpec
INVARIANTS TypeOK ResultsAreHonest NoRequestOutlivesServer LeftoverOnlyByRefusal
PROPERTIES CallsReturn
CHECK_DEADLOCK FALSE
