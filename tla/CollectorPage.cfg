CONSTANTS
  Slot = {s1, s2}
  Reported = {"stopped", "starting", "running", "faulted"}
SPECIFICATION FairSpec
INVARIANT FailureStaysVisible
PROPERTIES ConfirmedOnly SettledStateShown
