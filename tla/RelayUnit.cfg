CONSTANTS
  ActiveLow = TRUE
  CounterModulus = 16
SPECIFICATION UnitSpec
INVARIANTS EnergisedOnlyWhenCommanded ReportedStateIsOutput CountersBalance
