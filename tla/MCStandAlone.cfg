CONSTANTS
  Byte = {0, 15, 64, 171, 255}
  Letter = {"A", "a", "G", "g", "-"}
  MaxLength = 5
  HexLength = 2
  HeapSize = 8
  MaxRuns = 2
  Builds <- SampleBuilds
  Rate = 3000
  MaxCount = 4
  Durations = {40, 333, 400, 1000}
  Overruns = {0, 10}
SPECIFICATION Spec
INVARIANTS MadeIdentifiersUsable ParserIsExact FailureLeavesNothing Flashable MixtureIsConfined WaitFits NoDrift CountIsHonest
CHECK_DEADLOCK FALSE
