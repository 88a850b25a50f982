CONSTANTS
  EventType = {started, stopped}
  IdModulus = 8
  MaxSubscriptions = 2
  MaxPublications = 2
SPECIFICATION Spec
INVARIANTS EventOrderPreserved
CHECK_DEADLOCK FALSE
