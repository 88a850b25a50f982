CONSTANTS
  EventType = {started, stopped}
  IdModulus = 3
  MaxSubscriptions = 4
  MaxPublications = 3
SPECIFICATION Spec
INVARIANTS TypeOK AudienceServed IdsNameOneSubscription
CHECK_DEADLOCK FALSE
