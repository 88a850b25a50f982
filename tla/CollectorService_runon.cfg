CONSTANT ConfiguredDelay = 1
SPECIFICATION Spec
PROPERTIES RunOnAfterDemand
