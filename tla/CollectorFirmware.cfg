CONSTANTS
  ActiveLow = FALSE
  CounterModulus = 3
SPECIFICATION Spec
INVARIANTS ModeGovernsRelay NoAutomaticRestart
PROPERTIES RepeatIsHarmless ImplementsService
