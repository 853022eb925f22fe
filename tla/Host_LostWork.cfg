SPECIFICATION Spec
CONSTANTS
  HWModes = {"None"}
  MaxSkipped = 1
  MaxWork = 1
  MaxCredit = 1
  OptionsChange = FALSE
  PSXMode = FALSE
  DeinitInSession = FALSE
INVARIANT ParkedHasNoWork
CHECK_DEADLOCK FALSE
