SPECIFICATION FairSpec
CONSTANTS
  HWModes = {"None", "Vulkan"}
  MaxSkipped = 1
  MaxWork = 1
  MaxCredit = 1
  OptionsChange = FALSE
  PSXMode = FALSE
  DeinitInSession = FALSE
PROPERTIES CallsReturn ResetHappens
CHECK_DEADLOCK FALSE
