SPECIFICATION Spec
CONSTANTS
  HWModes = {"None", "Vulkan", "OpenGL"}
  MaxSkipped = 1
  MaxWork = 2
  MaxCredit = 1
  OptionsChange = TRUE
  PSXMode = TRUE
  DeinitInSession = TRUE
INVARIANTS TypeOK VMStopsOnlyOnRequest UnloadQuiesces ResetAudioExclusive ContextBeforeBoot
CHECK_DEADLOCK FALSE
