CONSTANTS
  Installer = {"i1"}
  Caller = {"c1"}
  Hook = {"h1"}
  Target = {"m1"}
  TargetOf <- OwnTarget
  MaxInstalls = 2
  Orderly = {}
  UninstallQuiet = TRUE
  Orig = Orig
  NoPtr = NoPtr
  NoDetour = NoDetour
SPECIFICATION Spec
CHECK_DEADLOCK FALSE
PROPERTIES
  OkMeansInstalled
