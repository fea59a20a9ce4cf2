CONSTANTS
  Installer = {"i1", "i2"}
  Caller = {"c1"}
  Hook = {"h1"}
  Target = {"m1"}
  TargetOf <- OwnTarget
  MaxInstalls = 2
  Orderly = {}
  UninstallQuiet = TRUE
  Orig = Orig
  NoPtr = NoPtr
  PatchMayFail = FALSE
SPECIFICATION Spec
CHECK_DEADLOCK FALSE
INVARIANTS
  NoHookTwice
