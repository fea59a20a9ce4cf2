CONSTANTS
  Installer = {"i1"}
  Caller = {"c1"}
  Hook = {"h1", "h2", "h3"}
  Target = {"m1", "m2"}
  TargetOf <- MixedTarget
  MaxInstalls = 4
  Orderly = {}
  UninstallQuiet = FALSE
  Orig = Orig
  NoPtr = NoPtr
  PatchMayFail = TRUE
SPECIFICATION Spec
CHECK_DEADLOCK FALSE
INVARIANTS
  TypeOK
  InstalledIsPatched
  NoHookTwice
  OriginalUnlessPublishing
