CONSTANTS
  Installer = {"i1", "i2"}
  Caller = {"c1"}
  Hook = {"h1", "h2", "h3"}
  Target = {"m1", "m2"}
  TargetOf <- MixedTarget
  MaxInstalls = 3
  Orderly = {"m1"}
  UninstallQuiet = TRUE
  Orig = Orig
  NoPtr = NoPtr
  Stubborn = {"m2"}
SPECIFICATION Spec
CHECK_DEADLOCK FALSE
INVARIANTS
  TypeOK
  KeptHooksChain
  InstalledIsChained
  OriginalUnlessPublishing
PROPERTIES
  KeepsContract
