CONSTANTS
  Thread = {"t1", "t2"}
  Size = 10
  Memories <- MCMemories
  Modules <- MCModules
  DomainGet = {2, None}
  Signature <- MCSignature
  Wildcard = Wildcard
  None = None
  Busy = Busy
  MAX_BRANCH_SEARCH_INSTRUCTIONS = 3
SPECIFICATION FairSpec
INVARIANTS
  TypeOK
  WrapperHasTarget
  AllocatorIsOwn
PROPERTIES
  InitEnds
