CONSTANTS
  Game = {"game"}
  Worker = {"worker"}
  Plain = {"plain"}
  Object = {o1, o2}
  Root = {r1, r2}
  Handle = {h1, h2}
  Null = Null
  GcLeaves = {}
SPECIFICATION FairSpec
CHECK_DEADLOCK FALSE
INVARIANTS
  TypeOK
  SafePtrKeepsAlive
  StackKeepsAlive
  RootHasOwner
PROPERTIES
  KeepsContract
  GuardDetaches
