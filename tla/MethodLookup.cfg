SPECIFICATION Spec
CONSTANTS
  Thread = {t1}
  Class <- MCClass
  NoClass = "none"
  Name <- MCClass
  NameOf <- MCNameOf
  Image <- MCImage
  Instance <- MCInstance
  Sought = {"B"}
  NoType = "none"
  Parent <- MCParent
  Interface = {"I"}
  Interfaces <- MCInterfaces
  Address <- MCAddress
  Assignable <- MCAssignable
  ValueType = {"Int"}
  Void = "Void"
  Unit = "unit"
  NoMethod = NoMethod
  RustType <- OneList
  TypeName <- OneListName
  TypeArg <- OneListArg
  MethodTables <- MCTables
  Request <- MCRequest
INVARIANTS TypeOK CachedClassIsFirst TypeClassIsOwn BestIsAnswered NearerClassWins
