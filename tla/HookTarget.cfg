SPECIFICATION TargetSpec
CONSTANTS
  Thread = {t1, t2}
  Class <- MCClass
  NoClass = "none"
  Name <- MCClass
  NameOf <- MCNameOf
  Image <- MCImage
  Instance <- MCInstance
  Sought = {"B"}
  NoType = "none"
  Parent <- MCParent
  Interface = {"I"}
  Assignable <- MCAssignable
  ValueType = {"Int"}
  Void = "Void"
  Unit = "unit"
  NoMethod = NoMethod
  RustType <- OneList
  TypeName <- OneListName
  TypeArg <- OneListArg
  MethodTables <- MCTables
  Offset <- MCOffset
  Hook = {"TakesB", "TakesAny", "Returns", "TakesInt", "TakesRef", "TakesList", "Static", "WrongPath", "Async", "TwoNames"}
  Item <- MCItem
INVARIANTS TargetTypeOK OwnOverload ReceivesWhatIsPassed AnswerIsFresh LookupsAgree
SYMMETRY Threads
