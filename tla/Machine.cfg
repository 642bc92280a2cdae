SPECIFICATION Spec
CONSTANTS
  Function <- MCFunction
  Arity <- MCArity
  Name = {"init", "get"}
  Field = {"get"}
  Global = {"g", "clock"}
  Natives = {"clock"}
  MethodName <- MCMethodName
  Owner <- MCOwner
  InitString = "init"
  GetterString = "get"
  NONE = NONE
  FramesMax = 3
  MaxArguments = 2
  MaxClasses = 2
  MaxInstances = 1
  MaxHeight = 5
INVARIANTS TypeOK HeightsAsCounted ThisUnderstands DispatchIsLookup
PROPERTY ErrorsLeaveNothing
CONSTRAINT FewValues
