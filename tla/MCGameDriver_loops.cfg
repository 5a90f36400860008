\* One round over two players, no timers: scope stack, loop advance, bindings.
CONSTANTS
  Null = Null
  NoCtrl = NoCtrl
  Unbound = Unbound
  NoTimer = NoTimer
  Nodes <- MCNodes
  Kind <- MCKind
  NextOf <- MCNextOf
  BodyOf <- MCBodyOf
  Parent <- MCParent
  Data <- MCData
  Names <- MCNames
  ListIds <- MCListIds
  Elems <- MCElems
  TimerOf <- NoTimers
  MaxTime <- MCMaxTime
  Start = "forRound"
  InitVars <- MCInitVars
  InitHeaps <- OneRound
SPECIFICATION Spec
INVARIANTS
  TypeOK
  StackMatchesProgram
PROPERTIES
  LoopRunsOncePerElement
  OuterBindingsPreserved
  ProgramRunsToEnd
  ImplementsStructuredExecution
