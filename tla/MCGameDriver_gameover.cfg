\* The session ends once the rules are done: exitScope must raise GameOver.
CONSTANTS
  Null = Null
  NoCtrl = NoCtrl
  Unbound = Unbound
  NoTimer = NoTimer
  Nodes <- MCNodes
  Kind <- MCKind
  NextOf <- MCNextOf
  BodyOf <- MCBodyOf
  Parent <- MCParent
  Data <- MCData
  Names <- MCNames
  ListIds <- MCListIds
  Elems <- MCElems
  TimerOf <- NoTimers
  MaxTime <- MCMaxTime
  Start = "forRound"
  InitVars <- MCInitVars
  InitHeaps <- OneRound
SPECIFICATION Spec
PROPERTIES
  GameEventuallyEnds
