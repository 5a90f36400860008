\* Two rounds: the players loop runs again over the list the first round drained.
CONSTANTS
  Null = Null
  NoCtrl = NoCtrl
  Unbound = Unbound
  NoTimer = NoTimer
  Nodes <- MCNodes
  Kind <- MCKind
  NextOf <- MCNextOf
  BodyOf <- MCBodyOf
  Parent <- MCParent
  Data <- MCData
  Names <- MCNames
  ListIds <- MCListIds
  Elems <- MCElems
  TimerOf <- NoTimers
  MaxTime <- MCMaxTime
  Start = "forRound"
  InitVars <- MCInitVars
  InitHeaps <- TwoRounds
SPECIFICATION Spec
PROPERTIES
  LoopRunsOncePerElement
