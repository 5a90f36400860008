\* updateTimers fires a stop timer before it expires.
CONSTANTS
  Null = Null
  NoCtrl = NoCtrl
  Unbound = Unbound
  NoTimer = NoTimer
  Nodes <- MCNodes
  Kind <- MCKind
  NextOf <- MCNextOf
  BodyOf <- MCBodyOf
  Parent <- MCParent
  Data <- MCData
  Names <- MCNames
  ListIds <- MCListIds
  Elems <- MCElems
  TimerOf <- StopAndRegular
  MaxTime <- MCMaxTime
  Start = "forRound"
  InitVars <- MCInitVars
  InitHeaps <- OneRound
SPECIFICATION Spec
PROPERTIES
  TimerFiresOnlyWhenExpired
