\* The game stores its player list as "player", the name the players loop binds.
CONSTANTS
  Null = Null
  NoCtrl = NoCtrl
  Unbound = Unbound
  NoTimer = NoTimer
  Nodes <- MCNodes
  Kind <- MCKind
  NextOf <- MCNextOf
  BodyOf <- MCBodyOf
  Parent <- MCParent
  Data <- MCData
  Names <- MCNames
  ListIds <- MCListIds
  Elems <- MCElems
  TimerOf <- NoTimers
  MaxTime <- MCMaxTime
  Start = "forRound"
  InitVars <- PlayerListVars
  InitHeaps <- OneRound
SPECIFICATION Spec
PROPERTIES
  OuterBindingsPreserved
