\* A pad timer on the players loop: the loop's scope must outlive the pad.
CONSTANTS
  Null = Null
  NoCtrl = NoCtrl
  Unbound = Unbound
  NoTimer = NoTimer
  Nodes <- MCNodes
  Kind <- MCKind
  NextOf <- MCNextOf
  BodyOf <- MCBodyOf
  Parent <- MCParent
  Data <- MCData
  Names <- MCNames
  ListIds <- MCListIds
  Elems <- MCElems
  TimerOf <- PadOnPlayers
  MaxTime <- MCMaxTime
  Start = "forRound"
  InitVars <- MCInitVars
  InitHeaps <- OneRound
SPECIFICATION Spec
PROPERTIES
  PadTimerHoldsScope
