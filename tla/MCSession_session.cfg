\* Two games, one with a converter; two players; tasks converted and run
\* in any order.
CONSTANTS
  test = test
  prompt = prompt
  input = input
  text = text
  points = points
  p1 = p1
  GameIds = {1, 2}
  PlayerIds = {1, 2}
  Ints <- MCInts
  Words <- MCWords
  Handles <- MCHandles
  TempArgs <- MCTempArgs
  HeapInit <- MCHeapInit
  ConverterGames = {1}
  NumMaxPlayers = 6
  MaxLen = 5
  MaxTasks = 2
  MaxRuns = 2
  MaxQueue = 1
  MaxJoins = 2
SPECIFICATION Spec
INVARIANTS
  TypeOK
  PlayersListedInJoinOrder
PROPERTIES
  ImplementsTaskEffects
