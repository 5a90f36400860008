\* Websocket relay and the HTTP front end, one client.
CONSTANTS
  NoChannel = NoChannel
  Clients <- OneClient
  Methods <- MCMethods
  Targets <- MCTargets
  Texts <- MCTexts
  MaxReqs = 2
  MaxMsgs = 2
SPECIFICATION Spec
\* A null activeChannel dereference stops the process.
CHECK_DEADLOCK FALSE
INVARIANTS ChannelWritesInOrder
PROPERTIES WritesDrain PeerGoneDropped 
