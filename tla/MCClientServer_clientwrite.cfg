\* The client tool against the game server, with no other client.
CONSTANTS
  NoChannel = NoChannel
  Upgrade = Upgrade
  Accepted = Accepted
  Clients <- ToolOnly
  Me = "c1"
  Methods <- MCMethods
  Targets <- MCTargets
  Texts <- ToolTexts
  Hello = "hello"
  MaxReqs = 1
  MaxMsgs = 2
  MaxSends = 2
SPECIFICATION Spec
\* MaxSends stops the tool's loop.
CHECK_DEADLOCK FALSE
INVARIANTS WritesOnOpenStream
