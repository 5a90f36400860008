\* The handlers' socket mappings with two clients.
CONSTANTS
  NoChannel = NoChannel
  Clients <- TwoClients
  Methods <- MCMethods
  Targets <- MCTargets
  Texts <- MCTexts
  MaxReqs = 1
  MaxMsgs = 1
SPECIFICATION Spec
CHECK_DEADLOCK FALSE
INVARIANTS MappingsNameRequester
