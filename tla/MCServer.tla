------------------------------ MODULE MCServer ------------------------------
(***************************************************************************)
(* Browsers against the game server.  Each opens a websocket, sends up to *)
(* MaxMsgs websocket messages and makes up to MaxReqs HTTP requests.      *)
(***************************************************************************)
EXTENDS Server

OneClient == {"c1"}
TwoClients == {"c1", "c2"}
MCMethods == {"get", "post"}
\* The index page, a request handler, and a target shouldServeIndex rejects.
MCTargets == {"/", "/join-game", "/create-game", "/bad"}
MCTexts == {"hi", "quit"}
==============================================================================
