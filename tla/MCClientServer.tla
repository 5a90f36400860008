--------------------------- MODULE MCClientServer ---------------------------
(***************************************************************************)
(* The client tool as the game server's only client.                       *)
(***************************************************************************)
EXTENDS ClientServer

ToolOnly == {"c1"}
MCMethods == {"get"}
MCTargets == {"/"}
\* The tool's text; the server's log lines echo it back.
ToolTexts == {"hello"}
==============================================================================
