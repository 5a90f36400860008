---------------------------- MODULE ClientServer ----------------------------
(***************************************************************************)
(* The client tool (Client) connected to the game server (Server): client *)
(* Me of the server is the tool, and the two byte streams of the socket    *)
(* link them.  A step is a step of the tool, which leaves the server's    *)
(* variables alone, or a step of the server, which moves bytes on the     *)
(* link where the server reads or writes the tool's socket.  The tool     *)
(* never makes a plain HTTP request, so the server's HTTP request and     *)
(* response steps are not taken for it.                                   *)
(***************************************************************************)
EXTENDS Integers, Sequences

CONSTANTS Clients, NoChannel, Methods, Targets, Texts, MaxReqs, MaxMsgs,
          Hello, Upgrade, Accepted, MaxSends, Me

VARIABLES
  http, ws, channels, active, clientList, incoming, gameMap, playerMap,
  nextGame, nextPlayer, requester, fault,
  cst, closed, armed, wbuf, pend, inStream, got, sends, pc,
  toServer, toClient, srvClosed

serverVars == <<http, ws, channels, active, clientList, incoming, gameMap,
                playerMap, nextGame, nextPlayer, requester, fault>>
toolVars == <<cst, closed, armed, wbuf, pend, inStream, got, sends, pc>>
vars == <<serverVars, toolVars, toServer, toClient, srvClosed>>

S == INSTANCE Server
C == INSTANCE Client

Init == S!Init /\ C!Init /\ toServer = <<>> /\ toClient = <<>> /\ srvClosed = FALSE

\* The tool has closed its stream or its process has ended.
ToolGone == closed \/ pc = "done"

\* A server step on the tool's socket that moves no bytes; the server's
\* end is closed once the channel is disconnected.
Quiet(A) ==
  /\ A /\ UNCHANGED <<toolVars, toServer, toClient>>
  /\ srvClosed' = (srvClosed \/ ws'[Me].disc)

\* The server reads the next bytes the tool wrote.
Reads(A) ==
  /\ toServer # <<>> /\ A /\ toServer' = Tail(toServer)
  /\ UNCHANGED <<toolVars, toClient, srvClosed>>

ServerStep ==
  \/ /\ ws[Me].st = "none" /\ http[Me].reqs = 0
     /\ Quiet(S!Accept(Me))
  \/ toServer # <<>> /\ Head(toServer) = Upgrade /\ Reads(S!HttpUpgrade(Me))
  \/ /\ toServer # <<>> /\ Head(toServer) \in Texts
     /\ Reads(S!WsMessage(Me, Head(toServer)))
  \/ /\ ToolGone /\ toServer = <<>>
     /\ \/ S!HttpReadFails(Me) \/ S!WsAcceptFails(Me)
     /\ srvClosed' = TRUE /\ UNCHANGED <<toolVars, toServer, toClient>>
  \/ ToolGone /\ toServer = <<>> /\ Quiet(S!WsPeerCloses(Me))
  \/ /\ S!WsAccept(Me) /\ toClient' = Append(toClient, Accepted)
     /\ UNCHANGED <<toolVars, toServer, srvClosed>>
  \/ /\ S!WsWriteDone(Me) /\ toClient' = Append(toClient, Head(ws[Me].buf))
     /\ UNCHANGED <<toolVars, toServer, srvClosed>>
  \/ Quiet(S!WsReadFails(Me) \/ S!WsWriteFails(Me) \/ S!Iterate)

ToolStep == C!Next /\ UNCHANGED serverVars

Next == ToolStep \/ ServerStep

Spec == Init /\ [][Next]_vars

(* Every async_write the client library starts is started on an open      *)
(* websocket with no other write outstanding, as Beast's                   *)
(* websocket::stream::async_write requires (ClientImpl::send, called by   *)
(* the tool's loop on every pass).                                         *)
WritesOnOpenStream == \A i \in 1..Len(pend) : pend[i].open /\ pend[i].alone
==============================================================================
