------------------------------- MODULE Client -------------------------------
(***************************************************************************)
(* The websocket client library (src/lib/networking/src/Client.cpp) driven *)
(* by the client tool's main loop (src/tools/client/gameclient.cpp).       *)
(*                                                                         *)
(* ClientImpl's constructor resolves the address and starts async_connect; *)
(* its completion starts the handshake, whose completion arms the first    *)
(* read.  Completion handlers run inside Client::update (ioService.poll), *)
(* on the tool's only thread, so each handler is one atomic action, and  *)
(* handlers run only while the loop is in update; a handler that is ready *)
(* but not yet run is indistinguishable from one whose operation has not  *)
(* completed.  The loop's test of isDisconnected is one action, and the   *)
(* rest of a pass after update (receive, then send the fixed text) is one.*)
(*                                                                         *)
(* The connection is two in-order byte streams: toServer (the upgrade     *)
(* request, then websocket messages) and toClient (the upgrade response,  *)
(* then messages); srvClosed says the server has closed its end.          *)
(*                                                                         *)
(* Beast's websocket stream requires that a write is started only on an   *)
(* open stream and never while another write is outstanding.  A write     *)
(* started before the handshake completes fails with an error.  A second  *)
(* outstanding write trips Beast's BOOST_ASSERT when assertions are       *)
(* compiled in, and otherwise waits behind the first: both are possible   *)
(* outcomes, since the repository fixes no build type.                    *)
(***************************************************************************)
EXTENDS Integers, Sequences

CONSTANTS
  Hello,     \* the text the tool sends on every pass ("Hello, server!")
  Upgrade,   \* the HTTP upgrade request async_handshake writes
  Accepted,  \* the server's 101 response
  MaxSends   \* passes of the tool's loop

VARIABLES
  cst,        \* the operation in progress: "connecting", "handshaking",
              \* "open" (read armed loop running) or "failed"
  closed,     \* ClientImpl::closed
  armed,      \* an async_read is outstanding
  wbuf,       \* ClientImpl::writeBuffer
  pend,       \* outstanding async_writes, oldest first: [text, open, alone]
  inStream,   \* ClientImpl::incomingMessage
  got,        \* history: what Client::receive has returned
  sends,      \* passes of the loop made
  pc,         \* the tool's loop: "check" (isDisconnected), "body" (in
              \* update), "done" (main returned or the process aborted)
  toServer,   \* bytes on the way to the server
  toClient,   \* bytes on the way to the client
  srvClosed   \* the server has closed its end of the socket

clientVars == <<cst, closed, armed, wbuf, pend, inStream, got, sends, pc>>
linkVars == <<toServer, toClient, srvClosed>>

Init ==
  /\ cst = "connecting"
  /\ closed = FALSE /\ armed = FALSE
  /\ wbuf = <<>> /\ pend = <<>> /\ inStream = <<>> /\ got = <<>>
  /\ sends = 0 /\ pc = "check"

\* ClientImpl::disconnect: closed is set and async_close starts; its
\* errors are swallowed.
Disconnect == closed' = TRUE

\* A handler runs only inside Client::update.
Polling == pc = "body"

-----------------------------------------------------------------------------
(* connect's handler: on success the handshake starts (the upgrade request *)
(* is written); on error reportError swallows it and nothing else runs.   *)
ConnectDone(ok) ==
  /\ Polling /\ cst = "connecting"
  /\ IF ok THEN cst' = "handshaking" /\ toServer' = Append(toServer, Upgrade)
     ELSE cst' = "failed" /\ UNCHANGED toServer
  /\ UNCHANGED <<closed, armed, wbuf, pend, inStream, got, sends, pc,
                 toClient, srvClosed>>

(* handshake's handler: on success readMessage arms the first read.       *)
HandshakeDone ==
  /\ Polling /\ cst = "handshaking"
  /\ toClient # <<>> /\ Head(toClient) = Accepted
  /\ cst' = "open" /\ armed' = TRUE /\ toClient' = Tail(toClient)
  /\ UNCHANGED <<closed, wbuf, pend, inStream, got, sends, pc,
                 toServer, srvClosed>>

\* The handshake fails when the server closes the socket before answering.
HandshakeFails ==
  /\ Polling /\ cst = "handshaking"
  /\ toClient = <<>> /\ srvClosed
  /\ cst' = "failed"
  /\ UNCHANGED <<closed, armed, wbuf, pend, inStream, got, sends, pc,
                 linkVars>>

(* readMessage's handler with a message: it is appended to incomingMessage *)
(* and the next read is armed (the server never sends an empty message).  *)
ReadDone ==
  /\ Polling /\ armed /\ ~closed
  /\ toClient # <<>>
  /\ inStream' = Append(inStream, Head(toClient)) /\ toClient' = Tail(toClient)
  /\ UNCHANGED <<cst, closed, armed, wbuf, pend, got, sends, pc,
                 toServer, srvClosed>>

(* The read fails, because the server closed its end or the client closed *)
(* the stream: reportError, then disconnect.                              *)
ReadFails ==
  /\ Polling /\ armed
  /\ (toClient = <<>> /\ srvClosed) \/ closed
  /\ armed' = FALSE /\ Disconnect
  /\ UNCHANGED <<cst, wbuf, pend, inStream, got, sends, pc, linkVars>>

(* The oldest outstanding write completes.  It succeeds only if it was    *)
(* started on an open stream that is still open: the text goes on the     *)
(* wire and the front of writeBuffer is popped.  Otherwise the handler    *)
(* gets an error and disconnects; writeBuffer keeps the text.             *)
WriteDone ==
  LET w == Head(pend) IN
  /\ Polling /\ pend # <<>>
  /\ pend' = Tail(pend)
  /\ IF w.open /\ ~closed /\ ~srvClosed
     THEN /\ toServer' = Append(toServer, w.text) /\ wbuf' = Tail(wbuf)
          /\ UNCHANGED closed
     ELSE Disconnect /\ UNCHANGED <<toServer, wbuf>>
  /\ UNCHANGED <<cst, armed, inStream, got, sends, pc, toClient, srvClosed>>

(* Client::send on a non-empty text: ClientImpl::send pushes it on        *)
(* writeBuffer and starts async_write of it at once, whatever else is in  *)
(* progress.  A second outstanding write on an open stream either waits   *)
(* behind the first or trips Beast's assertion, ending the process.       *)
StartWrite(text) ==
  LET w == [text |-> text, open |-> cst = "open", alone |-> pend = <<>>] IN
  \/ /\ wbuf' = Append(wbuf, text) /\ pend' = Append(pend, w)
     /\ pc' = "check"
  \/ /\ w.open /\ ~w.alone
     /\ wbuf' = Append(wbuf, text) /\ pend' = Append(pend, w)
     /\ pc' = "done"

(* The loop's test: while not disconnected, a pass starts with update;    *)
(* otherwise main returns and the socket is destroyed.  A pass made after *)
(* MaxSends sends is not explored.                                         *)
Check ==
  /\ pc = "check"
  /\ IF closed THEN pc' = "done" ELSE sends < MaxSends /\ pc' = "body"
  /\ UNCHANGED <<cst, closed, armed, wbuf, pend, inStream, got, sends, linkVars>>

(* The rest of a pass, after update, whatever update's handlers did:       *)
(* receive takes and clears incomingMessage, and the fixed text is sent.   *)
Pass ==
  /\ pc = "body"
  /\ got' = got \o inStream /\ inStream' = <<>>
  /\ StartWrite(Hello)
  /\ sends' = sends + 1
  /\ UNCHANGED <<cst, closed, armed, linkVars>>

Next ==
  \/ \E ok \in BOOLEAN : ConnectDone(ok)
  \/ HandshakeDone \/ HandshakeFails \/ ReadDone \/ ReadFails \/ WriteDone
  \/ Check \/ Pass
==============================================================================
