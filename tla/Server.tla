------------------------------- MODULE Server -------------------------------
(***************************************************************************)
(* The game server process: the Boost.Beast server of                      *)
(* src/lib/networking/src/Server.cpp driven by the main loop of            *)
(* src/tools/server/gameserver.cpp.                                        *)
(*                                                                         *)
(* Each client has at most one HTTP connection at a time (an HTTPSession)  *)
(* and at most one websocket (a Channel).  Completion handlers run inside  *)
(* io_context::poll() (Server::update) on the main thread, so each one is  *)
(* an atomic action, and they interleave with the rest of the main loop,  *)
(* which is one action (Iterate): receive, processMessages, the event-loop *)
(* stubs, buildOutgoing and send.                                          *)
(*                                                                         *)
(* The ambassador's msgQImpl is a stub: write() returns -1 and read()      *)
(* returns "" (Ambassador 2.cpp 9-39), so messages the handlers send to   *)
(* the event loop are dropped and getAllMsg yields nothing; they leave no  *)
(* state here.  Console input the handlers read is not modelled.           *)
(***************************************************************************)
EXTENDS Integers, Sequences, FiniteSets, TLC

CONSTANTS
  Clients,    \* browsers; a client's websocket Channel is its Connection
  NoChannel,  \* activeChannel before any channel registered (null)
  Methods,    \* HTTP methods clients use
  Targets,    \* HTTP request targets clients use
  Texts,      \* websocket message texts, including "quit" and "shutdown"
  MaxReqs,    \* plain HTTP requests per client
  MaxMsgs     \* websocket messages per client

VARIABLES
  http,        \* [Clients -> HTTP session state]
  ws,          \* [Clients -> Channel state]
  channels,    \* ServerImpl::channels (its keys)
  active,      \* ServerImpl::activeChannel
  clientList,  \* gameserver's `clients` vector (as a set)
  incoming,    \* ServerImpl::incoming
  gameMap,     \* socketToGameInstanceID (0: no entry)
  playerMap,   \* socketToPlayerID (0: no entry)
  nextGame,    \* ServerImpl::GameInstanceId
  nextPlayer,  \* ServerImpl::PlayerId
  requester,   \* history: [<<kind, id>> -> client whose request made the id]
  fault        \* "none", or "null_deref" when the process has crashed

vars == <<http, ws, channels, active, clientList, incoming, gameMap, playerMap,
          nextGame, nextPlayer, requester, fault>>

Commands == {"quit", "shutdown"}
HandlerTargets == {"/create-game", "/join-game", "/configure-game"}

\* HTTP session of a client: TCP connection open, outstanding async reads
\* and writes, keep-alive of the request being answered, requests read.
HttpState == [open : BOOLEAN, reads : Nat, writes : Nat, keep : BOOLEAN, reqs : Nat]

\* Channel: lifecycle, a read armed, the peer gone, Channel::disconnected,
\* writeBuffer, outstanding async_writes, and history: texts handed to
\* Channel::send, texts whose write completed, a write failed.
WsState == [st : {"none", "accepting", "open", "closed"}, armed : BOOLEAN,
            gone : BOOLEAN, disc : BOOLEAN, buf : Seq(Seq(Clients \X Texts)),
            writing : 0..2, sent : Seq(Seq(Clients \X Texts)),
            written : Seq(Seq(Clients \X Texts)), err : BOOLEAN, msgs : Nat]

Running == fault = "none"

Init ==
  /\ http = [c \in Clients |-> [open |-> FALSE, reads |-> 0, writes |-> 0,
                                keep |-> FALSE, reqs |-> 0]]
  /\ ws = [c \in Clients |-> [st |-> "none", armed |-> FALSE, gone |-> FALSE,
                              disc |-> FALSE, buf |-> <<>>, writing |-> 0,
                              sent |-> <<>>, written |-> <<>>, err |-> FALSE,
                              msgs |-> 0]]
  /\ channels = {}
  /\ active = NoChannel
  /\ clientList = {}
  /\ incoming = <<>>
  /\ gameMap = [c \in Clients |-> 0]
  /\ playerMap = [c \in Clients |-> 0]
  /\ nextGame = 1
  /\ nextPlayer = 1
  /\ requester = [k \in {} |-> NoChannel]
  /\ fault = "none"
-----------------------------------------------------------------------------
(* Server::disconnect(connection): for a registered channel, the           *)
(* connection handler (gameserver's onDisconnect drops it from `clients`), *)
(* the socket mappings are erased, Channel::disconnect sets `disconnected` *)
(* and closes the websocket, and the channel leaves the map.  Applied to   *)
(* the channel states w the calling step has already produced.            *)
Disconnect(w, c) ==
  IF c \in channels
  THEN [ws |-> [w EXCEPT ![c].disc = TRUE], channels |-> channels \ {c},
        clients |-> clientList \ {c}, game |-> [gameMap EXCEPT ![c] = 0],
        player |-> [playerMap EXCEPT ![c] = 0]]
  ELSE [ws |-> w, channels |-> channels, clients |-> clientList,
        game |-> gameMap, player |-> playerMap]

ApplyDisconnect(r) ==
  /\ ws' = r.ws /\ channels' = r.channels /\ clientList' = r.clients
  /\ gameMap' = r.game /\ playerMap' = r.player

\* Channel::send on channel state s: an empty text is ignored; a write is
\* started only when the buffer was empty, later ones are chained by
\* afterWrite.
SendAlwaysWrites(s, text) ==
  IF text = <<>> THEN s
  ELSE [s EXCEPT !.buf = Append(@, text), !.sent = Append(@, text),
                 !.writing = @ + 1]

ChannelSend(s, text) ==
  IF text = <<>> THEN s
  ELSE [s EXCEPT !.buf = Append(@, text), !.sent = Append(@, text),
                 !.writing = IF Len(s.buf) >= 1 THEN @ ELSE @ + 1]

\* Channel::afterWrite after a successful write: the front is done, and the
\* next buffered text, if any, is written.
AfterWriteNoChain(s) ==
  [s EXCEPT !.written = Append(@, Head(s.buf)), !.buf = Tail(@),
            !.writing = @ - 1]

AfterWrite(s) ==
  [s EXCEPT !.written = Append(@, Head(s.buf)), !.buf = Tail(@),
            !.writing = @ - 1 + (IF Tail(s.buf) # <<>> THEN 1 ELSE 0)]

\* shouldServeIndex in HTTPSession::handleRequest.
ServeIndex(t) ==
  t \in {"/", "/create-game", "/configure-game", "/input-game-configuration",
         "/finalize-creating-game", "/join-game", "/index.html"}

\* The number of responses handleRequest sends (async_writes it starts):
\* a bad method is answered once; an illegal target is answered with a bad
\* request and handling continues; HEAD and GET "/" are answered; a GET of
\* another target is answered with 404 unless a request handler takes it,
\* and the handlers send nothing; POST gets nothing.
Responses(m, t) ==
  IF m \notin {"get", "head", "post"} THEN 1
  ELSE (IF ServeIndex(t) THEN 0 ELSE 1)
       + (IF m = "head" \/ (m = "get" /\ t \notin HandlerTargets) THEN 1 ELSE 0)

\* CreateGameRequestHandler / JoinGameRequestHandler: a fresh id is mapped
\* to activeChannel's connection; a null activeChannel is dereferenced.
MapToActive(map, kind, id, c) ==
  /\ IF active = NoChannel
     THEN fault' = "null_deref" /\ UNCHANGED map
     ELSE map' = [map EXCEPT ![active] = id] /\ UNCHANGED fault
  /\ requester' = requester @@ (<<kind, id>> :> c)

RunHandler(c, m, t) ==
  IF m = "get" /\ t = "/create-game"
  THEN /\ nextGame' = nextGame + 1
       /\ MapToActive(gameMap, "game", nextGame, c)
       /\ UNCHANGED <<nextPlayer, playerMap>>
  ELSE IF m = "get" /\ t = "/join-game"
  THEN /\ nextPlayer' = nextPlayer + 1
       /\ MapToActive(playerMap, "player", nextPlayer, c)
       /\ UNCHANGED <<nextGame, gameMap>>
  ELSE UNCHANGED <<nextGame, nextPlayer, gameMap, playerMap, requester, fault>>

ProcessMessages(batch) ==
  LET cmds == {i \in 1..Len(batch) : batch[i][2] \in Commands}
      first == CHOOSE i \in cmds : \A k \in cmds : i <= k
  IN IF cmds = {} THEN [log |-> batch, quit |-> NoChannel]
     ELSE [log |-> <<>>,
           quit |-> IF batch[first][2] = "quit" THEN batch[first][1] ELSE NoChannel]

-----------------------------------------------------------------------------
(* listenForConnections accepts a TCP connection and starts its session. *)
Accept(c) ==
  /\ Running
  /\ ~http[c].open /\ http[c].reqs < MaxReqs
  /\ http' = [http EXCEPT ![c].open = TRUE, ![c].reads = 1]
  /\ UNCHANGED <<ws, channels, active, clientList, incoming, gameMap, playerMap,
                 nextGame, nextPlayer, requester, fault>>

\* Once no operation of the session is outstanding, its socket is closed.
Settle(h) == [h EXCEPT !.open = h.reads + h.writes > 0]

(* HTTPSession::start's read fails: the error is swallowed.               *)
HttpReadFails(c) ==
  /\ Running
  /\ http[c].reads > 0
  /\ http' = [http EXCEPT ![c] = Settle([@ EXCEPT !.reads = @ - 1])]
  /\ UNCHANGED <<ws, channels, active, clientList, incoming, gameMap, playerMap,
                 nextGame, nextPlayer, requester, fault>>

(* A websocket upgrade request: the socket moves to a new Channel, whose  *)
(* async_accept starts.                                                   *)
HttpUpgrade(c) ==
  /\ Running
  /\ http[c].reads > 0 /\ ws[c].st = "none"
  /\ http' = [http EXCEPT ![c] = Settle([@ EXCEPT !.reads = @ - 1])]
  /\ ws' = [ws EXCEPT ![c].st = "accepting"]
  /\ UNCHANGED <<channels, active, clientList, incoming, gameMap, playerMap,
                 nextGame, nextPlayer, requester, fault>>

(* A plain request read: HTTPSession::handleRequest starts its responses  *)
(* and runs the request handler the target names.  A session left with    *)
(* nothing outstanding is released and its socket closed.                 *)
HttpRequest(c, m, t, keep) ==
  /\ Running
  /\ http[c].reads > 0 /\ http[c].reqs < MaxReqs
  /\ http' = [http EXCEPT ![c] =
                Settle([@ EXCEPT !.reads = @ - 1, !.reqs = @ + 1, !.keep = keep,
                                 !.writes = @ + Responses(m, t)])]
  /\ RunHandler(c, m, t)
  /\ UNCHANGED <<ws, channels, active, clientList, incoming>>

(* A response write completes: on error or without keep-alive the socket *)
(* is shut down; otherwise the session reads the next request.           *)
HttpWriteDone(c) ==
  /\ Running
  /\ http[c].writes > 0
  /\ \E ok \in BOOLEAN :
       http' = [http EXCEPT ![c] =
                  Settle([@ EXCEPT !.writes = @ - 1,
                                   !.reads = IF ok /\ http[c].keep THEN @ + 1 ELSE @])]
  /\ UNCHANGED <<ws, channels, active, clientList, incoming, gameMap, playerMap,
                 nextGame, nextPlayer, requester, fault>>

(* Channel::start's async_accept succeeds: registerChannel maps the      *)
(* connection, calls the connect handler and makes the channel the       *)
(* activeChannel; the first read is armed.                               *)
WsAccept(c) ==
  /\ Running
  /\ ws[c].st = "accepting"
  /\ ws' = [ws EXCEPT ![c].st = "open", ![c].armed = TRUE]
  /\ channels' = channels \cup {c}
  /\ clientList' = clientList \cup {c}
  /\ active' = c
  /\ UNCHANGED <<http, incoming, gameMap, playerMap, nextGame, nextPlayer,
                 requester, fault>>

(* The accept fails: server.disconnect of an unregistered connection.    *)
WsAcceptFails(c) ==
  /\ Running
  /\ ws[c].st = "accepting"
  /\ ApplyDisconnect(Disconnect([ws EXCEPT ![c].st = "closed"], c))
  /\ UNCHANGED <<http, active, incoming, nextGame, nextPlayer, requester, fault>>

(* Channel::readMessage completes with a message: it joins `incoming` and *)
(* the next read is armed.                                                *)
WsMessage(c, text) ==
  /\ Running
  /\ ws[c].armed /\ ~ws[c].gone /\ ~ws[c].disc /\ ws[c].msgs < MaxMsgs
  /\ ws' = [ws EXCEPT ![c].msgs = @ + 1]
  /\ incoming' = Append(incoming, <<c, text>>)
  /\ UNCHANGED <<http, channels, active, clientList, gameMap, playerMap,
                 nextGame, nextPlayer, requester, fault>>

(* The browser closes its websocket.                                      *)
WsPeerCloses(c) ==
  /\ Running
  /\ ws[c].st = "open" /\ ~ws[c].gone
  /\ ws' = [ws EXCEPT ![c].gone = TRUE]
  /\ UNCHANGED <<http, channels, active, clientList, incoming, gameMap, playerMap,
                 nextGame, nextPlayer, requester, fault>>

\* Mutant: the failed read's handler does not disconnect the channel.
WsReadFailsNoDisconnect(c) ==
  /\ Running
  /\ ws[c].armed /\ (ws[c].gone \/ ws[c].disc)
  /\ ws' = [ws EXCEPT ![c].armed = FALSE]
  /\ UNCHANGED <<http, channels, active, clientList, incoming, gameMap, playerMap,
                 nextGame, nextPlayer, requester, fault>>

(* The armed read fails; unless the channel was disconnected by the      *)
(* server, the server disconnects it.                                     *)
WsReadFails(c) ==
  /\ Running
  /\ ws[c].armed /\ (ws[c].gone \/ ws[c].disc)
  /\ LET w == [ws EXCEPT ![c].armed = FALSE]
     IN IF ws[c].disc THEN ws' = w /\ UNCHANGED <<channels, clientList, gameMap, playerMap>>
        ELSE ApplyDisconnect(Disconnect(w, c))
  /\ UNCHANGED <<http, active, incoming, nextGame, nextPlayer, requester, fault>>

(* The websocket write of the buffer's front completes (afterWrite).     *)
WsWriteDone(c) ==
  /\ Running
  /\ ws[c].writing > 0 /\ ~ws[c].gone /\ ~ws[c].disc
  /\ ws' = [ws EXCEPT ![c] = AfterWrite(@)]
  /\ UNCHANGED <<http, channels, active, clientList, incoming, gameMap, playerMap,
                 nextGame, nextPlayer, requester, fault>>

(* The write fails: afterWrite disconnects unless already disconnected,  *)
(* and leaves the buffer as it is.                                        *)
WsWriteFails(c) ==
  /\ Running
  /\ ws[c].writing > 0 /\ (ws[c].gone \/ ws[c].disc)
  /\ LET w == [ws EXCEPT ![c].writing = @ - 1, ![c].err = TRUE]
     IN IF ws[c].disc THEN ws' = w /\ UNCHANGED <<channels, clientList, gameMap, playerMap>>
        ELSE ApplyDisconnect(Disconnect(w, c))
  /\ UNCHANGED <<http, active, incoming, nextGame, nextPlayer, requester, fault>>

(* One pass of gameserver's main loop after Server::update: receive the  *)
(* batch, processMessages (shouldQuit is not looked at), getAllMsg and    *)
(* processEventLoopMessages (no state: the queues are stubs; its         *)
(* InputRequestAction waits on std::cin, which is assumed to answer),     *)
(* then send the log to every client in `clients` that still has a       *)
(* channel.                                                                *)
Iterate ==
  /\ Running
  /\ LET r == ProcessMessages(incoming)
         d == Disconnect(ws, r.quit)
     IN /\ ws' = [c \in Clients |->
                    IF c \in d.clients /\ c \in d.channels
                    THEN ChannelSend(d.ws[c], r.log) ELSE d.ws[c]]
        /\ channels' = d.channels /\ clientList' = d.clients
        /\ gameMap' = d.game /\ playerMap' = d.player
  /\ incoming' = <<>>
  /\ UNCHANGED <<http, active, nextGame, nextPlayer, requester, fault>>

Network(c) ==
  \/ Accept(c) \/ HttpReadFails(c) \/ HttpUpgrade(c) \/ HttpWriteDone(c)
  \/ \E m \in Methods, t \in Targets, k \in BOOLEAN : HttpRequest(c, m, t, k)
  \/ WsAccept(c) \/ WsAcceptFails(c) \/ WsPeerCloses(c) \/ WsReadFails(c)
  \/ \E text \in Texts : WsMessage(c, text)
  \/ WsWriteDone(c) \/ WsWriteFails(c)

Next == Iterate \/ \E c \in Clients : Network(c)

(* The main loop runs forever (sleep(1) between passes) and every poll   *)
(* runs the handlers of completed operations, so each outstanding write  *)
(* eventually completes, one way or the other, and an armed read on a    *)
(* closed socket eventually completes with its error.  Fairness of       *)
(* Iterate also assumes that the console read of every pass returns.      *)
(* Clients are not assumed to do anything.                                *)
Spec == Init /\ [][Next]_vars /\ WF_vars(Iterate)
        /\ \A c \in Clients : /\ WF_vars(WsWriteDone(c) \/ WsWriteFails(c))
                              /\ WF_vars(WsReadFails(c))
                              /\ WF_vars(HttpWriteDone(c))
-----------------------------------------------------------------------------
(* Properties                                                              *)

TypeOK ==
  /\ http \in [Clients -> HttpState]
  /\ ws \in [Clients -> WsState]
  /\ channels \subseteq Clients /\ clientList \subseteq Clients
  /\ active \in Clients \cup {NoChannel}
  /\ incoming \in Seq(Clients \X Texts)
  /\ gameMap \in [Clients -> Nat] /\ playerMap \in [Clients -> Nat]
  /\ fault \in {"none", "null_deref"}

(* A channel writes what the main loop sends it exactly once each and in  *)
(* order, with one async_write outstanding while anything is buffered and *)
(* none otherwise, until a write fails: Channel::send starts a write only *)
(* on an empty buffer and afterWrite pops the finished front and chains   *)
(* the next.                                                               *)
ChannelWritesInOrder ==
  \A c \in Clients :
    ~ws[c].err =>
      /\ ws[c].written \o ws[c].buf = ws[c].sent
      /\ ws[c].writing = IF ws[c].buf = <<>> THEN 0 ELSE 1

(* Whatever is buffered on a channel is eventually written, or a write    *)
(* fails: afterWrite never leaves the buffer waiting with no write        *)
(* outstanding.                                                            *)
WritesDrain ==
  \A c \in Clients :
    ws[c].buf # <<>> ~> (ws[c].buf = <<>> \/ ws[c].err \/ ~Running)

(* A channel whose browser has gone away is eventually dropped: the       *)
(* error handler of its pending read (Channel::readMessage) calls         *)
(* Server::disconnect, which removes it from the channel map, so the main *)
(* loop stops sending it the log.                                         *)
PeerGoneDropped ==
  \A c \in Clients : ws[c].gone ~> (c \notin channels \/ ~Running)

(* A client that sends "quit" is eventually disconnected: the main loop   *)
(* drains the batch holding it, processMessages hands the first command   *)
(* of the batch to QuitAction, and QuitAction calls Server::disconnect on *)
(* the sender, which drops the channel and gameserver's client entry.     *)
QuitReceived(c) == \E i \in 1..Len(incoming) : incoming[i] = <<c, "quit">>

MappingsNameRequester ==
  \A c \in Clients :
    /\ gameMap[c] # 0 => c \in channels /\ requester[<<"game", gameMap[c]>>] = c
    /\ playerMap[c] # 0 => c \in channels /\ requester[<<"player", playerMap[c]>>] = c
==============================================================================
