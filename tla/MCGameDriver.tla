---------------------------- MODULE MCGameDriver ----------------------------
(***************************************************************************)
(* A rule program shaped like the rounds of the test fixture's game        *)
(* (EnvMgr_test.cpp): a round loop whose body sends a message, collects    *)
(* one input per player in a parallel loop, and matches on the outcome;    *)
(* scores follow the loop.                                                 *)
(*                                                                         *)
(*   forRound:  for round in rounds {                                      *)
(*     msgRound:  message ...                                              *)
(*     parPlayer: parallel for player in players { input: input choice }   *)
(*     matchWin:  match ... { true => { msgWin: message ... } }            *)
(*   }                                                                     *)
(*   scores:    scores ...                                                 *)
(*                                                                         *)
(* Loop nodes carry their token lists in the layout ControlFlow's          *)
(* constructor reads (loop variable at data[1][0], range name at           *)
(* data[2][1]); ParserData gives the layout parseForRule builds.          *)
(***************************************************************************)
EXTENDS GameDriver, TLC

MCNodes == {"forRound", "msgRound", "parPlayer", "input", "matchWin", "msgWin", "scores"}

MCKind == [n \in MCNodes |->
  CASE n = "forRound" -> "FOR"
    [] n = "parPlayer" -> "PARALLEL"
    [] n = "matchWin" -> "MATCH"
    [] OTHER -> "TASK"]

MCNextOf == [n \in MCNodes |->
  CASE n = "forRound" -> "scores"
    [] n = "msgRound" -> "parPlayer"
    [] n = "parPlayer" -> "matchWin"
    [] OTHER -> Null]

\* The "true" child of a loop; for the match, its first arm.
MCBodyOf == [n \in MCNodes |->
  CASE n = "forRound" -> "msgRound"
    [] n = "parPlayer" -> "input"
    [] n = "matchWin" -> "msgWin"
    [] OTHER -> Null]

MCParent == [n \in MCNodes |->
  CASE n \in {"msgRound", "parPlayer", "matchWin"} -> "forRound"
    [] n = "input" -> "parPlayer"
    [] n = "msgWin" -> "matchWin"
    [] OTHER -> Null]

\* Layout read by ControlFlow::ControlFlow (EnvironmentMgr.cpp 213-217).
MCData == [n \in MCNodes |->
  CASE n = "forRound" -> << <<"for">>, <<"round">>, <<"in", "rounds">> >>
    [] n = "parPlayer" -> << <<"parallel_for">>, <<"player">>, <<"in", "players">> >>
    [] n = "matchWin" -> << <<"true">> >>
    [] OTHER -> << <<"message">> >>]

\* Layout built by parseForRule (RuleInterpreter.cpp 264-273).
ParserData == [n \in MCNodes |->
  CASE n = "forRound" -> << <<"round">>, <<"rounds">> >>
    [] n = "parPlayer" -> << <<"player">>, <<"players">> >>
    [] OTHER -> MCData[n]]

MCNames == {"round", "rounds", "player", "players", "timeUp", "roundOver"}
MCListIds == {"Lrounds", "Lplayers"}
MCElems == {"r1", "r2", "p1", "p2", "p3"}

\* The setup binds the rounds and the players in the outermost scope.
MCInitVars == [n \in MCNames |->
  CASE n = "rounds" -> "Lrounds"
    [] n = "players" -> "Lplayers"
    [] OTHER -> Unbound]

\* GameInstance::addPlayerToGame also stores the player list as "player".
PlayerListVars == [MCInitVars EXCEPT !["player"] = "Lplayers"]

\* One to three players join; the rounds list has the given elements.
Heaps(rounds) ==
  {[l \in MCListIds |-> IF l = "Lrounds" THEN rounds ELSE ps] :
     ps \in {<<"p1">>, <<"p1", "p2">>, <<"p1", "p2", "p3">>}}

OneRound == Heaps(<<"r1">>)
TwoRounds == Heaps(<<"r1", "r2">>)

NoTimers == [n \in MCNodes |-> NoTimer]

\* The players' input loop is cut off by a stop timer that resumes at the
\* match; the round carries a flag-only timer.
StopAndRegular == [n \in MCNodes |->
  CASE n = "parPlayer" -> [id |-> 1, type |-> "STOP", duration |-> 2,
                           flag |-> "timeUp", resume |-> "matchWin"]
    [] n = "forRound" -> [id |-> 2, type |-> "REGULAR", duration |-> 1,
                          flag |-> "roundOver", resume |-> "scores"]
    [] OTHER -> NoTimer]

\* The players' input loop must last at least two seconds.
PadOnPlayers == [n \in MCNodes |->
  IF n = "parPlayer" THEN [id |-> 1, type |-> "PAD", duration |-> 2,
                           flag |-> "", resume |-> "matchWin"]
  ELSE NoTimer]

MCMaxTime == 3
=============================================================================
