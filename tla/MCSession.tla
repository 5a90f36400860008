----------------------------- MODULE MCSession -----------------------------
(* The converter's tempArgs as SCConverter's constructor builds them, with  *)
(* the ten-element lists cut to two or three elements and the strings       *)
(* ("test prompt", "player1", ...) named by model values, so that a list   *)
(* may mix them with ints.                                                  *)
EXTENDS Session

CONSTANTS test, prompt, input, text, points, p1

MCInts == 0..3
MCWords == {test, prompt, input, text, points, p1}
MCHandles == {"rev", "shuf", "extT", "extS", "inIds", "inPrompt", "inType",
              "scOwner", "scNames", "scScores", "scAttr", "msgIds", "msgText",
              "dList", "dNum", "asName", "asVal"}

I(n) == [t |-> "int", v |-> n]
S(w) == [t |-> "str", v |-> w]
L(s) == [t |-> "list", v |-> s]

MCHeapInit ==
  ("rev" :> L(<<0, 1>>)) @@ ("shuf" :> L(<<0, 1>>))
  @@ ("extT" :> L(<<1>>)) @@ ("extS" :> L(<<2, 3>>))
  @@ ("inIds" :> L(<<1, 2>>)) @@ ("inPrompt" :> S(prompt)) @@ ("inType" :> S(input))
  @@ ("scOwner" :> I(0)) @@ ("scNames" :> L(<<p1>>)) @@ ("scScores" :> L(<<3>>))
  @@ ("scAttr" :> S(points))
  @@ ("msgIds" :> L(<<1, 2>>)) @@ ("msgText" :> S(text))
  @@ ("dList" :> L(<<1, 2>>)) @@ ("dNum" :> I(1))
  @@ ("asName" :> S(test)) @@ ("asVal" :> I(1))

MCTempArgs == [k \in TaskKinds |->
  CASE k = "REVERSE" -> <<"rev">>
    [] k = "SHUFFLE" -> <<"shuf">>
    [] k = "EXTEND" -> <<"extT", "extS">>
    [] k = "INPUT_CHOICE" -> <<"inIds", "inPrompt", "inType">>
    [] k = "SCORES" -> <<"scOwner", "scNames", "scScores", "scAttr">>
    [] k = "MESSAGE" -> <<"msgIds", "msgText">>
    [] k = "DISCARD" -> <<"dList", "dNum">>
    [] k = "ASSIGNMENT" -> <<"asName", "asVal">>
    [] OTHER -> <<>>]
=============================================================================
