------------------------- MODULE StructuredExecution -------------------------
(***************************************************************************)
(* What running a rule program promises (spec.md sections 4 and 5), with  *)
(* no scopes, ranges or timers: the task statements run one at a time in   *)
(* the order a structured walk of the program gives.  A statement list     *)
(* runs front to back; a loop runs its body once per element of its source *)
(* list, front to back, with the loop variable bound to that element; a    *)
(* match runs its first arm (the expression evaluator answers true) when   *)
(* MatchRunsArm holds, and nothing otherwise: the driver as built enters   *)
(* a match's scope and leaves it at once, ControlFlow::getNext having no   *)
(* case for it, so the refinement is checked with MatchRunsArm = FALSE and *)
(* the spec's behaviour is the TRUE case.                                  *)
(* A run is recorded as the statements executed, each with the elements    *)
(* its enclosing loops were bound to when it ran.                          *)
(***************************************************************************)
EXTENDS Naturals, Sequences, TLC

CONSTANTS
  Nodes, Null, Kind, NextOf, BodyOf,
  Start,      \* the first statement of the rules
  SourceOf,   \* [loop node -> handle of the list it iterates]
  ListIds, Elems,
  MatchRunsArm  \* does a match run its arm (spec 5) or nothing (as built)

VARIABLES
  lists,      \* the lists the game set up, by handle
  trace       \* the task statements run so far: [node, env]

vars == <<lists, trace>>

LoopKinds == {"FOR", "PARALLEL"}

RECURSIVE Run(_, _), Iterations(_, _, _)

\* The executions of the statement list starting at n, under bindings env.
Run(n, env) ==
  IF n = Null THEN <<>>
  ELSE (CASE Kind[n] \in LoopKinds -> Iterations(n, env, lists[SourceOf[n]])
          [] Kind[n] = "MATCH" -> IF MatchRunsArm THEN Run(BodyOf[n], env) ELSE <<>>
          [] OTHER -> << [node |-> n, env |-> env] >>)
       \o Run(NextOf[n], env)

\* One run of loop n's body per remaining element es, in order.
Iterations(n, env, es) ==
  IF es = <<>> THEN <<>>
  ELSE Run(BodyOf[n], env @@ (n :> Head(es))) \o Iterations(n, env, Tail(es))

Expected == Run(Start, [l \in {} |-> Null])

Init ==
  /\ lists \in [ListIds -> Seq(Elems)]
  /\ trace = <<>>

\* The next task statement of the walk runs.
Step ==
  /\ Len(trace) < Len(Expected)
  /\ trace' = Append(trace, Expected[Len(trace) + 1])
  /\ UNCHANGED lists

Spec == Init /\ [][Step]_vars /\ WF_vars(Step)
==============================================================================
