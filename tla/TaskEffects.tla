----------------------------- MODULE TaskEffects -----------------------------
(***************************************************************************)
(* What running a converted task promises (spec 4.4, 6, 8), independent   *)
(* of factories and converters: each run is one step that either applies  *)
(* its kind's effect, or fails and changes nothing but the run count.     *)
(*   Reverse  - the list is reversed in place;                            *)
(*   Shuffle  - the list is permuted in place;                            *)
(*   Extend   - the source list's elements are appended to the target;    *)
(*   Message, InputChoice - one message keyed by a non-empty id group;    *)
(*   Scores   - one scores message keyed by the single owner id;          *)
(*   Assignment - one name of the environment gets a value.               *)
(* The player handler may also be drained (clear_all_messages), and        *)
(* anything else a session does leaves these variables alone.             *)
(***************************************************************************)
EXTENDS Integers, SequencesExt, TLC

CONSTANTS Games, Handles, Ints, Words, IsValue(_)

VARIABLES
  vals,    \* [Games -> [Handles -> values]] the Variables tasks act on
  queued,  \* [Games -> Seq(messages)] the player handler's queue
  scope,   \* [Games -> [Words -> values or none]] names tasks may assign
  runs     \* [Games -> Nat] task runs

absVars == <<vals, queued, scope, runs>>

Init ==
  /\ DOMAIN vals = Games /\ \A g \in Games, h \in Handles : IsValue(vals[g][h])
  /\ queued = [g \in Games |-> <<>>]
  /\ scope = [g \in Games |-> [n \in Words |-> [t |-> "none"]]]
  /\ runs = [g \in Games |-> 0]

IsList(x) == x.t = "list"

\* One run of a task of game g; Body relates the other variables.
Run(g, Body) ==
  /\ runs' = [runs EXCEPT ![g] = @ + 1]
  /\ Body

SetList(g, h, s) ==
  /\ vals' = [vals EXCEPT ![g][h] = [t |-> "list", v |-> s]]
  /\ UNCHANGED <<queued, scope>>

ReverseList(g, h) ==
  Run(g, IsList(vals[g][h]) /\ SetList(g, h, Reverse(vals[g][h].v)))

ShuffleList(g, h) ==
  LET l == vals[g][h].v IN
  Run(g, /\ IsList(vals[g][h])
         /\ \E f \in Permutations(1..Len(l)) : SetList(g, h, [i \in 1..Len(l) |-> l[f[i]]]))

ExtendList(g, h, src) ==
  Run(g, IsList(vals[g][h]) /\ IsList(vals[g][src])
         /\ SetList(g, h, vals[g][h].v \o vals[g][src].v))

\* The ints of an id-list Variable, in order: the message key.
IdGroup(x) == SelectSeq(x.v, LAMBDA a : a \in Ints)

(* One message is appended to game g's queue, and it satisfies P; the    *)
(* message's fields are otherwise free.                                    *)
Enqueue(g, P(_)) ==
  Run(g, /\ Len(queued'[g]) = Len(queued[g]) + 1
         /\ IsPrefix(queued[g], queued'[g])
         /\ P(Last(queued'[g]))
         /\ queued' = [queued EXCEPT ![g] = queued'[g]]
         /\ UNCHANGED <<vals, scope>>)

MessageOrInput(g) ==
  \E ids \in Handles :
     /\ IsList(vals[g][ids])
     /\ IdGroup(vals[g][ids]) # <<>>
     /\ Enqueue(g, LAMBDA m : m.key = IdGroup(vals[g][ids]))

Scores(g) == Enqueue(g, LAMBDA m : m.type = "scores" /\ \E o \in Ints : m.key = <<o>>)

Assign(g) ==
  \E n \in Words :
    Run(g, /\ scope' = [scope EXCEPT ![g][n] = scope'[g][n]]
           /\ UNCHANGED <<vals, queued>>)

\* A run that throws: BadArgument, TypeMismatch.
Fail(g) == Run(g, UNCHANGED <<vals, queued, scope>>)

Drain(g) ==
  /\ queued' = [queued EXCEPT ![g] = <<>>]
  /\ UNCHANGED <<vals, scope, runs>>

Next ==
  \E g \in Games :
    \/ \E h \in Handles : ReverseList(g, h) \/ ShuffleList(g, h)
    \/ \E h, src \in Handles : ExtendList(g, h, src)
    \/ MessageOrInput(g) \/ Scores(g) \/ Assign(g) \/ Fail(g)
    \/ Drain(g)

Spec == Init /\ [][Next]_absVars
=============================================================================
