--------------------------- MODULE EnvironmentMgr ---------------------------
(***************************************************************************)
(* The environment manager of src/lib/variables/EnvironmentMgr.cpp: the    *)
(* scope stack (a deque whose front is the innermost scope, index 1 here), *)
(* the ControlFlow object each scope owns, the loop-advance machine, and   *)
(* the timer map.  Every operation is an operator that computes the        *)
(* manager's state after the call together with the call's result, so     *)
(* that a driver (GameDriver) can take the call as one atomic step.        *)
(*                                                                         *)
(* Data abstraction: variable names and list elements are strings, a list  *)
(* value is a handle into `heap` (the shared varType a ControlFlow's       *)
(* `range` points to), booleans stored by a timer flag are "true"/"false". *)
(***************************************************************************)
EXTENDS Integers, Sequences, FiniteSets

CONSTANTS
  Nodes,      \* rule nodes (RuleNode objects) of the program
  Null,       \* nullptr (a missing node, a missing range)
  NoCtrl,     \* marks the outermost scope, built by Scope(mgr) with no ControlFlow
  Kind,       \* [Nodes -> NodeKinds]
  NextOf,     \* [Nodes -> Nodes \cup {Null}]  RuleNode::getNextNode
  BodyOf,     \* [Nodes -> Nodes \cup {Null}]  getChildWithKey({"true"}).child
  Parent,     \* [Nodes -> Nodes \cup {Null}]  RuleNode::getParentNode
  Data,       \* [Nodes -> Seq(Seq(Names))]  RuleNode::getData token lists
  Names,      \* variable names (every token of Data is one)
  Unbound,    \* a name bound in no scope (getVariable returns nullptr)
  ListIds,    \* handles of list values
  Elems,      \* scalar values (list elements, strings)
  TimerOf,    \* [Nodes -> TimerSpecs \cup {NoTimer}] timer the driver gives a node
  NoTimer,
  MaxTime     \* bound on the wall clock, in seconds

NodeKinds == {"FOR", "PARALLEL", "MATCH", "TASK", "ASSIGNMENT"}
LoopKinds == {"FOR", "PARALLEL"}
TimerTypes == {"PAD", "STOP", "REGULAR"}
Values == Elems \cup ListIds \cup {"true", "false"}
TimerSpecs == [id : Nat, type : TimerTypes, duration : Nat,
               flag : Names \cup {""}, resume : Nodes \cup {Null}]

VARIABLES
  scopes,   \* Seq of scope records, front (innermost) first
  heap,     \* [ListIds -> Seq(Elems)] contents of every list value
  timers,   \* function from live timer ids to timer records (std::map)
  now,      \* wall clock, seconds
  fault     \* "none", or the exception / crash that ended the session

mgrVars == <<scopes, heap, timers, now, fault>>

NoVars == [n \in Names |-> Unbound]

Scope == [node : Nodes \cup {Null, NoCtrl}, vars : [Names -> Values \cup {Unbound}],
          exiting : BOOLEAN, loopVar : Names \cup {""},
          range : ListIds \cup {Null}, timerId : Int]
TimerRec == [type : TimerTypes, flag : Names \cup {""}, resume : Nodes \cup {Null},
             scopeid : Nat, expire : Nat]

MgrTypeOK ==
  /\ scopes \in Seq(Scope)
  /\ heap \in [ListIds -> Seq(Elems)]
  /\ DOMAIN timers \subseteq Nat /\ \A i \in DOMAIN timers : timers[i] \in TimerRec
  /\ now \in 0..MaxTime
  /\ fault \in {"none", "out_of_range", "null_deref", "game_over"}

(* EnvironmentManager(): one scope without a ControlFlow, holding the      *)
(* variables the game set up before the rules run.                         *)
GlobalScope(vars) ==
  [node |-> NoCtrl, vars |-> vars, exiting |-> TRUE, loopVar |-> "",
   range |-> Null, timerId |-> -1]

-----------------------------------------------------------------------------
(* Variables: EnvironmentManager::hasVar / getVariable / setVariable.      *)

\* Index of the innermost scope binding `name`, 0 if none (hasVar).
VarScope(sc, name) ==
  IF \E i \in 1..Len(sc) : sc[i].vars[name] # Unbound
  THEN CHOOSE i \in 1..Len(sc) : sc[i].vars[name] # Unbound
                                 /\ \A j \in 1..(i-1) : sc[j].vars[name] = Unbound
  ELSE 0

GetVariable(sc, name) ==
  IF VarScope(sc, name) = 0 THEN Unbound ELSE sc[VarScope(sc, name)].vars[name]

\* Mutant: a new name is created in the outermost scope (scopes.back()).
SetVariableOutermost(sc, name, v) ==
  IF sc = <<>> THEN sc
  ELSE LET i == VarScope(sc, name)
           t == IF i = 0 THEN Len(sc) ELSE i
       IN [sc EXCEPT ![t].vars[name] = v]

\* Overwrite in the innermost scope already holding the name, else create
\* it in the front scope; nothing when there is no scope.
SetVariable(sc, name, v) ==
  IF sc = <<>> THEN sc
  ELSE LET i == VarScope(sc, name)
           t == IF i = 0 THEN 1 ELSE i
       IN [sc EXCEPT ![t].vars[name] = v]

-----------------------------------------------------------------------------
(* ControlFlow                                                             *)

\* ControlFlow::getNext: the "true" child of a loop, nothing otherwise.
CtrlNext(node) ==
  IF node # Null /\ Kind[node] \in LoopKinds THEN BodyOf[node] ELSE Null

(* ControlFlow::ControlFlow: reads the loop variable from data.at(1).at(0) *)
(* and the range name from data.at(2).at(1); at() out of bounds throws,    *)
(* an unbound range name is dereferenced.  Result: fault, loopVar, range.  *)
CtrlOf(sc, node) ==
  LET ok(lv, r) == [fault |-> "none", loopVar |-> lv, range |-> r]
      bad(f) == [fault |-> f, loopVar |-> "", range |-> Null]
  IN IF node = Null \/ Len(Data[node]) < 2 THEN ok("", Null)
     ELSE IF Len(Data[node]) < 3 \/ Len(Data[node][2]) < 1 \/ Len(Data[node][3]) < 2
          THEN bad("out_of_range")
     ELSE LET v == GetVariable(sc, Data[node][3][2])
          IN IF v = Unbound THEN bad("null_deref")
             ELSE ok(Data[node][2][1], IF v \in ListIds THEN v ELSE Null)

NewScope(node, ctrl, tid) ==
  [node |-> node, vars |-> NoVars, exiting |-> TRUE, loopVar |-> ctrl.loopVar,
   range |-> ctrl.range, timerId |-> tid]

Result(sc, hp, tm, next, f) ==
  [scopes |-> sc, heap |-> hp, timers |-> tm, next |-> next, block |-> FALSE, fault |-> f]

\* Mutant: exiting is computed before remove_at, one element early.
UpdateLoopExitsEarly(sc, hp, tm) ==
  LET top == sc[1] IN
  IF top.range = Null THEN Result(sc, hp, tm, Null, "null_deref")
  ELSE IF hp[top.range] = <<>> THEN Result(sc, hp, tm, CtrlNext(top.node), "none")
  ELSE LET bound == SetVariable(sc, top.loopVar, Head(hp[top.range]))
       IN Result([bound EXCEPT ![1].exiting = (Len(hp[top.range]) <= 2)],
                 [hp EXCEPT ![top.range] = Tail(@)], tm, CtrlNext(top.node), "none")

\* Mutant: the exiting flag is never updated.
UpdateLoopNeverExits(sc, hp, tm) ==
  LET top == sc[1] IN
  IF top.range = Null THEN Result(sc, hp, tm, Null, "null_deref")
  ELSE IF hp[top.range] = <<>> THEN Result(sc, hp, tm, CtrlNext(top.node), "none")
  ELSE Result([SetVariable(sc, top.loopVar, Head(hp[top.range])) EXCEPT ![1].exiting = FALSE],
              [hp EXCEPT ![top.range] = Tail(@)], tm, CtrlNext(top.node), "none")

\* Mutant: the loop variable is bound to the range itself, not its front.
UpdateLoopBindsRange(sc, hp, tm) ==
  LET top == sc[1] IN
  IF top.range = Null THEN Result(sc, hp, tm, Null, "null_deref")
  ELSE IF hp[top.range] = <<>> THEN Result(sc, hp, tm, CtrlNext(top.node), "none")
  ELSE LET rest == Tail(hp[top.range])
       IN Result([SetVariable(sc, top.loopVar, hp[top.range]) EXCEPT ![1].exiting = (rest = <<>>)],
                 [hp EXCEPT ![top.range] = rest], tm, CtrlNext(top.node), "none")

\* Mutant: the element is taken from the back of the range (pop_back).
UpdateLoopFromBack(sc, hp, tm) ==
  LET top == sc[1] IN
  IF top.range = Null THEN Result(sc, hp, tm, Null, "null_deref")
  ELSE IF hp[top.range] = <<>> THEN Result(sc, hp, tm, CtrlNext(top.node), "none")
  ELSE LET r == hp[top.range]
           rest == SubSeq(r, 1, Len(r) - 1)
       IN Result([SetVariable(sc, top.loopVar, r[Len(r)]) EXCEPT ![1].exiting = (rest = <<>>)],
                 [hp EXCEPT ![top.range] = rest], tm, CtrlNext(top.node), "none")

(* ControlFlow::updateLoop on the front scope: when the range is not       *)
(* empty, bind its first element through setVariable, remove it, and set  *)
(* exiting once the range is empty; the body is returned either way.       *)
UpdateLoop(sc, hp, tm) ==
  LET top == sc[1] IN
  IF top.range = Null THEN Result(sc, hp, tm, Null, "null_deref")
  ELSE IF hp[top.range] = <<>> THEN Result(sc, hp, tm, CtrlNext(top.node), "none")
  ELSE LET rest == Tail(hp[top.range])
           bound == SetVariable(sc, top.loopVar, Head(hp[top.range]))
       IN Result([bound EXCEPT ![1].exiting = (rest = <<>>)],
                 [hp EXCEPT ![top.range] = rest], tm, CtrlNext(top.node), "none")

-----------------------------------------------------------------------------
\* Mutant: the re-entry test is dropped; every call pushes a scope.
EnterScopeAlwaysPush(node) ==
  LET c == CtrlOf(scopes, node)
      pushed == <<NewScope(node, c, -1)>> \o scopes
  IN IF c.fault # "none" THEN Result(scopes, heap, timers, Null, c.fault)
     ELSE IF node # Null /\ Kind[node] \in LoopKinds
          THEN UpdateLoop(pushed, heap, timers)
          ELSE Result(pushed, heap, timers, CtrlNext(node), "none")

(* EnvironmentManager::enterScope(node): re-entering the node the front    *)
(* scope is bound to advances its loop; otherwise a new scope is pushed    *)
(* and, for a loop, advanced at once.                                      *)
EnterScope(node) ==
  IF scopes # <<>> /\ scopes[1].node # NoCtrl /\ scopes[1].node = node
  THEN UpdateLoop(scopes, heap, timers)
  ELSE LET c == CtrlOf(scopes, node)
           pushed == <<NewScope(node, c, -1)>> \o scopes
       IN IF c.fault # "none" THEN Result(scopes, heap, timers, Null, c.fault)
          ELSE IF node # Null /\ Kind[node] \in LoopKinds
               THEN UpdateLoop(pushed, heap, timers)
               ELSE Result(pushed, heap, timers, CtrlNext(node), "none")

(* EnvironmentManager::enterScope(node, timer): push a scope owning the    *)
(* timer; the timer records the depth below it, resets its flag to false   *)
(* in the enclosing scopes, and starts.  The loop is not advanced.         *)
EnterScopeWithTimer(node, t) ==
  LET c == CtrlOf(scopes, node)
      rec == [type |-> t.type, flag |-> t.flag, resume |-> t.resume,
              scopeid |-> Len(scopes), expire |-> now + t.duration]
      flagged == IF t.flag # "" THEN SetVariable(scopes, t.flag, "false") ELSE scopes
      tm == [i \in DOMAIN timers \cup {t.id} |-> IF i = t.id THEN rec ELSE timers[i]]
  IN IF c.fault # "none" THEN Result(scopes, heap, timers, Null, c.fault)
     ELSE Result(<<NewScope(node, c, t.id)>> \o flagged, heap, tm, Null, "none")

\* Timer::isExpired: difftime(expireTime, now) < 0
Expired(rec) == now > rec.expire

(* EnvironmentManager::exitScope(shouldBlock, force).  An unexpired pad    *)
(* timer sets shouldBlock but does not stop the exit; any other timer      *)
(* without a flag is erased.  The outermost scope is never popped.         *)
ExitScopeIn(sc, tm, force) ==
  LET top == sc[1]
      owns == top.timerId \in DOMAIN tm
      pad == owns /\ tm[top.timerId].type = "PAD" /\ ~Expired(tm[top.timerId])
      tm1 == IF owns /\ ~pad /\ tm[top.timerId].flag = ""
             THEN [i \in DOMAIN tm \ {top.timerId} |-> tm[i]] ELSE tm
      r(s, next, f) == [Result(s, heap, tm1, next, f) EXCEPT !.block = pad]
  IN IF top.node = NoCtrl THEN r(sc, Null, "none")
     ELSE IF ~force /\ ~top.exiting THEN r([sc EXCEPT ![1].vars = NoVars], top.node, "none")
     ELSE IF top.node = Null THEN r(sc, Null, "null_deref")
     ELSE r(Tail(sc), NextOf[top.node], "none")

ExitScope(force) ==
  IF scopes = <<>> THEN Result(scopes, heap, timers, Null, "game_over")
  ELSE ExitScopeIn(scopes, timers, force)

-----------------------------------------------------------------------------
(* EnvironmentManager::updateTimers: every timer is moved out of the map   *)
(* (expired or not) and handled in id order: its flag is set true; a stop  *)
(* timer force-exits scopes until the depth it recorded, and the resume    *)
(* node of the shallowest stop timer is returned.                          *)
\* Mutant: the unwinding loop stops one scope short of the recorded depth.
RECURSIVE PopToShort(_, _)
PopToShort(acc, depth) ==
  IF acc.fault # "none" \/ depth + 1 >= Len(acc.scopes) THEN acc
  ELSE LET r == ExitScopeIn(acc.scopes, acc.timers, TRUE)
       IN PopToShort([acc EXCEPT !.scopes = r.scopes, !.fault = r.fault], depth)

RECURSIVE PopTo(_, _)
PopTo(acc, depth) ==
  IF acc.fault # "none" \/ depth >= Len(acc.scopes) THEN acc
  ELSE LET r == ExitScopeIn(acc.scopes, acc.timers, TRUE)
       IN PopTo([acc EXCEPT !.scopes = r.scopes, !.fault = r.fault], depth)

RECURSIVE FireTimers(_, _, _)
FireTimers(ids, acc, last) ==
  IF ids = {} THEN acc
  ELSE LET id == CHOOSE i \in ids : \A j \in ids : i <= j
           t == timers[id]
           flagged == IF t.flag # "" THEN [acc EXCEPT !.scopes = SetVariable(@, t.flag, "true")]
                      ELSE acc
           popped == IF t.type = "STOP" THEN PopTo(flagged, t.scopeid) ELSE flagged
           jumps == t.type = "STOP" /\ last > t.scopeid
       IN FireTimers(ids \ {id},
                     IF jumps THEN [popped EXCEPT !.next = t.resume] ELSE popped,
                     IF jumps THEN t.scopeid ELSE last)

UpdateTimers ==
  FireTimers(DOMAIN timers,
             Result(scopes, heap, [i \in {} |-> 0], Null, "none"), Len(scopes))

\* Commit the manager's state after a call.
Apply(r) ==
  /\ scopes' = r.scopes
  /\ heap' = r.heap
  /\ timers' = r.timers
  /\ fault' = r.fault

(* The wall clock advances.                                                *)
Tick ==
  /\ now < MaxTime
  /\ now' = now + 1
  /\ UNCHANGED <<scopes, heap, timers, fault>>
=============================================================================
