----------------------------- MODULE GameDriver -----------------------------
(***************************************************************************)
(* The rule-execution loop around the environment manager.  The driver is *)
(* not part of the repository (spec.md section 2: "an outer driver (out of *)
(* scope) repeatedly asks the Environment Manager for the next rule node"); *)
(* it is modelled from the spec: it keeps the node to run next (`pc`),     *)
(* runs task statements, enters control-flow statements, leaves a body     *)
(* when the body ends (pc = Null), retries an exit reported with           *)
(* should_block, polls the timers, and follows a resume node they return.  *)
(* Task effects on the environment are modelled in the task modules; here  *)
(* a task statement only moves control to its successor.                  *)
(***************************************************************************)
EXTENDS EnvironmentMgr

CONSTANTS
  Start,      \* RuleTree::getRules(), the first statement
  InitVars,   \* bindings the game sets before the rules run
  InitHeaps   \* the possible contents of the lists those bindings refer to

VARIABLES
  pc,         \* next node to run; Null when the current body has ended
  ending,     \* history: the node whose body ended when pc became Null
  snapshot,   \* history: [loop -> its source list when its scope was pushed]
  iter,       \* history: [loop -> body entries of its current activation, capped
              \*            one past the length of its source]
  done,       \* history: the task statements run, each with its loops' bindings
  heap0       \* history: the lists as the game set them up

vars == <<scopes, heap, timers, now, fault, pc, ending, snapshot, iter, done, heap0>>

RECURSIVE Ancestors(_)
\* The enclosing control-flow statements of n, innermost first.
Ancestors(n) == IF Parent[n] = Null THEN <<>> ELSE <<Parent[n]>> \o Ancestors(Parent[n])

\* Nodes the scopes are bound to, innermost first, outermost scope left out.
Chain == [i \in 1..Len(scopes) - 1 |-> scopes[i].node]

TopNode(sc) == IF sc = <<>> THEN NoCtrl ELSE sc[1].node
BoundTo(n) == scopes # <<>> /\ scopes[1].node = n

Running == fault = "none"

\* Continue at n, remembering which body ended when n is Null.
Goto(n, sc) ==
  /\ pc' = n
  /\ ending' = IF n = Null THEN TopNode(sc) ELSE ending

Init ==
  /\ scopes = <<GlobalScope(InitVars)>>
  /\ heap \in InitHeaps
  /\ timers = [i \in {} |-> 0]
  /\ now = 0
  /\ fault = "none"
  /\ pc = Start
  /\ ending = NoCtrl
  /\ snapshot = [n \in Nodes |-> <<>>]
  /\ iter = [n \in Nodes |-> 0]
  /\ done = <<>>
  /\ heap0 = heap

\* The loop scopes on the stack, and what each loop's variable reads as.
LoopScopes == {i \in 1..Len(scopes) : scopes[i].loopVar # ""}
Bindings ==
  [l \in {scopes[i].node : i \in LoopScopes} |->
     GetVariable(scopes, scopes[CHOOSE i \in LoopScopes : scopes[i].node = l].loopVar)]

(* The spec's structured walk of the program, over the lists as set up.  *)
(* A match contributes nothing, as ControlFlow::getNext builds it.        *)
Structured == INSTANCE StructuredExecution
  WITH lists <- heap0, trace <- done, MatchRunsArm <- FALSE,
       SourceOf <- [n \in Nodes |-> IF Kind[n] \in LoopKinds
                                    THEN InitVars[Data[n][3][2]] ELSE Null]

\* The run history keeps at most one statement past the whole walk, so a
\* program that never ends still has finitely many states.
Record(h, e) == IF Len(h) <= Len(Structured!Expected) THEN Append(h, e) ELSE h

-----------------------------------------------------------------------------
(* A task statement runs and control moves to the next statement.         *)
RunTask ==
  /\ Running
  /\ pc # Null /\ Kind[pc] \in {"TASK", "ASSIGNMENT"}
  /\ Goto(NextOf[pc], scopes)
  /\ done' = Record(done, [node |-> pc, env |-> Bindings])
  /\ UNCHANGED <<scopes, heap, timers, now, fault, snapshot, iter, heap0>>

(* A control-flow statement the driver gives a timer is first entered      *)
(* through enterScope(node, timer); control stays at the statement.       *)
StartTimer ==
  /\ Running
  /\ pc # Null /\ Kind[pc] \in LoopKinds /\ TimerOf[pc] # NoTimer
  /\ ~BoundTo(pc)
  /\ Apply(EnterScopeWithTimer(pc, TimerOf[pc]))
  /\ UNCHANGED <<now, pc, ending, snapshot, iter, done, heap0>>

(* enterScope(node) on a control-flow statement: push its scope, or        *)
(* advance the loop the front scope is bound to, and continue at the node *)
(* it returns.                                                             *)
StepInto ==
  /\ Running
  /\ pc # Null /\ Kind[pc] \in {"FOR", "PARALLEL", "MATCH"}
  /\ TimerOf[pc] # NoTimer => BoundTo(pc)
  /\ LET r == EnterScope(pc)
         fresh == ~BoundTo(pc)
     IN /\ Apply(r)
        /\ Goto(r.next, r.scopes)
        /\ IF Kind[pc] \in LoopKinds /\ r.fault = "none"
           THEN /\ snapshot' = IF fresh
                               THEN [snapshot EXCEPT ![pc] = heap[r.scopes[1].range]]
                               ELSE snapshot
                /\ iter' = [iter EXCEPT ![pc] =
                              IF fresh THEN 1
                              ELSE IF @ > Len(snapshot[pc]) THEN @ ELSE @ + 1]
           ELSE UNCHANGED <<snapshot, iter>>
  /\ UNCHANGED <<now, done, heap0>>

(* The current body ended: exitScope(shouldBlock).  On should_block the    *)
(* driver stays at the end of the body and retries later (spec 4.3, 5).   *)
LeaveBody ==
  /\ Running
  /\ pc = Null
  /\ LET r == ExitScope(FALSE)
     IN /\ Apply(r)
        /\ IF r.block THEN UNCHANGED <<pc, ending>> ELSE Goto(r.next, r.scopes)
  /\ UNCHANGED <<now, snapshot, iter, done, heap0>>

(* updateTimers() between two statements; a returned node is a jump.      *)
PollTimers ==
  /\ Running
  /\ DOMAIN timers # {}
  /\ LET r == UpdateTimers
     IN /\ Apply(r)
        /\ IF r.next # Null THEN Goto(r.next, r.scopes) ELSE UNCHANGED <<pc, ending>>
  /\ UNCHANGED <<now, snapshot, iter, done, heap0>>

Driver == RunTask \/ StartTimer \/ StepInto \/ LeaveBody \/ PollTimers

Clock == Tick /\ UNCHANGED <<pc, ending, snapshot, iter, done, heap0>>

Next == Driver \/ Clock

(* The driver keeps asking the manager for work and the clock keeps        *)
(* running; nothing else is assumed to be fair.                            *)
Spec == Init /\ [][Next]_vars
        /\ WF_vars(Driver) /\ WF_vars(Clock)
-----------------------------------------------------------------------------
(* Properties                                                              *)

TypeOK ==
  /\ MgrTypeOK
  /\ pc \in Nodes \cup {Null}
  /\ ending \in Nodes \cup {NoCtrl, Null}
  /\ snapshot \in [Nodes -> Seq(Elems)]
  /\ iter \in [Nodes -> Nat]

(* The scope stack mirrors where the driver is: at a statement, the scopes *)
(* are bound to its enclosing control-flow statements (plus the statement  *)
(* itself while a loop is between iterations or a timed scope was just     *)
(* opened); at the end of a body, to the statement owning that body and    *)
(* its ancestors.  enterScope's re-entry test, exitScope's loop-back/pop   *)
(* choice and updateTimers' unwinding to the recorded depth and resume    *)
(* node all have to agree for this to hold.                                *)
StackMatchesProgram ==
  Running =>
    IF pc # Null
    THEN Chain = Ancestors(pc) \/ Chain = <<pc>> \o Ancestors(pc)
    ELSE IF ending = NoCtrl THEN Chain = <<>>
         ELSE Chain = <<ending>> \o Ancestors(ending)

(* A loop runs its body once per element of its source, in front-to-back  *)
(* order (spec section 5): the k-th entry into the body sees the loop      *)
(* variable bound to the k-th element of the source as it was when the    *)
(* loop started, and the scope is popped after the last element.           *)
(* ControlFlow::updateLoop and the exiting flag exitScope reads.           *)
LoopRunsOncePerElement ==
  [][ /\ (StepInto /\ Kind[pc] \in LoopKinds /\ fault' = "none")
         => /\ iter'[pc] \in DOMAIN snapshot'[pc]
            /\ GetVariable(scopes', scopes'[1].loopVar) = snapshot'[pc][iter'[pc]]
      /\ (LeaveBody /\ Len(scopes') < Len(scopes) /\ scopes[1].node \in Nodes
          /\ Kind[scopes[1].node] \in LoopKinds)
         => iter[scopes[1].node] = Len(snapshot[scopes[1].node]) ]_vars

(* Advancing a loop binds its variable in the loop's own scope and leaves  *)
(* every enclosing scope's bindings as they were (spec sections 4.3 and 8: *)
(* loop-advance binds "in the current scope", and leaving restores the     *)
(* outer binding): EnvironmentManager::setVariable called from updateLoop. *)
OuterBindingsPreserved ==
  [][ StepInto /\ Kind[pc] \in LoopKinds /\ fault' = "none"
      => LET outerBefore == IF BoundTo(pc) THEN Tail(scopes) ELSE scopes
         IN [i \in 1..Len(outerBefore) |-> outerBefore[i].vars]
              = [i \in 1..Len(scopes') - 1 |-> scopes'[i + 1].vars] ]_vars

(* Once every statement has run, control is at the end of the rules with  *)
(* only the outermost scope left: loops terminate and timers do not trap   *)
(* the driver.                                                             *)
ProgramRunsToEnd == <>(pc = Null /\ Chain = <<>>)

(* The session ends: exitScope raises GameOver once the stack is empty     *)
(* (spec 4.3 steps 1 and 4).                                               *)
GameEventuallyEnds == <>(fault = "game_over")

(* updateTimers removes a timer only once its expiry time has passed       *)
(* (spec 4.3: "for each expired one").                                     *)
TimerFiresOnlyWhenExpired ==
  [][ PollTimers => \A id \in DOMAIN timers :
                      id \notin DOMAIN timers' => Expired(timers[id]) ]_vars

(* A scope holding an unexpired pad timer is not closed by exitScope: the  *)
(* body ends, and the pad must elapse before the scope may close (spec    *)
(* 3, 4.3 step 2).                                                         *)
PadTimerHoldsScope ==
  [][ LeaveBody /\ scopes[1].timerId \in DOMAIN timers
      /\ timers[scopes[1].timerId].type = "PAD" /\ ~Expired(timers[scopes[1].timerId])
      => Len(scopes') = Len(scopes) ]_vars

(* The driver and the manager together run the rules the way the spec's   *)
(* structured execution does: every task statement runs once per binding *)
(* of its enclosing loops, in program order, with each loop variable      *)
(* bound to the elements of the loop's source list front to back, and    *)
(* every statement eventually runs.  enterScope's push or re-entry,       *)
(* updateLoop's bind-and-remove and exitScope's loop-back all take part.  *)
ImplementsStructuredExecution == Structured!Spec

(* No rule program in the model raises an exception or dereferences null. *)
NoFault == fault \in {"none", "game_over"}
=============================================================================
