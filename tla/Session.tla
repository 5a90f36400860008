------------------------------ MODULE Session ------------------------------
(***************************************************************************)
(* A game session's library layer, as a caller (the server, a test) drives *)
(* it through its public calls:                                            *)
(*  - GameInstanceManager (gameinstancemanager.cpp): the map of waiting    *)
(*    game instances and the queue of active ones;                         *)
(*  - GameInstance::addPlayerToGame and PlayerHandler (gameinstance.cpp);  *)
(*  - SCConverter, its factories and the runnable tasks                    *)
(*    (SocialGamingTaskFactory.cpp/.hpp).                                  *)
(* Every call runs to completion on the caller's thread, so each is one    *)
(* atomic action.                                                          *)
(*                                                                         *)
(* Data abstraction: a Variable's value is a record [t, v] with t one of   *)
(* "int", "str", "list"; a list holds atoms (ints and words), not handles; *)
(* a player record {id, name} is its id; a message's key, the comma-joined *)
(* id string, is the sequence of ids it joins.  The converter's arguments  *)
(* are the fixed tempArgs its constructor builds ([TEMP] in the code):     *)
(* every conversion of a kind shares the same Variables.                   *)
(***************************************************************************)
EXTENDS Integers, SequencesExt, TLC

CONSTANTS
  GameIds,        \* ids createGameInstance may be called with
  PlayerIds,      \* ids assignPlayerToGame may be called with
  Ints,           \* small ints held by Variables
  Words,          \* strings held by Variables
  Handles,        \* the Variables a converter's tempArgs point to
  TempArgs,       \* [TaskKinds -> Seq(Handles)]  SCConverter::tempArgs
  HeapInit,       \* [Handles -> values]  their values after construction
  ConverterGames, \* the games buildDefaultConverter is called for
  NumMaxPlayers,  \* GameInstance::numMaxPlayers
  MaxLen,         \* bound on a list's length (Extend grows a list)
  MaxTasks,       \* bound on tasks converted per game
  MaxRuns,        \* bound on task runs per game
  MaxQueue,       \* bound on the active queue's length
  MaxJoins        \* bound on players joining one game

Atoms == Ints \cup Words \cup PlayerIds
\* varType: the alternatives a Variable may hold (the tag is tested first).
IsValue(x) ==
  CASE x.t = "int" -> x.v \in Ints
    [] x.t = "str" -> x.v \in Words
    [] x.t = "list" -> x.v \in Seq(Atoms)
    [] OTHER -> FALSE
List(s) == [t |-> "list", v |-> s]
Unbound == [t |-> "none"]
Names == {"player"} \cup Words

\* NodeType values a converter may be asked for (task nodes), and the ones
\* buildDefaultConverter registers a factory for.
TaskKinds == {"EXTEND", "DISCARD", "SHUFFLE", "SORT", "DEAL", "INPUT_CHOICE",
              "MESSAGE", "SCORES", "ASSIGNMENT", "REVERSE"}
FactoryKinds == {"REVERSE", "SHUFFLE", "EXTEND", "INPUT_CHOICE", "MESSAGE",
                 "SCORES", "ASSIGNMENT"}

\* GameInstance::currPlayerCount: initialised to 0 and never assigned.
CurrPlayerCount == 0

VARIABLES
  waiting,  \* ids in waitingGameMap (an instance is named by its id)
  queue,    \* activeGameQueue
  env,      \* [waiting -> [Names -> values or Unbound]] outermost scope of envMgr
  msgs,     \* [waiting -> Seq(Msg)] PlayerHandler::messages
  heap,     \* [ConverterGames -> [Handles -> values]] the converter's Variables
  built,    \* games whose converter has been built
  tasks,    \* [ConverterGames -> Seq(Task)] tasks converted and held by the caller
  ran,      \* [ConverterGames -> Nat] task runs so far (history)
  joined    \* [waiting -> Seq(PlayerIds)] accepted joins, in order (history)

vars == <<waiting, queue, env, msgs, heap, built, tasks, ran, joined>>

Msg == [key : Seq(Ints), type : Words \cup {"message"}, data : Words, extra : Seq(Atoms)]
       \cup [key : Seq(Ints), type : {"scores"}, data : Words, names : Seq(Words),
             scores : Seq(Atoms)]
Task == [kind : {"REVERSE", "SHUFFLE"}, list : Handles]
        \cup [kind : {"EXTEND"}, list : Handles, elems : Seq(Atoms)]
        \cup [kind : {"INPUT_CHOICE"}, ids : Seq(Ints), prompt : Words, type : Words,
              extra : Seq(Atoms)]
        \cup [kind : {"MESSAGE"}, ids : Seq(Ints), text : Words]
        \cup [kind : {"SCORES"}, owner : Ints, names : Seq(Words), scores : Seq(Atoms),
              attr : Words]
        \cup [kind : {"ASSIGNMENT"}, name : Handles, val : Handles]

NoVars == [n \in Names |-> Unbound]

Init ==
  /\ waiting = {}
  /\ queue = <<>>
  /\ env = [g \in {} |-> NoVars]
  /\ msgs = [g \in {} |-> <<>>]
  /\ heap = [g \in ConverterGames |-> HeapInit]
  /\ built = {}
  /\ tasks = [g \in ConverterGames |-> <<>>]
  /\ ran = [g \in ConverterGames |-> 0]
  /\ joined = [g \in {} |-> <<>>]

-----------------------------------------------------------------------------
(* GameInstanceManager                                                     *)

\* Mutant: the map entry is overwritten (operator[]) instead of emplaced.
PutGameInstanceInMapOverwrites(id) ==
  [env |-> [g \in waiting \cup {id} |-> IF g = id THEN NoVars ELSE env[g]],
   msgs |-> [g \in waiting \cup {id} |-> IF g = id THEN <<>> ELSE msgs[g]]]

(* createGameInstance -> putGameInstanceInMap: emplace keeps the instance  *)
(* already under the id; the new one is dropped.                           *)
PutGameInstanceInMap(id) ==
  [env |-> [g \in waiting \cup {id} |-> IF g \in waiting THEN env[g] ELSE NoVars],
   msgs |-> [g \in waiting \cup {id} |-> IF g \in waiting THEN msgs[g] ELSE <<>>]]

CreateGameInstance(id) ==
  LET m == PutGameInstanceInMap(id) IN
  /\ waiting' = waiting \cup {id}
  /\ env' = m.env
  /\ msgs' = m.msgs
  /\ joined' = [g \in waiting \cup {id} |-> IF g \in waiting THEN joined[g] ELSE <<>>]
  /\ UNCHANGED <<queue, heap, built, tasks, ran>>

\* putGameInstanceInQueue, with an instance the caller took from the map.
PutGameInstanceInQueue(g) ==
  /\ g \in waiting
  /\ Len(queue) < MaxQueue
  /\ queue' = Append(queue, g)
  /\ UNCHANGED <<waiting, env, msgs, heap, built, tasks, ran, joined>>

\* getGameInstanceFromQueue: pop the front, or return nullptr when empty.
GetGameInstanceFromQueue ==
  /\ queue' = IF queue = <<>> THEN queue ELSE Tail(queue)
  /\ UNCHANGED <<waiting, env, msgs, heap, built, tasks, ran, joined>>

(* GameInstance::addPlayerToGame: refuse when full, create the "player"    *)
(* list if getVariable finds none, then push_back the new player; a        *)
(* binding that is not a list makes push_back throw.                       *)
AddPlayerToGame(e, p) ==
  IF CurrPlayerCount >= NumMaxPlayers THEN [env |-> e, res |-> "full"]
  ELSE LET l == IF e["player"] = Unbound THEN List(<<>>) ELSE e["player"]
       IN IF l.t # "list" THEN [env |-> e, res |-> "bad_arg"]
          ELSE [env |-> [e EXCEPT !["player"] = List(Append(l.v, p))], res |-> "ok"]

(* assignPlayerToGame: look the id up in the map; a missing game is only   *)
(* reported.                                                               *)
AssignPlayerToGame(id, p) ==
  IF id \notin waiting
  THEN UNCHANGED <<env, joined>>
  ELSE LET r == AddPlayerToGame(env[id], p) IN
       /\ env' = [env EXCEPT ![id] = r.env]
       /\ joined' = IF r.res = "ok" THEN [joined EXCEPT ![id] = Append(@, p)] ELSE joined

AssignPlayer(id, p) ==
  /\ id \in waiting => Len(joined[id]) < MaxJoins
  /\ AssignPlayerToGame(id, p)
  /\ UNCHANGED <<waiting, queue, msgs, heap, built, tasks, ran>>

\* deletePlayerFromGame: the lookup happens, the removal is commented out.
DeletePlayerFromGame(id, p) ==
  UNCHANGED <<waiting, queue, env, msgs, heap, built, tasks, ran, joined>>

\* PlayerHandler::clearAllMessages, after the caller read getAllMsgs.
ClearAllMessages(g) ==
  /\ g \in waiting
  /\ msgs' = [msgs EXCEPT ![g] = <<>>]
  /\ UNCHANGED <<waiting, queue, env, heap, built, tasks, ran, joined>>

-----------------------------------------------------------------------------
(* Factories: checkPreconditions and each DefaultFactory<T>::create.  The  *)
(* result is the task, or the exception create throws.                     *)

IntsOf(s) == SelectSeq(s, LAMBDA a : a \in Ints)     \* copyVec<int>
StrsOf(s) == SelectSeq(s, LAMBDA a : a \in Words)    \* copyVec<std::string>

\* checkPreconditions(Min, Max, ...): size within bounds (argument handles
\* and the factory's playerHandler / envMgr are never null here).
CheckPreconditions(lo, hi, args) == lo <= Len(args) /\ Len(args) <= hi

Made(t) == [res |-> "ok", task |-> t]
BadArg == [res |-> "bad_arg", task |-> <<>>]

CreateReverse(kind, args, h) ==
  IF Len(args) # 1 THEN BadArg ELSE Made([kind |-> kind, list |-> args[1]])

CreateExtend(args, h) ==
  IF ~CheckPreconditions(2, 2, args) THEN BadArg
  ELSE IF h[args[1]].t # "list" \/ h[args[2]].t # "list" THEN BadArg
  ELSE Made([kind |-> "EXTEND", list |-> args[1], elems |-> h[args[2]].v])

CreateInput(args, h) ==
  LET n == Len(args)
      mk(extra) == Made([kind |-> "INPUT_CHOICE", ids |-> IntsOf(h[args[1]].v),
                         prompt |-> h[args[2]].v, type |-> h[args[3]].v, extra |-> extra])
  IN IF ~CheckPreconditions(3, 5, args) THEN BadArg
     ELSE IF h[args[1]].t # "list" \/ h[args[2]].t # "str" \/ h[args[3]].t # "str"
          THEN BadArg
     ELSE IF n = 4 THEN IF h[args[4]].t = "list" THEN mk(StrsOf(h[args[4]].v)) ELSE BadArg
     ELSE IF n = 5 THEN IF h[args[4]].t = "int" /\ h[args[5]].t = "int"
                        THEN mk(<<h[args[4]].v, h[args[5]].v>>) ELSE BadArg
     ELSE mk(<<>>)

CreateMessage(args, h) ==
  IF ~CheckPreconditions(2, 2, args) THEN BadArg
  ELSE IF h[args[1]].t = "list" /\ h[args[2]].t = "str"
       THEN Made([kind |-> "MESSAGE", ids |-> IntsOf(h[args[1]].v), text |-> h[args[2]].v])
       ELSE BadArg

CreateScores(args, h) ==
  IF ~CheckPreconditions(4, 4, args) THEN BadArg
  ELSE IF h[args[1]].t = "int" /\ h[args[2]].t = "list" /\ h[args[3]].t = "list"
          /\ h[args[4]].t = "str"
       THEN Made([kind |-> "SCORES", owner |-> h[args[1]].v, names |-> StrsOf(h[args[2]].v),
                  scores |-> h[args[3]].v, attr |-> h[args[4]].v])
       ELSE BadArg

CreateAssignment(args, h) ==
  IF ~CheckPreconditions(2, 2, args) THEN BadArg
  ELSE IF h[args[1]].t = "str"
       THEN Made([kind |-> "ASSIGNMENT", name |-> args[1], val |-> args[2]])
       ELSE BadArg

(* SCConverter::convert: a kind without a factory throws "unsupported";   *)
(* otherwise the factory gets a copy of tempArgs[kind] (the same           *)
(* Variables every time).                                                  *)
Convert(kind, h) ==
  LET args == TempArgs[kind] IN
  CASE kind \notin FactoryKinds -> [res |-> "unsupported", task |-> <<>>]
    [] kind \in {"REVERSE", "SHUFFLE"} -> CreateReverse(kind, args, h)
    [] kind = "EXTEND" -> CreateExtend(args, h)
    [] kind = "INPUT_CHOICE" -> CreateInput(args, h)
    [] kind = "MESSAGE" -> CreateMessage(args, h)
    [] kind = "SCORES" -> CreateScores(args, h)
    [] kind = "ASSIGNMENT" -> CreateAssignment(args, h)

(* buildDefaultConverter(game): the converter's constructor fills tempArgs *)
(* and the factories are registered with the game's handler and envMgr.   *)
BuildDefaultConverter(g) ==
  /\ g \in ConverterGames \cap waiting
  /\ g \notin built
  /\ built' = built \cup {g}
  /\ heap' = [heap EXCEPT ![g] = HeapInit]
  /\ UNCHANGED <<waiting, queue, env, msgs, tasks, ran, joined>>

ConvertTask(g, kind) ==
  LET r == Convert(kind, heap[g]) IN
  /\ g \in built
  /\ Len(tasks[g]) < MaxTasks
  /\ tasks' = IF r.res = "ok" THEN [tasks EXCEPT ![g] = Append(@, r.task)] ELSE tasks
  /\ UNCHANGED <<waiting, queue, env, msgs, heap, built, ran, joined>>

-----------------------------------------------------------------------------
(* RunnableTask::run.  The outcomes of a run on the converter's Variables  *)
(* h, the game's messages q and environment e.  A run that throws changes  *)
(* nothing; erasing the first character of an empty id string is           *)
(* undefined behaviour.                                                    *)

Ran(h, q, e) == [heap |-> h, msgs |-> q, env |-> e, res |-> "ok"]
Threw(h, q, e, why) == [heap |-> h, msgs |-> q, env |-> e, res |-> why]

\* std::shuffle with a default-constructed engine: some permutation.
Shuffles(s) == {[i \in 1..Len(s) |-> s[f[i]]] : f \in Permutations(1..Len(s))}

\* Mutant: the source elements are appended back to front.
ExtendRunReversed(t, h, q, e) ==
  IF h[t.list].t # "list" /\ t.elems # <<>> THEN {Threw(h, q, e, "bad_arg")}
  ELSE {Ran([h EXCEPT ![t.list].v = @ \o Reverse(t.elems)], q, e)}

\* ExtendTask::run: push_back a copy of every element captured at creation.
ExtendRun(t, h, q, e) ==
  IF h[t.list].t # "list" /\ t.elems # <<>> THEN {Threw(h, q, e, "bad_arg")}
  ELSE {Ran([h EXCEPT ![t.list].v = @ \o t.elems], q, e)}

\* ListObjUtils::reverse / shuffle on the borrowed Variable.
ReorderRun(t, h, q, e) ==
  IF h[t.list].t # "list" THEN {Threw(h, q, e, "bad_arg")}
  ELSE IF t.kind = "REVERSE" THEN {Ran([h EXCEPT ![t.list].v = Reverse(@)], q, e)}
  ELSE {Ran([h EXCEPT ![t.list].v = s], q, e) : s \in Shuffles(h[t.list].v)}

\* InputTask::run / MessageTask::run: one message keyed by the ids.
QueueRun(t, h, q, e) ==
  LET m == IF t.kind = "MESSAGE"
           THEN [key |-> t.ids, type |-> "message", data |-> t.text, extra |-> <<>>]
           ELSE [key |-> t.ids, type |-> t.type, data |-> t.prompt, extra |-> t.extra]
  IN IF t.ids = <<>> THEN {Threw(h, q, e, "ub")} ELSE {Ran(h, Append(q, m), e)}

\* Mutant: the scores go to the named players instead of the owner.
ScoresRunToPlayers(t, h, q, e) ==
  {Ran(h, Append(q, [key |-> t.names, type |-> "scores", data |-> t.attr,
                     names |-> t.names, scores |-> t.scores]), e)}

\* ScoresTask::run: one message to the owner, names and scores by position.
ScoresRun(t, h, q, e) ==
  {Ran(h, Append(q, [key |-> <<t.owner>>, type |-> "scores", data |-> t.attr,
                     names |-> t.names, scores |-> t.scores]), e)}

(* AssignmentTask::run: mgr->setVariable(name, val) with the name read     *)
(* through the string_view into the name Variable, and the value Variable  *)
(* itself stored (aliased) in the outermost scope.                         *)
AssignmentRun(t, h, q, e) ==
  {Ran(h, q, [e EXCEPT ![h[t.name].v] = h[t.val]])}

RunOutcomes(t, h, q, e) ==
  CASE t.kind = "EXTEND" -> ExtendRun(t, h, q, e)
    [] t.kind \in {"REVERSE", "SHUFFLE"} -> ReorderRun(t, h, q, e)
    [] t.kind \in {"INPUT_CHOICE", "MESSAGE"} -> QueueRun(t, h, q, e)
    [] t.kind = "SCORES" -> ScoresRun(t, h, q, e)
    [] t.kind = "ASSIGNMENT" -> AssignmentRun(t, h, q, e)

\* Extend grows a list without limit; runs that would pass MaxLen are cut.
WithinBound(t, h) ==
  t.kind = "EXTEND" /\ h[t.list].t = "list" => Len(h[t.list].v) + Len(t.elems) <= MaxLen

RunTask(g, i) ==
  LET t == tasks[g][i] IN
  /\ i \in 1..Len(tasks[g])
  /\ ran[g] < MaxRuns
  /\ WithinBound(t, heap[g])
  /\ \E o \in RunOutcomes(t, heap[g], msgs[g], env[g]) :
        /\ heap' = [heap EXCEPT ![g] = o.heap]
        /\ msgs' = [msgs EXCEPT ![g] = o.msgs]
        /\ env' = [env EXCEPT ![g] = o.env]
  /\ ran' = [ran EXCEPT ![g] = @ + 1]
  /\ UNCHANGED <<waiting, queue, built, tasks, joined>>

-----------------------------------------------------------------------------
Next ==
  \/ \E id \in GameIds : CreateGameInstance(id)
  \/ \E g \in GameIds : PutGameInstanceInQueue(g)
  \/ GetGameInstanceFromQueue
  \/ \E id \in GameIds, p \in PlayerIds : AssignPlayer(id, p)
  \/ \E id \in GameIds, p \in PlayerIds : DeletePlayerFromGame(id, p)
  \/ \E g \in GameIds : ClearAllMessages(g)
  \/ \E g \in GameIds : BuildDefaultConverter(g)
  \/ \E g \in built, k \in TaskKinds : ConvertTask(g, k)
  \/ \E g \in built, i \in 1..MaxTasks : RunTask(g, i)

Spec == Init /\ [][Next]_vars

-----------------------------------------------------------------------------
(* Properties                                                              *)

TypeOK ==
  /\ waiting \subseteq GameIds
  /\ queue \in Seq(waiting)
  /\ DOMAIN env = waiting
  /\ \A g \in waiting, n \in Names : env[g][n] = Unbound \/ IsValue(env[g][n])
  /\ msgs \in [waiting -> Seq(Msg)]
  /\ DOMAIN heap = ConverterGames
  /\ \A g \in ConverterGames, h \in Handles : IsValue(heap[g][h])
  /\ built \subseteq ConverterGames
  /\ tasks \in [ConverterGames -> Seq(Task)]
  /\ ran \in [ConverterGames -> 0..MaxRuns]
  /\ joined \in [waiting -> Seq(PlayerIds)]

(* The "player" list of every game in waitingGameMap holds exactly the     *)
(* players assignPlayerToGame accepted for that id, in the order they      *)
(* joined: creating a game under an id already in use (createGameInstance  *)
(* -> putGameInstanceInMap) and joins to other games leave it alone, and   *)
(* the list is created once, by the first join.                            *)
PlayersListedInJoinOrder ==
  \A g \in waiting :
    env[g]["player"] = IF joined[g] = <<>> THEN Unbound ELSE List(joined[g])

(* Every run of a converted task has the effect spec 4.4 gives its kind on *)
(* the converter's Variables, the game's player handler and its            *)
(* environment (TaskEffects), and every other call leaves them alone:      *)
(* tasks share the converter's tempArgs Variables, so runs of different    *)
(* tasks, and repeated runs of one task, act on each other's results.      *)
Effects == INSTANCE TaskEffects WITH
  Games <- ConverterGames,
  vals <- heap,
  queued <- [g \in ConverterGames |-> IF g \in waiting THEN msgs[g] ELSE <<>>],
  scope <- [g \in ConverterGames |->
              [n \in Words |-> IF g \in waiting THEN env[g][n] ELSE Unbound]],
  runs <- ran

ImplementsTaskEffects == Effects!Spec
=============================================================================
