----------------------------- MODULE ValueModel -----------------------------
(***************************************************************************)
(* The list operations of src/lib/variables/Variables.cpp (ListObjUtils    *)
(* and VariableUtils::compare) applied to one list value, the way the      *)
(* tasks and the loop machine call them.  Indexes are C++ ints; a list is  *)
(* a sequence of scalar elements (the elements' own identity, shared       *)
(* through shared_ptr, is the business of the environment model).          *)
(* Each step records its outcome: "ok", "noop", "null" (a null handle is   *)
(* returned), "out_of_range" or "bad_arg" (an exception is thrown), or     *)
(* "ub" (the call has undefined behaviour and the session is over).        *)
(***************************************************************************)
EXTENDS Integers, Sequences, SequencesExt

CONSTANTS
  Elems,      \* scalar element values
  MaxLen,     \* longest list considered
  Indexes,    \* int arguments tried (negative ones count from the end)
  Keys        \* string keys of the map value

VARIABLES
  list,       \* the list value operated on
  map,        \* a mapType value (string -> string), keys not in it absent
  outcome     \* [op, arg, result] of the last call

vars == <<list, map, outcome>>

Lists == BoundedSeq(Elems, MaxLen)
\* varType values of the alternatives the model uses, tagged by alternative.
Tagged(t, S) == {[t |-> t, v |-> x] : x \in S}
Scalars == Tagged("string", Elems) \cup Tagged("int", Indexes)
Values == Tagged("list", Lists) \cup Tagged("string", Elems)

Results == {"ok", "noop", "null", "out_of_range", "bad_arg", "ub"}

Abs(i) == IF i < 0 THEN -i ELSE i

Init ==
  /\ list \in Lists
  /\ map = [k \in {} |-> CHOOSE e \in Elems : TRUE]
  /\ outcome = [op |-> "none", arg |-> 0, result |-> "ok"]

Live == outcome.result # "ub"

Record(op, arg, result) == outcome' = [op |-> op, arg |-> arg, result |-> result]

-----------------------------------------------------------------------------
(* ListObjUtils::remove_at: an index beyond the size either way returns;   *)
(* a negative one counts from the end; an index equal to the size makes    *)
(* the iterator end() and erasing it is undefined.                         *)
RemoveAtResult(v, i) ==
  LET k == IF i < 0 THEN Len(v) + i ELSE i IN
  IF Abs(i) > Len(v) THEN [list |-> v, result |-> "noop"]
  ELSE IF k >= Len(v) THEN [list |-> v, result |-> "ub"]
  ELSE [list |-> RemoveAt(v, k + 1), result |-> "ok"]

(* insert_helper: a negative index counts from the end, and the range     *)
(* check compares the absolute value of the result with the size, so an    *)
(* index below -size leaves a negative position that becomes a huge        *)
(* unsigned offset (undefined).                                            *)
InsertAtResult(v, x, i) ==
  LET k == IF i < 0 THEN Len(v) + i ELSE i IN
  IF Abs(k) > Len(v) THEN [list |-> v, result |-> "out_of_range"]
  ELSE IF k < 0 THEN [list |-> v, result |-> "ub"]
  ELSE [list |-> InsertAt(v, k + 1, x), result |-> "ok"]

(* ListObjUtils::get_at: beyond the size either way gives a null handle;   *)
(* vector::at throws for the index equal to the size.                     *)
GetAtResult(v, i) ==
  LET k == IF i < 0 THEN Len(v) + i ELSE i IN
  IF Abs(i) > Len(v) THEN "null"
  ELSE IF k >= Len(v) THEN "out_of_range"
  ELSE "ok"

(* VariableUtils::compare on two lists: both iterators are taken from the *)
(* first operand, so the first list is compared with itself.              *)
CompareLists(a, b) ==
  LET list1 == a
      list2 == a
  IN \A j \in 1..Len(list1) : list1[j] = list2[j]

(* ListObjUtils::contains with an int or string key: find_if compares    *)
(* each element with the key through isEqual, and compare throws on the   *)
(* first element whose type differs from the key's (the elements here are *)
(* strings).  Any other key type throws too.                              *)
ContainsResult(v, key) ==
  IF v = <<>> \/ key.t = "string" THEN "ok" ELSE "bad_arg"

(* VariableUtils::setValue(var, index, value) on a list: list->at(index)  *)
(* throws out_of_range unless 0 <= index < size (a negative int becomes a *)
(* huge size_t); otherwise the element is replaced by a fresh Variable.   *)
SetAtResult(v, i, x) ==
  IF i < 0 \/ i >= Len(v) THEN [list |-> v, result |-> "out_of_range"]
  ELSE [list |-> [v EXCEPT ![i + 1] = x], result |-> "ok"]

-----------------------------------------------------------------------------
RemoveAtStep(i) ==
  /\ Live
  /\ LET r == RemoveAtResult(list, i)
     IN list' = r.list /\ Record("remove_at", i, r.result)
  /\ UNCHANGED map

InsertAtStep(x, i) ==
  /\ Live /\ Len(list) < MaxLen
  /\ LET r == InsertAtResult(list, x, i)
     IN list' = r.list /\ Record("insert_at", i, r.result)
  /\ UNCHANGED map

GetAtStep(i) ==
  /\ Live
  /\ Record("get_at", i, GetAtResult(list, i))
  /\ UNCHANGED <<list, map>>

(* ListObjUtils::push_back: a copy of the value is appended.             *)
PushBackStep(x) ==
  /\ Live /\ Len(list) < MaxLen
  /\ list' = Append(list, x)
  /\ Record("push_back", 0, "ok")
  /\ UNCHANGED map

(* ListObjUtils::reverse: std::reverse in place.                         *)
ReverseStep ==
  /\ Live
  /\ list' = Reverse(list)
  /\ Record("reverse", 0, "ok")
  /\ UNCHANGED map

(* ListObjUtils::remove(n): a negative count returns at once; a count    *)
(* from 0 to the size erases that many leading elements; every count not   *)
(* negative then reaches the throw.                                        *)
RemoveStep(n) ==
  /\ Live
  /\ list' = IF n >= 0 /\ n <= Len(list) THEN SubSeq(list, n + 1, Len(list)) ELSE list
  /\ Record("remove", n, IF n < 0 THEN "noop" ELSE "bad_arg")
  /\ UNCHANGED map

(* VariableUtils::compare of the list with another list of the model.    *)
CompareStep(other) ==
  /\ Live
  /\ Record("compare", IF CompareLists(list, other) = (list = other) THEN 1 ELSE 0, "ok")
  /\ UNCHANGED <<list, map>>

(* VariableUtils::setValue(var, val): only a value of the same variant    *)
(* alternative is assigned; a scalar for a list throws.                  *)
SetValueStep(x) ==
  /\ Live
  /\ IF x.t = "list" THEN list' = x.v /\ Record("setValue", Len(x.v), "ok")
     ELSE UNCHANGED list /\ Record("setValue", 0, "bad_arg")
  /\ UNCHANGED map

SetAtStep(i, x) ==
  /\ Live
  /\ LET r == SetAtResult(list, i, x)
     IN list' = r.list /\ Record("setValue", i, r.result)
  /\ UNCHANGED map

(* setValue(var, index, Variable&) on a list: the element becomes         *)
(* shared_ptr<Variable>(&val2), which takes ownership of the caller's     *)
(* object; it is deleted a second time (or freed though it is not on the *)
(* heap) when the element is dropped.  An index out of range throws       *)
(* first.                                                                  *)
SetAtVarStep(i, x) ==
  /\ Live
  /\ LET r == SetAtResult(list, i, x)
     IN list' = r.list
        /\ Record("setValueVar", i, IF r.result = "ok" THEN "ub" ELSE r.result)
  /\ UNCHANGED map

(* setValue(var, key, value) on a mapType with string key and value:       *)
(* orig[key] is assigned a fresh string.                               *)
SetKeyStep(k, x) ==
  /\ Live
  /\ map' = [j \in DOMAIN map \cup {k} |-> IF j = k THEN x ELSE map[j]]
  /\ Record("setKey", 0, "ok")
  /\ UNCHANGED list

(* VariableUtils::getWithKey: `*(a->find(key))` dereferences end() when    *)
(* the key is absent, and `*(a->end())` is dereferenced for the           *)
(* comparison whatever the key: every call is undefined.                  *)
GetWithKeyStep(k) ==
  /\ Live
  /\ Record("getWithKey", IF k \in DOMAIN map THEN 1 ELSE 0, "ub")
  /\ UNCHANGED <<list, map>>

(* VariableUtils::getVarWithKey on a list and an int: ListObjUtils::get_at. *)
GetVarWithKeyStep(i) ==
  /\ Live
  /\ Record("getVarWithKey", i, GetAtResult(list, i))
  /\ UNCHANGED <<list, map>>

ContainsStep(key) ==
  /\ Live
  /\ Record("contains",
            IF key.t = "string" /\ \E j \in 1..Len(list) : list[j] = key.v THEN 1 ELSE 0,
            ContainsResult(list, key))
  /\ UNCHANGED <<list, map>>

Next ==
  \/ \E i \in Indexes : RemoveAtStep(i) \/ GetAtStep(i) \/ RemoveStep(i)
  \/ \E i \in Indexes : GetVarWithKeyStep(i)
  \/ \E i \in Indexes, x \in Elems : SetAtStep(i, x) \/ SetAtVarStep(i, x)
  \/ \E x \in Values : SetValueStep(x)
  \/ \E k \in Keys, x \in Elems : SetKeyStep(k, x)
  \/ \E k \in Keys : GetWithKeyStep(k)
  \/ \E key \in Scalars : ContainsStep(key)
  \/ \E x \in Elems, i \in Indexes : InsertAtStep(x, i)
  \/ \E x \in Elems : PushBackStep(x)
  \/ ReverseStep
  \/ \E o \in Lists : CompareStep(o)

Spec == Init /\ [][Next]_vars

-----------------------------------------------------------------------------
TypeOK ==
  /\ list \in Lists
  /\ map \in UNION {[D -> Elems] : D \in SUBSET Keys}
  /\ outcome \in [op : {"none", "remove_at", "insert_at", "get_at", "push_back",
                        "reverse", "remove", "compare", "setValue", "setValueVar",
                        "setKey", "getWithKey", "getVarWithKey", "contains"},
                  arg : Int, result : Results]

(* No list operation a task or the loop machine performs has undefined    *)
(* behaviour: remove_at on an out-of-range index is a no-op (spec 8) and   *)
(* insert_at on one raises a range error (spec 2).                        *)
NoUndefinedBehaviour == outcome.result # "ub"
=============================================================================
