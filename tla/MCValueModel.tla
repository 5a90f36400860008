---------------------------- MODULE MCValueModel ----------------------------
(* Lists of up to three elements over two values, and every index from     *)
(* one past the size to minus twice the size (the bounds at which the      *)
(* range checks of remove_at, insert_at and get_at change their answer).  *)
EXTENDS ValueModel

MCElems == {"a", "b"}
MCMaxLen == 3
MCIndexes == -7..4
MCKeys == {"name", "weapon"}
=============================================================================
