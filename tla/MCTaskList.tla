----------------------------- MODULE MCTaskList -----------------------------
(* Two lists and four tasks: a task can leave the front, the middle and the  *)
(* back of a ring, and a ring can be emptied while the other is not.         *)
EXTENDS TaskList
=============================================================================
