---------------------------- MODULE MCTaskState ----------------------------
(* Small instances of TaskState for TLC. *)
EXTENDS TaskState

HandlerSymmetry == Permutations(Handlers) \cup Permutations(Tasks)
=============================================================================
