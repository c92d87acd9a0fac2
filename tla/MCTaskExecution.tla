---------------------------- MODULE MCTaskExecution ----------------------------
(* Small instances of TaskExecution for TLC. *)
EXTENDS TaskExecution, TLC

\* Calls of runExecute are interchangeable.
Calls == Permutations(Execs)
=============================================================================
