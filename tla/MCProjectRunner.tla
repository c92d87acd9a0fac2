--------------------------- MODULE MCProjectRunner ---------------------------
(* Small instances of ProjectRunner for TLC. *)
EXTENDS ProjectRunner, TLC

CONSTANTS d1, p1

\* The dev server has a project of its own.
Server == d1 :> p1
=============================================================================
