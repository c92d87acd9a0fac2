------------------------------- MODULE MCSessions -------------------------------
(***************************************************************************)
(* What the application keeps of the work of agents: the ledger of sessions, *)
(* and the automatic review of notes that commits change.  They share no     *)
(* state, so a behaviour is of one of them, `part', and the other keeps its  *)
(* first state.                                                             *)
(***************************************************************************)
EXTENDS Sessions, GitReview, TLC

VARIABLE part

keptVars == <<part, sessVars, reviewVars>>

MCInit ==
  /\ part \in {"sessions", "review"}
  /\ SessInit /\ GitInit /\ (part # "sessions" => ~corrupt)

MCNext ==
  /\ UNCHANGED part
  /\ \/ part = "sessions" /\ SessNext /\ UNCHANGED reviewVars
     \/ part = "review" /\ GitNext /\ UNCHANGED sessVars

MCSpec == MCInit /\ [][MCNext]_keptVars

\* Conversations and notes are interchangeable.
Symmetric == Permutations(Convs) \cup Permutations(Notes)
=============================================================================
