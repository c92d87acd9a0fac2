---------------------------- MODULE MCAgentStreams ----------------------------
(* Small instances of AgentStreams for TLC. *)
EXTENDS AgentStreams, TLC

\* Runs are interchangeable.
Agents == Permutations(Runs)
=============================================================================
