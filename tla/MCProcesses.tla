------------------------------- MODULE MCProcesses -------------------------------
(***************************************************************************)
(* Who starts and ends processes that the user asks for: headless agents,    *)
(* and the commands of a project.  They share no state, so a behaviour is of *)
(* one of them, `part', and the other keeps its first state, in which nothing *)
(* that must happen is enabled.                                             *)
(***************************************************************************)
EXTENDS MCAgentStreams, MCProjectRunner

VARIABLE part

processesVars == <<part, vars, runnerVars>>

MCInit == part \in {"agents", "jobs"} /\ Init /\ RunnerInit

MCNext ==
  /\ UNCHANGED part
  /\ \/ part = "agents" /\ Next /\ UNCHANGED runnerVars
     \/ part = "jobs" /\ RunnerNext /\ UNCHANGED vars

MCSpec == MCInit /\ [][MCNext]_processesVars /\ Fairness /\ RunnerFairness

\* A queued run gets a slot or is cancelled, and a command with a timeout ends.
ProcessesEnd == QueueMoves /\ TimeoutEnds
=============================================================================
