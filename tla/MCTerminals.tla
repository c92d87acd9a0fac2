------------------------------ MODULE MCTerminals ------------------------------
(***************************************************************************)
(* What happens around a terminal: the life of its id, the turns of the     *)
(* agent in it, the changes that each turn made, and what its session        *)
(* consumes.  They share no state here, so a behaviour is of one of them, `part', and the others keep their *)
(* first state, in which nothing of them is enabled.                        *)
(***************************************************************************)
EXTENDS AgentHooks, Terminals, TurnChanges, UsageLedger, TLC

CONSTANTS a, b

VARIABLE part

PromptsOf == a :> 2 @@ b :> 0

terminalsVars == <<part, hookVars, termVars, trackVars, usageVars>>

MCInit ==
  /\ part \in {"hooks", "terminal", "turns", "usage"}
  /\ HookInit /\ TermInit /\ TrackInit
  /\ UsageInit /\ (part # "usage" => engine = "codex")

MCNext ==
  /\ UNCHANGED part
  /\ \/ part = "hooks" /\ HookNext /\ UNCHANGED <<termVars, trackVars, usageVars>>
     \/ part = "terminal" /\ TermNext /\ UNCHANGED <<hookVars, trackVars, usageVars>>
     \/ part = "turns" /\ TrackNext /\ UNCHANGED <<hookVars, termVars, usageVars>>
     \/ part = "usage" /\ UsageNext /\ UNCHANGED <<hookVars, termVars, trackVars>>

\* Nothing that must happen is enabled in the first state of a part.
MCSpec == MCInit /\ [][MCNext]_terminalsVars /\ HookFairness /\ TermFairness /\ TrackFairness /\ UsageFairness

\* Aborts are seen, turns are published, ids are free again and usage is booked, in the end.
TerminalsSettle == HookAbortsSeen /\ TurnDiffsEnd /\ TermUnlocks /\ UsageCatchesUp
=============================================================================
