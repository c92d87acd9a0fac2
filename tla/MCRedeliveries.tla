----------------------------- MODULE MCRedeliveries -----------------------------
(***************************************************************************)
(* What may come again, or be cut short, and must be done or recorded once,  *)
(* whole or not at all: commands of the companion, observations of the work   *)
(* of agents, and approvals of facts.  They share no state, so a behaviour is *)
(* of one of them, `part', and the others keep their first state.            *)
(***************************************************************************)
EXTENDS MCCompanionDedupe, ObservationStore, FactReview

CONSTANTS v1, v2, v3, f1, f2, f3, o1, o2, x1, x2

VARIABLE part

redeliveryVars == <<part, vars, obsVars, factVars>>

\* Two events of the first month, one of the second.
EventMonths == v1 :> 1 @@ v2 :> 1 @@ v3 :> 2

\* A fact, its correction, which rests on nothing but the user's word, and a fact that says
\* again what the first said.
FactEvidence == f1 :> {o1} @@ f2 :> {} @@ f3 :> {o2}
FactSays == f1 :> x1 @@ f2 :> x2 @@ f3 :> x1
FactRivals == {{x1, x2}}
FactCorrects == f1 :> NoFact @@ f2 :> f1 @@ f3 :> NoFact

MCInit ==
  /\ part \in {"commands", "observations", "facts"} /\ Init /\ ObsInit /\ FactInit
  /\ part # "commands" => \A d \in Deliveries : req[d] = CHOOSE r \in Request : TRUE

MCNext ==
  /\ UNCHANGED part
  /\ \/ part = "commands" /\ Next /\ UNCHANGED <<obsVars, factVars>>
     \/ part = "observations" /\ ObsNext /\ UNCHANGED <<vars, factVars>>
     \/ part = "facts" /\ FactNext /\ UNCHANGED <<vars, obsVars>>

MCSpec == MCInit /\ [][MCNext]_redeliveryVars

\* Deliveries and callers are interchangeable.
Symmetric == Permutations(Deliveries) \cup Permutations(Callers)
=============================================================================
