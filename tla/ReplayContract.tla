--------------------------- MODULE ReplayContract ----------------------------
(***************************************************************************)
(* What the replay protection of remote control promises its callers, with *)
(* no store, clock, file or promise chain: an event's operation is started *)
(* once, a crash may lose it but never restart it, and a caller is told    *)
(* the operation's own result or something that claims no result.          *)
(***************************************************************************)
CONSTANTS Events,   \* what has one operation
          Callers   \* who asks for it

VARIABLES eventOf,  \* eventOf[c]: the event caller c asks for, never changes
          status,   \* what became of the operation of each event
          told      \* what each caller was told

contractVars == <<eventOf, status, told>>

Settled == {"ok", "denied"}
Disclaimers == {"indeterminate", "collision", "failed"}

ContractInit ==
  /\ eventOf \in [Callers -> Events]
  /\ status = [e \in Events |-> "new"]
  /\ told = [c \in Callers |-> "none"]

Begin(e) ==
  /\ status[e] = "new"
  /\ status' = [status EXCEPT ![e] = "running"]
  /\ UNCHANGED <<eventOf, told>>

End(e, r) ==
  /\ status[e] = "running"
  /\ status' = [status EXCEPT ![e] = r]
  /\ UNCHANGED <<eventOf, told>>

\* The process dies under the operations that are running.
Lose ==
  /\ \E e \in Events : status[e] = "running"
  /\ status' = [e \in Events |->
                  IF status[e] = "running" THEN "lost" ELSE status[e]]
  /\ UNCHANGED <<eventOf, told>>

\* Callers that were waiting are answered together.
Tell(waiting) ==
  /\ waiting # {}
  /\ \A c \in waiting : told[c] = "none"
  /\ \E answer \in [waiting -> Settled \cup Disclaimers] :
       /\ \A c \in waiting :
            answer[c] \in Settled => answer[c] = status[eventOf[c]]
       /\ told' = [c \in Callers |->
                     IF c \in waiting THEN answer[c] ELSE told[c]]
  /\ UNCHANGED <<eventOf, status>>

ContractNext ==
  \/ \E e \in Events : Begin(e) \/ \E r \in Settled : End(e, r)
  \/ Lose
  \/ \E waiting \in SUBSET Callers : Tell(waiting)

Contract == ContractInit /\ [][ContractNext]_contractVars
=============================================================================
