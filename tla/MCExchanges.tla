------------------------------ MODULE MCExchanges ------------------------------
(***************************************************************************)
(* Exchanges with what is outside the application: the notes that a model    *)
(* proposes to change and the user decides on, the messages of a chat, the   *)
(* phones that pair, and the process that relays to the providers of models. *)
(* They share no state, so a behaviour is of one of them, `part', and the      *)
(* others keep their first state.                                           *)
(***************************************************************************)
EXTENDS Maintenance, RemoteChannel, MobileHost, CpaRuntime, TLC

VARIABLE part

exchangeVars == <<part, maintVars, remoteVars, mobileVars, cpaVars>>

MCInit ==
  /\ part \in {"maintenance", "remote", "phone", "relay"}
  /\ MaintInit /\ RemoteInit /\ HostInit /\ CpaInit /\ (part # "relay" => current = 0)

MCNext ==
  /\ UNCHANGED part
  /\ \/ part = "maintenance" /\ MaintNext /\ UNCHANGED <<remoteVars, mobileVars, cpaVars>>
     \/ part = "remote" /\ RemoteNext /\ UNCHANGED <<maintVars, mobileVars, cpaVars>>
     \/ part = "phone" /\ HostNext /\ UNCHANGED <<maintVars, remoteVars, cpaVars>>
     \/ part = "relay" /\ CpaNext /\ UNCHANGED <<maintVars, remoteVars, mobileVars>>

MCSpec == MCInit /\ [][MCNext]_exchangeVars
=============================================================================
