-------------------------- MODULE MCCompanionGateway --------------------------
(***************************************************************************)
(* Conversations with the application: the commands that come from a chat   *)
(* of a phone, and the chat of its own window.  They share no state, so a    *)
(* behaviour is of one of them, `part', and the other keeps its first state. *)
(***************************************************************************)
EXTENDS CompanionGateway, JanusChat, TLC

VARIABLE part

talkVars == <<part, vars, chatVars>>

MCInit ==
  /\ part \in {"gateway", "chat"} /\ Init /\ ChatInit
  /\ part = "chat" => mem = [c \in Chats |-> None]

MCNext ==
  /\ UNCHANGED part
  /\ \/ part = "gateway" /\ Next /\ UNCHANGED chatVars
     \/ part = "chat" /\ ChatNext /\ UNCHANGED vars

MCSpec == MCInit /\ [][MCNext]_talkVars

\* Events, chats and terminals are interchangeable.
Names == Permutations(Requests) \cup Permutations(Chats) \cup Permutations(Terminals)
=============================================================================
