----------------------------- MODULE RemoteChannel -----------------------------
(***************************************************************************)
(* The application and a chat outside it: what is sent there                *)
(* (remote-notifications/dispatcher.ts with delivery-store.ts), and the       *)
(* connection over which the chat is heard                                   *)
(* (remote-notifications/feishu-inbound/runtime.ts with client.ts).           *)
(*                                                                         *)
(* The settings may change while a connection is being made or undone, and    *)
(* the changes wait in line.  Events to send come twice, sending takes time   *)
(* and fails, and a reservation outlives a sending.  What is said in the      *)
(* messages, the statuses of a connection and the filters of events are left *)
(* out; what is heard goes to CompanionGateway.                             *)
(***************************************************************************)
EXTENDS Naturals, Sequences, FiniteSets

CONSTANTS
  Settings, Off,      \* settings that ask for a connection, and one that does not
  MaxChanges,         \* bound on changes of the settings
  Sends,              \* calls of dispatch
  Ttl, MaxSending,    \* the window of a reservation, and how long a sending takes: by
                      \* default 300 s, and twice 10 s at most
  MaxClock            \* bound on time

ASSUME RemoteAssumption ==
  /\ Off \notin Settings /\ MaxChanges \in Nat /\ MaxClock \in Nat
  /\ MaxSending \in Nat /\ Ttl \in Nat /\ MaxSending < Ttl

VARIABLES
  asked,      \* changes of the settings that wait, with the one under way
  last,       \* history: the settings that were followed last
  at,         \* how far the change under way is
  client, fingerprint, gateway,
  connected,  \* channels that are open, or being opened or closed
  channels,   \* channels made so far
  clock,
  sending,    \* calls of dispatch: their state and when they began
  reserved, sent,     \* until when the event counts as being sent and as sent, 0 for neither
  delivered   \* history: when the event last arrived, 0 for never

inVars == <<asked, last, at, client, fingerprint, gateway, connected, channels>>
outVars == <<clock, sending, reserved, sent, delivered>>
remoteVars == <<inVars, outVars>>

NoSend == [at |-> "idle", since |-> 0]
RemoteInit ==
  /\ asked = <<>> /\ last = Off /\ at = "idle"
  /\ client = 0 /\ fingerprint = Off /\ gateway = 0 /\ connected = {} /\ channels = 0
  /\ clock = 1 /\ sending = [s \in Sends |-> NoSend] /\ reserved = 0 /\ sent = 0 /\ delivered = 0
-----------------------------------------------------------------------------
\* reconfigure and stop put an operation in line.
Reconfigure(want) ==
  /\ channels + Len(asked) < MaxChanges /\ asked' = Append(asked, want)
  /\ UNCHANGED <<last, at, client, fingerprint, gateway, connected, channels, outVars>>
Wanted == Head(asked)
Reaches(stage) == at' = stage /\ UNCHANGED <<asked, last>>
OperationEnds == at' = "idle" /\ asked' = Tail(asked) /\ last' = Wanted

\* The client that is connected serves these settings.
Serves == Wanted # Off /\ client # 0 /\ fingerprint = Wanted
\* stopClient: nothing of the client is heard any more, and its channel is closed.
FollowSettings ==
  /\ asked # <<>> /\ at = "idle"
  /\ IF Serves THEN OperationEnds /\ UNCHANGED <<client, fingerprint>>
               ELSE Reaches("stopping") /\ client' = 0 /\ fingerprint' = Off
  /\ UNCHANGED <<gateway, connected, channels, outVars>>
\* Mutant: it is left open.
LeftOpen == UNCHANGED connected
Disconnect == connected' = connected \ {gateway}
ClientStopped ==
  /\ at = "stopping" /\ Disconnect /\ UNCHANGED outVars
  /\ IF Wanted = Off
       THEN OperationEnds /\ gateway' = 0 /\ UNCHANGED <<client, fingerprint, channels>>
       ELSE /\ Reaches("opening") /\ channels' = channels + 1 /\ gateway' = channels + 1
            /\ fingerprint' = Wanted /\ UNCHANGED client
ChannelMade ==
  /\ at = "opening" /\ Reaches("connecting") /\ client' = channels /\ connected' = connected \cup {channels}
  /\ UNCHANGED <<fingerprint, gateway, channels, outVars>>
Connected ==
  /\ at = "connecting" /\ OperationEnds
  /\ UNCHANGED <<client, fingerprint, gateway, connected, channels, outVars>>
\* The channel cannot be made, or not be opened.
ConnectFails ==
  /\ at \in {"opening", "connecting"} /\ Reaches("undoing") /\ client' = 0 /\ fingerprint' = Off
  /\ UNCHANGED <<gateway, connected, channels, outVars>>
NoGateway == gateway' = 0
ConnectUndone ==
  /\ at = "undoing" /\ OperationEnds /\ Disconnect /\ NoGateway
  /\ UNCHANGED <<client, fingerprint, channels, outVars>>
-----------------------------------------------------------------------------
\* prune, then reserve.
Taken == reserved > clock \/ sent > clock
Pruned(until) == IF until <= clock THEN 0 ELSE until
Dispatch(s) ==
  /\ sending[s].at = "idle" /\ UNCHANGED <<inVars, clock, delivered>>
  /\ sent' = Pruned(sent)
  /\ IF Taken THEN reserved' = Pruned(reserved) /\ UNCHANGED sending
     ELSE /\ reserved' = clock + Ttl
          /\ sending' = [sending EXCEPT ![s] = [at |-> "sending", since |-> clock]]
\* markSent.
SendSucceeds(s) ==
  /\ sending[s].at = "sending" /\ reserved' = 0 /\ sent' = clock + Ttl
  /\ sending' = [sending EXCEPT ![s] = NoSend] /\ delivered' = clock /\ UNCHANGED <<inVars, clock>>
\* clearReservation.
SendFails(s) ==
  /\ sending[s].at = "sending" /\ reserved' = 0
  /\ sending' = [sending EXCEPT ![s] = NoSend] /\ UNCHANGED <<inVars, clock, sent, delivered>>
\* A sending ends within its timeout.
ClockTicks ==
  /\ clock < MaxClock /\ \A s \in Sends : sending[s].at = "sending" => clock < sending[s].since + MaxSending
  /\ clock' = clock + 1 /\ UNCHANGED <<inVars, sending, reserved, sent, delivered>>

InStep == FollowSettings \/ ClientStopped \/ ChannelMade \/ Connected \/ ConnectFails \/ ConnectUndone
RemoteNext ==
  \/ \E want \in Settings \cup {Off} : Reconfigure(want)
  \/ InStep
  \/ \E s \in Sends : Dispatch(s) \/ SendSucceeds(s) \/ SendFails(s)
  \/ ClockTicks
RemoteSpec == RemoteInit /\ [][RemoteNext]_remoteVars
-----------------------------------------------------------------------------
\* However the settings change, one channel is open at most, so that nothing said in the
\* chat is heard twice (feishu-inbound/runtime.ts:69, 75, client.ts:56-60).
RemoteOneChannel == Cardinality(connected) <= 1

\* Between two changes, the client, its gateway and its channel are of one connection,
\* and it serves the settings that were followed last (feishu-inbound/runtime.ts:74-97).
RemoteFollows ==
  at = "idle" =>
    /\ gateway = client
    /\ connected = IF client = 0 THEN {} ELSE {client}
    /\ client # 0 => fingerprint = last /\ last # Off

\* Two calls never send the event at a time, and one that arrived is not sent again
\* within the window, while a sending takes less than it
\* (delivery-store.ts:5-13, dispatcher.ts:44-66).
RemoteSentOnce ==
  /\ Cardinality({s \in Sends : sending[s].at = "sending"}) <= 1
  /\ delivered # 0 /\ clock < delivered + Ttl => \A s \in Sends : sending[s].at = "idle"

\* One channel, the one of the settings, and one delivery of an event.
RemoteSafe == RemoteOneChannel /\ RemoteFollows /\ RemoteSentOnce
=============================================================================
