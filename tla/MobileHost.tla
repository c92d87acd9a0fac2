------------------------------- MODULE MobileHost -------------------------------
(***************************************************************************)
(* Remote control by a phone (remote/mobile-host.ts): a start that takes      *)
(* many steps, a stop that may come at each of them, and a timer that         *)
(* replaces the host a phone pairs with while the phones already paired keep *)
(* theirs.  A host is a hidden window with the session of its phones; a       *)
(* generation tells a start that it was stopped meanwhile.                   *)
(*                                                                         *)
(* What a phone does with its terminals (mobile-session.ts), the texts of the *)
(* status and the subscription to the output of terminals are left out, and *)
(* a pairing is one step: it is asked for and approved while its code is      *)
(* shown and has not expired.                                               *)
(***************************************************************************)
EXTENDS Naturals

CONSTANTS
  Phones,
  MaxStarts, MaxHosts,   \* bounds on starts, and on windows
  MaxHostUpsets          \* bound on stops, windows that close and changes of the feature

ASSUME HostAssumption == MaxStarts \in Nat /\ MaxHosts \in Nat /\ MaxHostUpsets \in Nat

VARIABLES
  generation, options,
  nowShown, hosts,        \* the host that is shown (current), 0 for none, and the windows that are open
  hostsMade, madeFor, devices,   \* windows made so far, their generation and their phones
  localSignal, servers, closing, \* the signal server, those that are open, those being closed
  timer,                 \* "off", "expiry" of the code shown, or "retry"
  start, starts,         \* startMobileHost: where it is, its generation, host, server, and what it read
  refresh,               \* refreshMobileQr
  feature, stopAsked,    \* the feature, and updates that have saved it as off and not stopped yet
  hostUpsets

hostsVars == <<nowShown, hosts, hostsMade, madeFor, devices>>
signalVars == <<localSignal, servers, closing>>
featureVars == <<feature, stopAsked>>
mobileVars == <<generation, options, hostsVars, signalVars, timer, start, starts, refresh, featureVars, hostUpsets>>

NoStart == [at |-> "idle", of |-> 0, host |-> 0, server |-> 0, allowed |-> FALSE]
NoRefresh == [at |-> "idle", of |-> 0, host |-> 0]
HostInit ==
  /\ generation = 0 /\ options = FALSE
  /\ nowShown = 0 /\ hosts = {} /\ hostsMade = 0 /\ madeFor = [h \in 1..MaxHosts |-> 0] /\ devices = [h \in 1..MaxHosts |-> {}]
  /\ localSignal = 0 /\ servers = {} /\ closing = {} /\ timer = "off"
  /\ start = NoStart /\ starts = 0 /\ refresh = NoRefresh
  /\ feature = TRUE /\ stopAsked = 0 /\ hostUpsets = 0
-----------------------------------------------------------------------------
\* stopMobileHost, up to the wait for its server.
ServerClosed == closing \cup ({localSignal} \ {0})
StopHost ==
  /\ generation' = generation + 1 /\ timer' = "off" /\ nowShown' = 0 /\ options' = FALSE /\ hosts' = {}
  /\ localSignal' = 0 /\ closing' = ServerClosed
  /\ UNCHANGED <<hostsMade, madeFor, devices, servers>>
SignalCloses(s) ==
  /\ s \in closing /\ closing' = closing \ {s} /\ servers' = servers \ {s}
  /\ UNCHANGED <<generation, options, hostsVars, localSignal, timer, start, starts, refresh, featureVars, hostUpsets>>

Upset == hostUpsets < MaxHostUpsets /\ hostUpsets' = hostUpsets + 1
\* The user stops it, or the application is about to quit.
UserStops == Upset /\ StopHost /\ UNCHANGED <<start, starts, refresh, featureVars>>
WindowCloses(h) ==
  /\ h \in hosts /\ Upset /\ UNCHANGED <<start, starts, refresh, featureVars>>
  /\ IF nowShown = h THEN StopHost
     ELSE hosts' = hosts \ {h} /\ UNCHANGED <<generation, options, nowShown, hostsMade, madeFor, devices, signalVars, timer>>
FeatureChanged(on) ==
  /\ Upset /\ feature' = on /\ stopAsked' = stopAsked + (IF on THEN 0 ELSE 1)
  /\ UNCHANGED <<generation, options, hostsVars, signalVars, timer, start, starts, refresh>>
FeatureStops ==
  /\ stopAsked > 0 /\ stopAsked' = stopAsked - 1 /\ StopHost
  /\ UNCHANGED <<start, starts, refresh, feature, hostUpsets>>
-----------------------------------------------------------------------------
\* Mutant: a start does not notice that it was stopped.
NeverStopped(of) == FALSE
Stopped(of) == of # generation
StartMoves(stage) == start' = [start EXCEPT !.at = stage]
Undone == StopHost /\ start' = [start EXCEPT !.at = "undoing", !.server = localSignal]
StartFails == Undone

StartHost ==
  /\ start.at = "idle" /\ starts < MaxStarts /\ starts' = starts + 1 /\ StopHost
  /\ start' = [NoStart EXCEPT !.at = "stopping", !.server = localSignal]
  /\ UNCHANGED <<refresh, featureVars, hostUpsets>>
\* Its own stop is over: only now is the generation read, so a stop since is not noticed.
StartStopped ==
  /\ start.at = "stopping" /\ start.server \notin servers
  /\ start' = [start EXCEPT !.at = "checking", !.of = generation, !.server = 0]
  /\ UNCHANGED <<generation, options, hostsVars, signalVars, timer, starts, refresh, featureVars, hostUpsets>>
FeatureRead ==
  /\ \/ start.at = "checking" /\ start' = [start EXCEPT !.at = "checked", !.allowed = feature]
     \/ start.at = "confirming" /\ start' = [start EXCEPT !.at = "confirmed", !.allowed = feature]
  /\ UNCHANGED <<generation, options, hostsVars, signalVars, timer, starts, refresh, featureVars, hostUpsets>>
\* The workspace is resolved; a server of its own is opened unless one is configured.
StartResolved ==
  /\ start.at = "checked" /\ UNCHANGED <<starts, refresh, featureVars, hostUpsets>>
  /\ \/ StartFails
     \/ /\ start.allowed /\ ~Stopped(start.of) /\ UNCHANGED <<generation, hostsVars, signalVars, timer>>
        /\ \/ StartMoves("signalling") /\ UNCHANGED options
           \/ StartMoves("making") /\ options' = TRUE
\* The port is free once earlier servers are closed.
SignalOpens ==
  /\ start.at = "signalling" /\ UNCHANGED <<starts, refresh, featureVars, hostUpsets>>
  /\ \/ StartFails
     \/ /\ servers = {} /\ localSignal' = starts /\ servers' = {starts} /\ options' = TRUE
        /\ StartMoves("making") /\ UNCHANGED <<generation, hostsVars, closing, timer>>

\* createHost: the window, once the code is drawn.
WindowMade(of) ==
  /\ hostsMade < MaxHosts /\ hostsMade' = hostsMade + 1 /\ hosts' = hosts \cup {hostsMade + 1}
  /\ madeFor' = [madeFor EXCEPT ![hostsMade + 1] = of]
  /\ UNCHANGED <<generation, options, nowShown, devices, signalVars, timer>>
StartMade ==
  /\ start.at = "making" /\ UNCHANGED <<starts, refresh, featureVars, hostUpsets>>
  /\ \/ StartFails
     \/ ~Stopped(start.of) /\ WindowMade(start.of) /\ start' = [start EXCEPT !.at = "loading", !.host = hostsMade + 1]
StartHostLoaded ==
  /\ start.at = "loading" /\ UNCHANGED <<starts, refresh, featureVars, hostUpsets>>
  /\ \/ StartFails
     \/ /\ start.host \in hosts /\ ~Stopped(start.of) /\ StartMoves("confirming")
        /\ UNCHANGED <<generation, options, hostsVars, signalVars, timer>>
StartConfirmed ==
  /\ start.at = "confirmed" /\ UNCHANGED <<starts, refresh, featureVars, hostUpsets>>
  /\ IF start.allowed
       THEN /\ nowShown' = start.host /\ timer' = "expiry" /\ start' = NoStart
            /\ UNCHANGED <<generation, options, hosts, hostsMade, madeFor, devices, signalVars>>
       ELSE StartFails
StartUndone ==
  /\ start.at = "undoing" /\ start.server \notin servers /\ start' = NoStart
  /\ UNCHANGED <<generation, options, hostsVars, signalVars, timer, starts, refresh, featureVars, hostUpsets>>
-----------------------------------------------------------------------------
RefreshDue ==
  /\ timer # "off" /\ timer' = "off"
  /\ IF options /\ refresh.at = "idle" THEN refresh' = [at |-> "making", of |-> generation, host |-> 0] ELSE UNCHANGED refresh
  /\ UNCHANGED <<generation, options, hostsVars, signalVars, start, starts, featureVars, hostUpsets>>
RefreshFails ==
  /\ refresh' = NoRefresh /\ hosts' = hosts \ {refresh.host}
  /\ timer' = IF refresh.of = generation /\ options THEN "retry" ELSE timer
  /\ UNCHANGED <<generation, options, nowShown, hostsMade, madeFor, devices, signalVars>>
RefreshMade ==
  /\ refresh.at = "making" /\ UNCHANGED <<start, starts, featureVars, hostUpsets>>
  /\ \/ RefreshFails
     \/ ~Stopped(refresh.of) /\ WindowMade(refresh.of) /\ refresh' = [refresh EXCEPT !.at = "loading", !.host = hostsMade + 1]
Replaced == {h \in {nowShown} : h # 0 /\ devices[h] = {}}
RefreshLoaded ==
  /\ refresh.at = "loading" /\ UNCHANGED <<start, starts, featureVars, hostUpsets>>
  /\ \/ RefreshFails
     \/ /\ refresh.host \in hosts /\ ~Stopped(refresh.of)
        /\ nowShown' = refresh.host /\ hosts' = hosts \ Replaced /\ timer' = "expiry" /\ refresh' = NoRefresh
        /\ UNCHANGED <<generation, options, hostsMade, madeFor, devices, signalVars>>

\* approveMobile, for a phone that asked with the code shown.
Approve(p) ==
  /\ nowShown \in hosts /\ timer = "expiry" /\ p \notin devices[nowShown]
  /\ devices' = [devices EXCEPT ![nowShown] = @ \cup {p}]
  /\ UNCHANGED <<generation, options, nowShown, hosts, hostsMade, madeFor, signalVars, timer, start, starts, refresh, featureVars, hostUpsets>>
\* revokeMobile: a host that is not shown goes with its last phone.
Revoked(p) == [h \in 1..MaxHosts |-> IF h \in hosts THEN devices[h] \ {p} ELSE devices[h]]
Revoke(p) ==
  /\ \E h \in hosts : p \in devices[h]
  /\ devices' = Revoked(p) /\ hosts' = {h \in hosts : h = nowShown \/ Revoked(p)[h] # {}}
  /\ UNCHANGED <<generation, options, nowShown, hostsMade, madeFor, signalVars, timer, start, starts, refresh, featureVars, hostUpsets>>

StartStep ==
  \/ StartHost \/ StartStopped \/ FeatureRead \/ StartResolved \/ SignalOpens
  \/ StartMade \/ StartHostLoaded \/ StartConfirmed \/ StartUndone
HostNext ==
  \/ StartStep \/ UserStops \/ FeatureStops
  \/ \E on \in BOOLEAN : FeatureChanged(on)
  \/ \E s \in servers : SignalCloses(s)
  \/ \E h \in hosts : WindowCloses(h)
  \/ RefreshDue \/ RefreshMade \/ RefreshLoaded
  \/ \E p \in Phones : Approve(p) \/ Revoke(p)
HostSpec == HostInit /\ [][HostNext]_mobileVars
-----------------------------------------------------------------------------
HostTypeOK ==
  /\ generation \in Nat /\ options \in BOOLEAN /\ nowShown \in 0..MaxHosts /\ hostsMade \in 0..MaxHosts /\ hosts \subseteq 1..hostsMade
  /\ madeFor \in [1..MaxHosts -> Nat] /\ devices \in [1..MaxHosts -> SUBSET Phones]
  /\ localSignal \in 0..MaxStarts /\ servers \subseteq 1..MaxStarts /\ closing \subseteq servers
  /\ timer \in {"off", "expiry", "retry"} /\ refresh.host \in 0..hostsMade /\ start.host \in 0..hostsMade
  /\ refresh.at \in {"idle", "making", "loading"} /\ feature \in BOOLEAN /\ stopAsked \in 0..MaxHostUpsets
  /\ start.at \in {"idle", "stopping", "checking", "checked", "signalling", "making", "loading", "confirming", "confirmed", "undoing"}

\* No host outlives the stop of the start it was made for, whichever step the stop fell
\* into, and a signal server that is open is the one in use or is being closed
\* (mobile-host.ts:58-64, 109, 128, 142).
HostOfStart == (\A h \in hosts : madeFor[h] = generation) /\ servers \subseteq closing \cup {localSignal}

\* Once nothing is started or replaced, a hidden window that is open is the one shown or
\* has phones of its own, and without options there is neither a window nor a server
\* (mobile-host.ts:81, 84-90, 130, 158, 171).
HostNoneHidden ==
  start.at = "idle" /\ refresh.at = "idle" =>
    /\ \A h \in hosts : h = nowShown \/ devices[h] # {}
    /\ ~options => hosts = {} /\ localSignal = 0

\* With the feature off, its update over and no start under way, nothing is reachable
\* from outside or remains to be closed (settings-handlers.ts:111-115, mobile-host.ts:139, 154).
HostOffStays ==
  ~feature /\ stopAsked = 0 /\ start.at = "idle" => hosts = {} /\ localSignal = 0 /\ ~options

\* A host with phones goes only when it is stopped, its window closes or its phones are
\* revoked: a new code takes none from the phones that are paired (mobile-host.ts:71).
HostSurvives ==
  [][\A h \in hosts \ hosts' : generation' # generation \/ devices'[h] = {} \/ WindowCloses(h)]_mobileVars

\* Hosts and signal servers belong to the start that is on, and no phone loses its own.
HostSafe ==
  [](HostTypeOK /\ HostOfStart /\ HostNoneHidden /\ HostOffStays) /\ HostSurvives
=============================================================================
