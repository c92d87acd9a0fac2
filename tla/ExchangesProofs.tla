---------------------------- MODULE ExchangesProofs ----------------------------
(***************************************************************************)
(* Theorems about what JanusX exchanges with what is outside of it, for any  *)
(* number of the messages, calls, notes and failures that the components    *)
(* name. Of RemoteChannel: one channel, that of the settings followed last, *)
(* and one delivery of an event. Of Maintenance: no change of a note        *)
(* without a record, from bytes that were not seen, or once it was          *)
(* withdrawn. Of MobileHost: nothing stays open past the start it belongs   *)
(* to. Of CpaRuntime: one child, of a version that is on disk.              *)
(***************************************************************************)
EXTENDS RemoteChannel, Maintenance, MobileHost, CpaRuntime, FiniteSetTheorems, SequenceTheorems, Integers, TLAPS
-----------------------------------------------------------------------------
(***************************************************************************)
(* The messages of a chat. The invariant says what is open at each wait of *)
(* a change of the settings.                                               *)
(***************************************************************************)

Choices == Settings \cup {Off}
Sending == [at : {"idle", "sending"}, since : Nat]

InTyped ==
  /\ asked \in Seq(Choices) /\ last \in Choices
  /\ at \in {"idle", "stopping", "opening", "connecting", "undoing"}
  /\ client \in Nat /\ gateway \in Nat /\ channels \in Nat
  /\ fingerprint \in Choices /\ connected \subseteq Nat
  /\ at # "idle" => asked # <<>>

\* What is open and known at each wait of a change.
AtIdle ==
  at = "idle" =>
    /\ gateway = client
    /\ connected = IF client = 0 THEN {} ELSE {client}
    /\ client # 0 => fingerprint = last /\ last # Off
AtStopping == at \in {"stopping", "undoing"} => client = 0 /\ connected \subseteq {gateway}
AtOpening ==
  at = "opening" =>
    /\ client = 0 /\ connected = {} /\ gateway = channels /\ channels # 0
    /\ fingerprint = Wanted /\ Wanted # Off
AtConnecting ==
  at = "connecting" =>
    /\ client = channels /\ gateway = channels /\ channels # 0 /\ connected = {channels}
    /\ fingerprint = Wanted /\ Wanted # Off

InInv == InTyped /\ AtIdle /\ AtStopping /\ AtOpening /\ AtConnecting

OutTyped ==
  /\ clock \in Nat /\ clock # 0 /\ sending \in [Sends -> Sending]
  /\ reserved \in Nat /\ sent \in Nat /\ delivered \in Nat

\* A call that sends began within the longest sending, and its reservation outlives that.
Reserved ==
  \A s \in Sends : sending[s].at = "sending" =>
    clock <= sending[s].since + MaxSending /\ reserved = sending[s].since + Ttl
OneSends ==
  \A s, u \in Sends : sending[s].at = "sending" /\ sending[u].at = "sending" => s = u
\* While an arrival is fresh it is on record, and nobody sends.
OnRecord ==
  delivered # 0 /\ clock < delivered + Ttl =>
    /\ sent = delivered + Ttl
    /\ \A s \in Sends : sending[s].at = "idle"

OutInv == OutTyped /\ Reserved /\ OneSends /\ OnRecord

RemoteInv == InInv /\ OutInv
-----------------------------------------------------------------------------
LEMMA RemoteInvInit == RemoteInit => RemoteInv
<1> SUFFICES ASSUME RemoteInit PROVE RemoteInv
  OBVIOUS
<1>1. InInv
  BY DEF RemoteInit, InInv, InTyped, AtIdle, AtStopping, AtOpening, AtConnecting, Choices
<1>2. OutInv
  BY DEF RemoteInit, OutInv, OutTyped, Reserved, OneSends, OnRecord, NoSend, Sending
<1> QED
  BY <1>1, <1>2 DEF RemoteInv

\* The two halves share no state.
LEMMA InFrame == InInv /\ UNCHANGED inVars => InInv'
BY DEF InInv, inVars, InTyped, AtIdle, AtStopping, AtOpening, AtConnecting, Wanted

LEMMA OutFrame == OutInv /\ UNCHANGED outVars => OutInv'
BY DEF OutInv, outVars, OutTyped, Reserved, OneSends, OnRecord
-----------------------------------------------------------------------------
(* The connection. *)

\* A change that waits does not move the one under way.
LEMMA ReconfigureStep ==
  ASSUME InInv, NEW want \in Choices, Reconfigure(want) PROVE InInv'
<1>1. asked' \in Seq(Choices) /\ asked' # <<>>
  BY DEF InInv, InTyped, Reconfigure
<1>2. asked # <<>> => Wanted' = Wanted
  BY DEF InInv, InTyped, Reconfigure, Wanted
<1> QED
  BY <1>1, <1>2 DEF Reconfigure, InInv, InTyped, AtIdle, AtStopping, AtOpening, AtConnecting

\* The end of a change takes it out of the line.
LEMMA Ends ==
  ASSUME InInv, asked # <<>>, OperationEnds
  PROVE asked' \in Seq(Choices) /\ last' \in Choices /\ at' = "idle"
BY DEF InInv, InTyped, OperationEnds, Wanted

LEMMA WantedChoice == ASSUME InInv, asked # <<>> PROVE Wanted \in Choices
BY DEF InInv, InTyped, Wanted

LEMMA FollowStep == ASSUME InInv, FollowSettings PROVE InInv'
<1>1. CASE Serves
  <2>1. OperationEnds /\ UNCHANGED <<client, fingerprint, gateway, connected, channels>>
    BY <1>1 DEF FollowSettings
  <2>2. asked' \in Seq(Choices) /\ last' \in Choices /\ at' = "idle"
    BY <2>1, Ends DEF FollowSettings
  <2> QED
    BY <1>1, <2>1, <2>2
    DEF FollowSettings, OperationEnds, Serves, InInv, InTyped, AtIdle, AtStopping, AtOpening, AtConnecting
<1>2. CASE ~Serves
  <2>1. /\ at' = "stopping" /\ client' = 0 /\ fingerprint' = Off
        /\ UNCHANGED <<asked, last, gateway, connected, channels>>
    BY <1>2 DEF FollowSettings, Reaches
  <2> QED
    BY <2>1 DEF FollowSettings, InInv, InTyped, AtIdle, AtStopping, AtOpening, AtConnecting, Choices
<1> QED
  BY <1>1, <1>2

LEMMA ClientStoppedStep == ASSUME InInv, ClientStopped PROVE InInv'
<1>1. asked # <<>> /\ connected' = {} /\ client = 0 /\ UNCHANGED client
  BY DEF InInv, InTyped, AtStopping, ClientStopped, Disconnect
<1>2. Wanted \in Choices
  BY <1>1, WantedChoice
<1>3. CASE Wanted = Off
  <2>1. OperationEnds /\ gateway' = 0 /\ UNCHANGED <<client, fingerprint, channels>>
    BY <1>3 DEF ClientStopped
  <2>2. asked' \in Seq(Choices) /\ last' \in Choices /\ at' = "idle"
    BY <1>1, <2>1, Ends
  <2> QED
    BY <1>1, <2>1, <2>2 DEF InInv, InTyped, AtIdle, AtStopping, AtOpening, AtConnecting
<1>4. CASE Wanted # Off
  <2>1. /\ at' = "opening" /\ channels' = channels + 1 /\ gateway' = channels + 1
        /\ fingerprint' = Wanted /\ UNCHANGED <<asked, last, client>>
    BY <1>4 DEF ClientStopped, Reaches
  <2>2. Wanted' = Wanted
    BY <2>1 DEF Wanted
  <2> QED
    BY <1>1, <1>2, <1>4, <2>1, <2>2 DEF InInv, InTyped, AtIdle, AtStopping, AtOpening, AtConnecting
<1> QED
  BY <1>3, <1>4

LEMMA ChannelMadeStep == ASSUME InInv, ChannelMade PROVE InInv'
<1>1. Wanted' = Wanted
  BY DEF ChannelMade, Reaches, Wanted
<1> QED
  BY <1>1 DEF ChannelMade, Reaches, InInv, InTyped, AtIdle, AtStopping, AtOpening, AtConnecting

LEMMA ConnectedStep == ASSUME InInv, Connected PROVE InInv'
<1>1. asked' \in Seq(Choices) /\ last' \in Choices /\ at' = "idle"
  BY Ends DEF Connected, InInv, InTyped
<1> QED
  BY <1>1 DEF Connected, OperationEnds, InInv, InTyped, AtIdle, AtStopping, AtOpening, AtConnecting

LEMMA ConnectFailsStep == ASSUME InInv, ConnectFails PROVE InInv'
BY DEF ConnectFails, Reaches, InInv, InTyped, AtIdle, AtStopping, AtOpening, AtConnecting, Choices

LEMMA ConnectUndoneStep == ASSUME InInv, ConnectUndone PROVE InInv'
<1>1. asked' \in Seq(Choices) /\ last' \in Choices /\ at' = "idle"
  BY Ends DEF ConnectUndone, InInv, InTyped
<1>2. connected' = {} /\ client = 0
  BY DEF ConnectUndone, Disconnect, InInv, AtStopping
<1> QED
  BY <1>1, <1>2 DEF ConnectUndone, NoGateway, InInv, InTyped, AtIdle, AtStopping, AtOpening, AtConnecting

LEMMA InStepKeeps == ASSUME InInv, InStep PROVE InInv'
BY FollowStep, ClientStoppedStep, ChannelMadeStep, ConnectedStep, ConnectFailsStep, ConnectUndoneStep
DEF InStep
-----------------------------------------------------------------------------
(* The sending of an event. *)

\* A reservation of a call that sends, and the record of a fresh arrival, are not pruned.
LEMMA TakenWhileSent ==
  ASSUME OutInv, \/ \E s \in Sends : sending[s].at = "sending"
                 \/ delivered # 0 /\ clock < delivered + Ttl
  PROVE Taken
<1>1. CASE \E s \in Sends : sending[s].at = "sending"
  <2>1. PICK s \in Sends : sending[s].at = "sending"
    BY <1>1
  <2>2. sending[s].since \in Nat
    BY <2>1 DEF OutInv, OutTyped, Sending
  <2>3. reserved > clock
    BY <2>1, <2>2, RemoteAssumption DEF OutInv, OutTyped, Reserved
  <2> QED
    BY <2>3 DEF Taken
<1>2. CASE delivered # 0 /\ clock < delivered + Ttl
  BY <1>2, RemoteAssumption DEF OutInv, OutTyped, OnRecord, Taken
<1> QED
  BY <1>1, <1>2

LEMMA PrunedFresh ==
  ASSUME NEW until \in Nat, OutTyped
  PROVE Pruned(until) \in Nat /\ (until > clock => Pruned(until) = until)
BY DEF Pruned, OutTyped

LEMMA DispatchStep ==
  ASSUME OutInv, NEW s \in Sends, Dispatch(s) PROVE OutInv'
<1>1. sent' \in Nat /\ (sent > clock => sent' = sent)
  BY PrunedFresh DEF Dispatch, OutInv, OutTyped
<1>2. UNCHANGED <<clock, delivered>>
  BY DEF Dispatch
<1>3. CASE Taken
  <2>1. UNCHANGED sending /\ reserved' \in Nat /\ (reserved > clock => reserved' = reserved)
    BY <1>3, PrunedFresh DEF Dispatch, OutInv, OutTyped
  <2>2. OutTyped'
    BY <1>1, <1>2, <2>1 DEF OutInv, OutTyped
  <2>3. Reserved'
    <3> SUFFICES ASSUME NEW u \in Sends, sending[u].at = "sending"
                 PROVE clock <= sending[u].since + MaxSending /\ reserved' = sending[u].since + Ttl
      BY <1>2, <2>1 DEF Reserved
    <3>1. sending[u].since \in Nat
      BY DEF OutInv, OutTyped, Sending
    <3>2. reserved > clock
      BY <3>1, RemoteAssumption DEF OutInv, OutTyped, Reserved
    <3> QED
      BY <2>1, <3>2 DEF OutInv, Reserved
  <2>4. OneSends'
    BY <2>1 DEF OutInv, OneSends
  <2>5. OnRecord'
    BY <1>1, <1>2, <2>1, RemoteAssumption DEF OutInv, OutTyped, OnRecord
  <2> QED
    BY <2>2, <2>3, <2>4, <2>5 DEF OutInv
<1>4. CASE ~Taken
  <2>1. /\ reserved' = clock + Ttl
        /\ sending' = [sending EXCEPT ![s] = [at |-> "sending", since |-> clock]]
    BY <1>4 DEF Dispatch
  <2>2. (\A u \in Sends : sending[u].at # "sending") /\ ~(delivered # 0 /\ clock < delivered + Ttl)
    BY <1>4, TakenWhileSent
  <2>3. OutTyped'
    BY <1>1, <1>2, <2>1, RemoteAssumption DEF OutInv, OutTyped, Sending
  <2>4. \A u \in Sends : sending'[u] = IF u = s THEN [at |-> "sending", since |-> clock] ELSE sending[u]
    BY <2>1 DEF OutInv, OutTyped
  <2>5. Reserved'
    BY <1>2, <2>1, <2>2, <2>4, RemoteAssumption DEF Reserved, OutInv, OutTyped
  <2>6. OneSends'
    BY <2>2, <2>4 DEF OneSends
  <2>7. OnRecord'
    BY <1>2, <2>2 DEF OnRecord
  <2> QED
    BY <2>3, <2>5, <2>6, <2>7 DEF OutInv
<1> QED
  BY <1>3, <1>4

\* Once a call has ended nobody sends.
LEMMA NobodyElse ==
  ASSUME OutInv, NEW s \in Sends, sending[s].at = "sending",
         sending' = [sending EXCEPT ![s] = NoSend]
  PROVE sending' \in [Sends -> Sending] /\ \A u \in Sends : sending'[u].at = "idle"
BY DEF OutInv, OutTyped, OneSends, NoSend, Sending

LEMMA SendSucceedsStep ==
  ASSUME OutInv, NEW s \in Sends, SendSucceeds(s) PROVE OutInv'
<1>1. sending' \in [Sends -> Sending] /\ \A u \in Sends : sending'[u].at = "idle"
  BY NobodyElse DEF SendSucceeds
<1>2. OutTyped'
  BY <1>1, RemoteAssumption DEF OutInv, OutTyped, SendSucceeds
<1> QED
  BY <1>1, <1>2 DEF SendSucceeds, OutInv, Reserved, OneSends, OnRecord

LEMMA SendFailsStep ==
  ASSUME OutInv, NEW s \in Sends, SendFails(s) PROVE OutInv'
<1>1. sending' \in [Sends -> Sending] /\ \A u \in Sends : sending'[u].at = "idle"
  BY NobodyElse DEF SendFails
<1>2. OutTyped'
  BY <1>1 DEF OutInv, OutTyped, SendFails
<1>3. ~(delivered # 0 /\ clock < delivered + Ttl)
  BY DEF SendFails, OutInv, OnRecord
<1> QED
  BY <1>1, <1>2, <1>3 DEF SendFails, OutInv, Reserved, OneSends, OnRecord

LEMMA ClockTicksStep == ASSUME OutInv, ClockTicks PROVE OutInv'
<1>1. OutTyped'
  BY DEF OutInv, OutTyped, ClockTicks
<1>2. Reserved'
  <2> SUFFICES ASSUME NEW s \in Sends, sending[s].at = "sending"
               PROVE clock + 1 <= sending[s].since + MaxSending /\ reserved = sending[s].since + Ttl
    BY DEF Reserved, ClockTicks
  <2>1. sending[s].since \in Nat
    BY DEF OutInv, OutTyped, Sending
  <2> QED
    BY <2>1, RemoteAssumption DEF ClockTicks, OutInv, OutTyped, Reserved
<1>3. OnRecord'
  BY RemoteAssumption DEF ClockTicks, OutInv, OutTyped, OnRecord
<1> QED
  BY <1>1, <1>2, <1>3 DEF ClockTicks, OutInv, OneSends
-----------------------------------------------------------------------------
LEMMA RemoteInvNext == RemoteInv /\ [RemoteNext]_remoteVars => RemoteInv'
<1> SUFFICES ASSUME RemoteInv, [RemoteNext]_remoteVars PROVE RemoteInv'
  OBVIOUS
<1> USE DEF RemoteInv
<1>1. ASSUME NEW want \in Settings \cup {Off}, Reconfigure(want) PROVE RemoteInv'
  BY <1>1, ReconfigureStep, OutFrame DEF Reconfigure, Choices
<1>2. CASE InStep
  <2>1. UNCHANGED outVars
    BY <1>2 DEF InStep, FollowSettings, ClientStopped, ChannelMade, Connected, ConnectFails, ConnectUndone
  <2> QED
    BY <1>2, <2>1, InStepKeeps, OutFrame
<1>3. ASSUME NEW s \in Sends, Dispatch(s) \/ SendSucceeds(s) \/ SendFails(s) PROVE RemoteInv'
  <2>1. UNCHANGED inVars
    BY <1>3 DEF Dispatch, SendSucceeds, SendFails
  <2>2. OutInv'
    BY <1>3, DispatchStep, SendSucceedsStep, SendFailsStep
  <2> QED
    BY <2>1, <2>2, InFrame
<1>4. CASE ClockTicks
  BY <1>4, ClockTicksStep, InFrame DEF ClockTicks
<1>5. CASE UNCHANGED remoteVars
  BY <1>5, InFrame, OutFrame DEF remoteVars
<1> QED
  BY <1>1, <1>2, <1>3, <1>4, <1>5 DEF RemoteNext

LEMMA AtMostOne ==
  ASSUME NEW S, \A x, y \in S : x = y PROVE Cardinality(S) <= 1
<1>1. CASE S = {}
  BY <1>1, FS_EmptySet
<1>2. ASSUME NEW x \in S PROVE Cardinality(S) <= 1
  <2>1. S = {x}
    BY <1>2
  <2> QED
    BY <2>1, FS_Singleton
<1> QED
  BY <1>1, <1>2

LEMMA RemoteInvSafe == RemoteInv => RemoteSafe
<1> SUFFICES ASSUME RemoteInv PROVE RemoteSafe
  OBVIOUS
<1>1. RemoteOneChannel
  <2>1. \A x, y \in connected : x = y
    BY DEF RemoteInv, InInv, InTyped, AtIdle, AtStopping, AtOpening, AtConnecting
  <2> QED
    BY <2>1, AtMostOne DEF RemoteOneChannel
<1>2. RemoteFollows
  BY DEF RemoteInv, InInv, AtIdle, RemoteFollows
<1>3. RemoteSentOnce
  <2>1. Cardinality({s \in Sends : sending[s].at = "sending"}) <= 1
    BY AtMostOne DEF RemoteInv, OutInv, OneSends
  <2> QED
    BY <2>1 DEF RemoteInv, OutInv, OnRecord, RemoteSentOnce
<1> QED
  BY <1>1, <1>2, <1>3 DEF RemoteSafe

\* However settings change and connections fail, one channel is open at most and it is that of
\* the settings followed last; and however often an event is dispatched it is sent once at a
\* time and not again while its arrival is fresh (feishu-inbound/runtime.ts:69-97,
\* delivery-store.ts:5-13).
THEOREM RemoteAlwaysSafe == RemoteSpec => []RemoteSafe
<1>1. RemoteInv /\ [RemoteNext]_remoteVars => RemoteInv'
  BY RemoteInvNext
<1> QED
  BY RemoteInvInit, <1>1, RemoteInvSafe, PTL DEF RemoteSpec
-----------------------------------------------------------------------------
(***************************************************************************)
(* Edits of notes. The invariant says what a task is in, what its numbers  *)
(* and bytes go back to, and that records come before changes.             *)
(***************************************************************************)

SeenBytes == [doc : Docs, seen : Nat]
AnyBytes == SeenBytes \cup {NoBytes}
Statuses == {"none", "active", "analyzing", "proposal-ready", "applying", "stale", "failed", "completed", "cancelled"}
TaskRecords == [status : Statuses, base : Nat, cs : Nat, bytes : AnyBytes]
ShownRecords == [id : Nat, cs : Nat, bytes : AnyBytes]
GenRecords == [at : {"idle", "load", "model"}, aborted : BOOLEAN]
ViewRecords == [task : Tasks, request : Nat \ {0}, cs : Nat \ {0}, bytes : SeenBytes, at : {"checkout", "files"}]
ApplyPlaces == {"idle", "load", "evidence", "checkout", "audit", "prepare", "reads", "write", "view", "record"}
ApplyRecords == [at : ApplyPlaces, cs : Nat, bytes : AnyBytes, base : Nat, shown : ShownRecords, record : Nat, withdrawn : BOOLEAN]
AuditRecords == [state : {"none", "pending", "applied"}, bytes : AnyBytes]
Appliers == Tasks \cup Undos

NotesTyped == content \in [Docs -> Nat] /\ rev \in Nat /\ numbered \in Nat /\ faults \in Nat
TasksTyped ==
  /\ task \in [Tasks -> TaskRecords] /\ shown \in [Tasks -> ShownRecords] /\ request \in [Tasks -> Nat]
  /\ gen \in [Tasks -> GenRecords] /\ viewing \subseteq ViewRecords
ApplyTyped == call \in [Appliers -> ApplyRecords]
AuditTyped ==
  /\ audit \in [1..MaxWrites -> AuditRecords] /\ landed \subseteq 1..MaxWrites
  /\ prepared \subseteq [record : 1..MaxWrites, base : Nat]

\* A task is in one thing at a time, and its status tells which, unless it was closed meanwhile.
Underway(k) == call[k].at \notin {"idle", "record"}
OneThing ==
  \A t \in Tasks :
    /\ Status(t) = "analyzing" => gen[t].at # "idle"
    /\ gen[t].at # "idle" => ~Underway(t) /\ (Status(t) = "analyzing" \/ (Closed(t) /\ gen[t].aborted))
    /\ Status(t) = "applying" => Underway(t) /\ call[t].cs = task[t].cs
    /\ Underway(t) => Status(t) = "applying" \/ Closed(t)

\* Proposals and previews have numbers of their own, and one that is prepared is not yet shown.
NumbersOwn ==
  /\ \A t \in Tasks : /\ task[t].cs <= numbered /\ shown[t].id <= numbered /\ shown[t].cs <= numbered
                      /\ call[t].shown.id <= numbered
  /\ \A v \in viewing : v.request <= numbered /\ v.cs <= numbered
  /\ \A v \in viewing, t \in Tasks : v.request # shown[t].id /\ v.request # call[t].shown.id
  /\ \A v, w \in viewing : v.request = w.request => v = w

\* What is shown, prepared or applied of a proposal are the bytes that it was made from.
BytesKept ==
  /\ \A t \in Tasks : /\ task[t].cs # 0 => task[t].bytes \in SeenBytes
                      /\ shown[t].id # 0 => shown[t].cs # 0 /\ shown[t].bytes \in SeenBytes
                      /\ shown[t].id # 0 /\ shown[t].cs = task[t].cs => shown[t].bytes = task[t].bytes
  /\ \A v \in viewing : v.cs = task[v.task].cs => v.bytes = task[v.task].bytes
  /\ \A k \in Appliers : call[k].at # "idle" => call[k].bytes \in SeenBytes /\ (k \in Tasks => call[k].shown.id # 0)
  /\ \A k \in Appliers : call[k].at \in {"reads", "write"} \/ (k \in Tasks /\ call[k].at \in {"load", "evidence", "checkout", "audit"}) =>
       call[k].shown.bytes = call[k].bytes

\* What was withdrawn is no longer what is shown, so that it is found out.
WithdrawnSeen ==
  \A t \in Tasks : call[t].withdrawn =>
    call[t].at \in {"load", "evidence", "checkout", "audit", "prepare", "reads"} /\ shown[t].id # call[t].shown.id

\* Records are there before changes, and complete only after them.
RecordsFirst ==
  /\ \A k \in Appliers : call[k].at \in {"prepare", "reads", "write", "view", "record"} =>
       call[k].record \in 1..MaxWrites /\ audit[call[k].record].state # "none"
  /\ \A k \in Appliers : call[k].at \in {"view", "record"} => call[k].record \in landed
  /\ \A r \in landed : audit[r].state # "none"
  /\ \A r \in 1..MaxWrites : audit[r].state = "applied" => r \in landed /\ audit[r].bytes \in SeenBytes
  /\ \A p \in prepared : audit[p.record].state = "applied"

MaintInv ==
  /\ NotesTyped /\ TasksTyped /\ ApplyTyped /\ AuditTyped
  /\ OneThing /\ NumbersOwn /\ BytesKept /\ WithdrawnSeen /\ RecordsFirst
-----------------------------------------------------------------------------
(* What assignments of one field do.                                        *)
LEMMA RecordsThere ==
  /\ NoTask \in TaskRecords /\ NoTask.status = "none" /\ NoTask.base = 0 /\ NoTask.cs = 0 /\ NoTask.bytes = NoBytes
  /\ NoShown \in ShownRecords /\ NoShown.id = 0 /\ NoShown.cs = 0 /\ NoShown.bytes = NoBytes
  /\ NoGen \in GenRecords /\ NoGen.at = "idle" /\ NoGen.aborted = FALSE
  /\ NoCall \in ApplyRecords /\ NoCall.at = "idle" /\ NoCall.cs = 0 /\ NoCall.bytes = NoBytes /\ NoCall.base = 0
  /\ NoCall.shown = NoShown /\ NoCall.record = 0 /\ NoCall.withdrawn = FALSE
  /\ NoRecord \in AuditRecords /\ NoRecord.state = "none" /\ NoRecord.bytes = NoBytes
<1>1. NoShown \in ShownRecords /\ NoShown.id = 0 /\ NoShown.cs = 0 /\ NoShown.bytes = NoBytes
  BY DEF NoShown, ShownRecords, AnyBytes
<1>2. NoTask \in TaskRecords /\ NoTask.status = "none" /\ NoTask.base = 0 /\ NoTask.cs = 0 /\ NoTask.bytes = NoBytes
  BY DEF NoTask, TaskRecords, AnyBytes, Statuses
<1>3. NoGen \in GenRecords /\ NoGen.at = "idle" /\ NoGen.aborted = FALSE
  BY DEF NoGen, GenRecords
<1>4. /\ NoCall \in ApplyRecords /\ NoCall.at = "idle" /\ NoCall.cs = 0 /\ NoCall.bytes = NoBytes /\ NoCall.base = 0
      /\ NoCall.shown = NoShown /\ NoCall.record = 0 /\ NoCall.withdrawn = FALSE
  BY <1>1 DEF NoCall, ApplyRecords, ApplyPlaces, AnyBytes
<1>5. NoRecord \in AuditRecords /\ NoRecord.state = "none" /\ NoRecord.bytes = NoBytes
  BY DEF NoRecord, AuditRecords, AnyBytes
<1> QED
  BY <1>1, <1>2, <1>3, <1>4, <1>5

LEMMA TaskSet ==
  ASSUME TasksTyped, NEW t \in Tasks, NEW new \in TaskRecords, task' = [task EXCEPT ![t] = new]
  PROVE  task' \in [Tasks -> TaskRecords] /\ task'[t] = new /\ \A u \in Tasks : u # t => task'[u] = task[u]
  BY DEF TasksTyped

LEMMA StatusSet ==
  ASSUME TasksTyped, NEW t \in Tasks, NEW s \in Statuses, To(t, s)
  PROVE  /\ task' \in [Tasks -> TaskRecords] /\ \A u \in Tasks : u # t => task'[u] = task[u]
         /\ task'[t].status = s /\ task'[t].base = task[t].base /\ task'[t].cs = task[t].cs /\ task'[t].bytes = task[t].bytes
<1> DEFINE new == [task[t] EXCEPT !.status = s]
<1>1. new \in TaskRecords /\ new.status = s /\ new.base = task[t].base /\ new.cs = task[t].cs /\ new.bytes = task[t].bytes
  BY DEF TasksTyped, TaskRecords
<1>2. task' = [task EXCEPT ![t] = new]
  BY DEF To
<1> HIDE DEF new
<1> QED
  BY <1>1, <1>2, TaskSet

LEMMA TaskEmptied ==
  ASSUME TasksTyped, NEW t \in Tasks, NEW s \in Statuses,
         task' = [task EXCEPT ![t] = [@ EXCEPT !.status = s, !.cs = 0, !.bytes = NoBytes]]
  PROVE  /\ task' \in [Tasks -> TaskRecords] /\ \A u \in Tasks : u # t => task'[u] = task[u]
         /\ task'[t].status = s /\ task'[t].base = task[t].base /\ task'[t].cs = 0
<1> DEFINE new == [task[t] EXCEPT !.status = s, !.cs = 0, !.bytes = NoBytes]
<1>1. new \in TaskRecords /\ new.status = s /\ new.base = task[t].base /\ new.cs = 0
  BY DEF TasksTyped, TaskRecords, AnyBytes
<1>2. task' = [task EXCEPT ![t] = new]
  OBVIOUS
<1> HIDE DEF new
<1> QED
  BY <1>1, <1>2, TaskSet

LEMMA CallSet ==
  ASSUME ApplyTyped, NEW k \in Appliers, NEW new \in ApplyRecords, call' = [call EXCEPT ![k] = new]
  PROVE  ApplyTyped' /\ call'[k] = new /\ \A j \in Appliers : j # k => call'[j] = call[j]
  BY DEF ApplyTyped

LEMMA StageSet ==
  ASSUME ApplyTyped, NEW k \in Appliers, NEW stage \in ApplyPlaces, GoesOn(k, stage)
  PROVE  /\ ApplyTyped' /\ \A j \in Appliers : j # k => call'[j] = call[j]
         /\ call'[k].at = stage /\ call'[k].cs = call[k].cs /\ call'[k].bytes = call[k].bytes /\ call'[k].base = call[k].base
         /\ call'[k].shown = call[k].shown /\ call'[k].record = call[k].record /\ call'[k].withdrawn = call[k].withdrawn
<1> DEFINE new == [call[k] EXCEPT !.at = stage]
<1>1. /\ new \in ApplyRecords /\ new.at = stage /\ new.cs = call[k].cs /\ new.bytes = call[k].bytes /\ new.base = call[k].base
      /\ new.shown = call[k].shown /\ new.record = call[k].record /\ new.withdrawn = call[k].withdrawn
  BY DEF ApplyTyped, ApplyRecords
<1>2. call' = [call EXCEPT ![k] = new]
  BY DEF GoesOn
<1> HIDE DEF new
<1> QED
  BY <1>1, <1>2, CallSet

LEMMA CallEnded ==
  ASSUME ApplyTyped, NEW k \in Appliers, CallOver(k)
  PROVE  ApplyTyped' /\ call'[k] = NoCall /\ \A j \in Appliers : j # k => call'[j] = call[j]
  BY CallSet, RecordsThere DEF CallOver

LEMMA CallWithdrawn ==
  ASSUME ApplyTyped, NEW t \in Tasks, Withdrawn(t)
  PROVE  /\ ApplyTyped' /\ \A j \in Appliers : j # t => call'[j] = call[j]
         /\ call'[t].at = call[t].at /\ call'[t].cs = call[t].cs /\ call'[t].bytes = call[t].bytes
         /\ call'[t].shown = call[t].shown /\ call'[t].record = call[t].record
         /\ call'[t].withdrawn => call[t].withdrawn \/ call[t].at \notin {"idle", "write", "view", "record"}
<1> DEFINE new == [call[t] EXCEPT !.withdrawn = @ \/ call[t].at \notin {"idle", "write", "view", "record"}]
<1>1. call[t] \in ApplyRecords /\ t \in Appliers
  BY DEF ApplyTyped, Appliers
<1>2. (call[t].withdrawn \/ call[t].at \notin {"idle", "write", "view", "record"}) \in BOOLEAN
  BY Zenon
<1>3. /\ new \in ApplyRecords /\ new.at = call[t].at /\ new.cs = call[t].cs /\ new.bytes = call[t].bytes
      /\ new.shown = call[t].shown /\ new.record = call[t].record
      /\ new.withdrawn = (call[t].withdrawn \/ call[t].at \notin {"idle", "write", "view", "record"})
  BY <1>1, <1>2 DEF ApplyRecords
<1>4. call' = [call EXCEPT ![t] = new]
  BY DEF Withdrawn
<1> HIDE DEF new
<1> QED
  BY <1>1, <1>3, <1>4, CallSet

LEMMA GenSet ==
  ASSUME TasksTyped, NEW t \in Tasks, NEW new \in GenRecords, gen' = [gen EXCEPT ![t] = new]
  PROVE  gen' \in [Tasks -> GenRecords] /\ gen'[t] = new /\ \A u \in Tasks : u # t => gen'[u] = gen[u]
  BY DEF TasksTyped

LEMMA GenAbortedSet ==
  ASSUME TasksTyped, NEW t \in Tasks, Aborted(t)
  PROVE  /\ gen' \in [Tasks -> GenRecords] /\ \A u \in Tasks : u # t => gen'[u] = gen[u]
         /\ gen'[t].at = gen[t].at /\ gen'[t].aborted = (gen[t].at # "idle")
<1> DEFINE new == [gen[t] EXCEPT !.aborted = gen[t].at # "idle"]
<1>1. (gen[t].at # "idle") \in BOOLEAN
  BY Zenon
<1>2. new \in GenRecords /\ new.at = gen[t].at /\ new.aborted = (gen[t].at # "idle")
  BY <1>1 DEF TasksTyped, GenRecords
<1>3. gen' = [gen EXCEPT ![t] = new]
  BY DEF Aborted
<1> HIDE DEF new
<1> QED
  BY <1>2, <1>3, GenSet

LEMMA ShownEmptied ==
  ASSUME TasksTyped, NEW t \in Tasks, Unshown(t)
  PROVE  /\ shown' \in [Tasks -> ShownRecords] /\ request' \in [Tasks -> Nat] /\ shown'[t] = NoShown
         /\ \A u \in Tasks : u # t => shown'[u] = shown[u]
  BY RecordsThere DEF TasksTyped, Unshown

LEMMA FaultCounted == ASSUME NotesTyped, Fault \/ NoFault PROVE faults' \in Nat
  BY MaintAssumption DEF NotesTyped, Fault, NoFault
-----------------------------------------------------------------------------
LEMMA MaintInvInit == MaintInit => MaintInv
<1> SUFFICES ASSUME MaintInit PROVE MaintInv
  OBVIOUS
<1> USE MaintAssumption, RecordsThere DEF MaintInit
<1>1. NotesTyped
  BY DEF NotesTyped
<1>2. TasksTyped
  BY DEF TasksTyped
<1>3. ApplyTyped /\ AuditTyped
  BY DEF ApplyTyped, AuditTyped, Appliers
<1>4. OneThing
  BY DEF OneThing, Underway, Status, Closed, Appliers
<1>5. NumbersOwn
  BY DEF NumbersOwn, Appliers
<1>6. BytesKept
  BY DEF BytesKept, Appliers
<1>7. WithdrawnSeen /\ RecordsFirst
  BY DEF WithdrawnSeen, RecordsFirst, Appliers
<1> QED
  BY <1>1, <1>2, <1>3, <1>4, <1>5, <1>6, <1>7 DEF MaintInv
-----------------------------------------------------------------------------
(* The notes, and what a task begins and generates.                         *)
LEMMA EditedKeeps == ASSUME MaintInv, NEW d \in Docs, Edited(d) PROVE MaintInv'
<1> USE DEF MaintInv
<1>1. /\ content' \in [Docs -> Nat] /\ rev' \in Nat
      /\ UNCHANGED <<landed, taskVars, viewing, gen, call, prepared, audit, numbered, faults>>
  BY DEF Edited, Writes, NotesTyped
<1>2. NotesTyped' /\ TasksTyped' /\ ApplyTyped' /\ AuditTyped'
  BY <1>1 DEF NotesTyped, TasksTyped, ApplyTyped, AuditTyped, taskVars
<1>3. OneThing' /\ NumbersOwn' /\ WithdrawnSeen'
  BY <1>1 DEF OneThing, Underway, Status, Closed, NumbersOwn, WithdrawnSeen, taskVars
<1>4. BytesKept' /\ RecordsFirst'
  BY <1>1 DEF BytesKept, RecordsFirst, taskVars
<1> QED
  BY <1>2, <1>3, <1>4

\* Steps that change only the status of a task, and its generation.
LEMMA StatusKeeps ==
  ASSUME MaintInv, NEW t \in Tasks, NEW g \in GenRecords, gen' = [gen EXCEPT ![t] = g],
         task' \in [Tasks -> TaskRecords], \A u \in Tasks : u # t => task'[u] = task[u],
         task'[t].cs = task[t].cs, task'[t].bytes = task[t].bytes,
         ~Underway(t), task'[t].status # "applying",
         task'[t].status = "analyzing" => g.at # "idle",
         g.at # "idle" => task'[t].status = "analyzing" \/ (task'[t].status \in {"completed", "cancelled"} /\ g.aborted),
         UNCHANGED <<noteVars, shown, request, viewing, call, prepared, audit, numbered>>, faults' \in Nat
  PROVE  MaintInv'
<1> USE DEF MaintInv
<1>1. gen' \in [Tasks -> GenRecords] /\ gen'[t] = g /\ \A u \in Tasks : u # t => gen'[u] = gen[u]
  BY GenSet
<1>2. NotesTyped' /\ TasksTyped' /\ ApplyTyped' /\ AuditTyped'
  BY <1>1 DEF NotesTyped, TasksTyped, ApplyTyped, AuditTyped, noteVars
<1>3. OneThing'
  BY <1>1 DEF OneThing, Underway, Status, Closed
<1>4. NumbersOwn' /\ WithdrawnSeen' /\ RecordsFirst'
  BY DEF NumbersOwn, WithdrawnSeen, RecordsFirst, noteVars
<1>5. BytesKept'
  <2>1. \A u \in Tasks : task'[u].cs = task[u].cs /\ task'[u].bytes = task[u].bytes
    OBVIOUS
  <2>2. \A v \in viewing : v.task \in Tasks
    BY DEF TasksTyped, ViewRecords
  <2> QED
    BY <2>1, <2>2 DEF BytesKept
<1> QED
  BY <1>2, <1>3, <1>4, <1>5

LEMMA MaintStartKeeps == ASSUME MaintInv, NEW t \in Tasks, MaintStart(t) PROVE MaintInv'
<1> USE DEF MaintInv
<1> DEFINE new == [NoTask EXCEPT !.status = "active", !.base = rev]
<1>1. new \in TaskRecords /\ new.status = "active" /\ new.cs = 0
  BY RecordsThere DEF TaskRecords, Statuses, NotesTyped
<1>2. Status(t) = "none" /\ task' = [task EXCEPT ![t] = new]
      /\ UNCHANGED <<noteVars, shown, request, viewing, gen, call, prepared, audit, numbered, faults>>
  BY DEF MaintStart
<1> HIDE DEF new
<1>3. task' \in [Tasks -> TaskRecords] /\ task'[t] = new /\ \A u \in Tasks : u # t => task'[u] = task[u]
  BY <1>1, <1>2, TaskSet
<1>4. NotesTyped' /\ TasksTyped' /\ ApplyTyped' /\ AuditTyped'
  BY <1>2, <1>3 DEF NotesTyped, TasksTyped, ApplyTyped, AuditTyped, noteVars
<1>5. OneThing'
  BY <1>1, <1>2, <1>3 DEF OneThing, Underway, Status, Closed
<1>6. NumbersOwn'
  BY <1>1, <1>2, <1>3 DEF NumbersOwn, NotesTyped
<1>7. WithdrawnSeen' /\ RecordsFirst'
  BY <1>2 DEF WithdrawnSeen, RecordsFirst, noteVars
<1>8. BytesKept'
  <2>1. \A v \in viewing : v.task \in Tasks /\ v.cs # 0
    BY DEF TasksTyped, ViewRecords
  <2> QED
    BY <1>1, <1>2, <1>3, <2>1 DEF BytesKept
<1> QED
  BY <1>4, <1>5, <1>6, <1>7, <1>8

LEMMA MaintProposeKeeps == ASSUME MaintInv, NEW t \in Tasks, MaintPropose(t) PROVE MaintInv'
<1> DEFINE new == [NoGen EXCEPT !.at = "load"]
<1>1. new \in GenRecords /\ new.at = "load"
  BY DEF NoGen, GenRecords
<1>2. /\ Open(t) /\ Status(t) \notin {"analyzing", "applying"} /\ To(t, "analyzing") /\ gen' = [gen EXCEPT ![t] = new]
      /\ UNCHANGED <<noteVars, shown, request, viewing, call, prepared, audit, numbered, faults>>
  BY DEF MaintPropose
<1> HIDE DEF new
<1>3. ~Underway(t)
  BY <1>2 DEF MaintInv, OneThing, Open
<1>4. /\ task' \in [Tasks -> TaskRecords] /\ \A u \in Tasks : u # t => task'[u] = task[u]
      /\ task'[t].status = "analyzing" /\ task'[t].cs = task[t].cs /\ task'[t].bytes = task[t].bytes
  BY <1>2, StatusSet DEF MaintInv, Statuses
<1> QED
  BY <1>1, <1>2, <1>3, <1>4, StatusKeeps DEF MaintInv, NotesTyped

\* How a generation goes on or ends without a proposal.
LEMMA GenEndsKeeps ==
  ASSUME MaintInv, NEW t \in Tasks, gen[t].at # "idle", GenOver(t), GenKeeps, UNCHANGED numbered, Fault \/ NoFault,
         NEW s \in Statuses \ {"applying", "analyzing"}, To(t, s)
  PROVE  MaintInv'
<1>1. ~Underway(t)
  BY DEF MaintInv, OneThing
<1>2. /\ task' \in [Tasks -> TaskRecords] /\ \A u \in Tasks : u # t => task'[u] = task[u]
      /\ task'[t].status = s /\ task'[t].cs = task[t].cs /\ task'[t].bytes = task[t].bytes
  BY StatusSet DEF MaintInv
<1>3. faults' \in Nat
  BY FaultCounted DEF MaintInv
<1> QED
  BY <1>1, <1>2, <1>3, StatusKeeps, RecordsThere DEF GenOver, GenKeeps

LEMMA GenLoadedKeeps == ASSUME MaintInv, NEW t \in Tasks, GenLoaded(t) PROVE MaintInv'
<1>1. gen[t].at = "load" /\ GenKeeps /\ UNCHANGED numbered
  BY DEF GenLoaded
<1>2. CASE To(t, "stale") /\ GenOver(t) /\ (Fault \/ NoFault)
  BY <1>1, <1>2, GenEndsKeeps DEF Statuses
<1>3. CASE gen' = [gen EXCEPT ![t].at = "model"] /\ UNCHANGED task /\ NoFault
  <2> DEFINE new == [gen[t] EXCEPT !.at = "model"]
  <2>1. new \in GenRecords /\ new.at = "model" /\ new.aborted = gen[t].aborted /\ gen' = [gen EXCEPT ![t] = new]
    BY <1>3 DEF MaintInv, TasksTyped, GenRecords
  <2> HIDE DEF new
  <2>2. /\ ~Underway(t) /\ task[t].status # "applying"
        /\ task[t].status = "analyzing" \/ (task[t].status \in {"completed", "cancelled"} /\ gen[t].aborted)
    BY <1>1 DEF MaintInv, OneThing, Status, Closed
  <2>3. task' = task /\ task' \in [Tasks -> TaskRecords] /\ faults' \in Nat
    BY <1>3, FaultCounted DEF MaintInv, TasksTyped
  <2> QED
    BY <1>1, <2>1, <2>2, <2>3, StatusKeeps DEF GenKeeps
<1> QED
  BY <1>2, <1>3 DEF GenLoaded

LEMMA GenGivenUpKeeps == ASSUME MaintInv, NEW t \in Tasks, GenAborted(t) \/ GenFailed(t) PROVE MaintInv'
<1>1. gen[t].at = "model" /\ GenOver(t) /\ GenKeeps /\ UNCHANGED numbered /\ (Fault \/ NoFault)
  BY DEF GenAborted, GenFailed, NoFault
<1>2. Status(t) = "analyzing" \/ Closed(t)
  BY <1>1 DEF MaintInv, OneThing
<1>3. CASE GenAborted(t)
  <2>1. Restored(t) \in Statuses \ {"applying", "analyzing"}
    BY <1>2 DEF Restored, Back, Statuses, Closed
  <2> QED
    BY <1>1, <1>3, <2>1, GenEndsKeeps DEF GenAborted
<1>4. CASE GenFailed(t)
  <2>1. Back(t, "failed") \in Statuses \ {"applying", "analyzing"}
    BY DEF Back, Statuses
  <2> QED
    BY <1>1, <1>4, <2>1, GenEndsKeeps DEF GenFailed
<1> QED
  BY <1>3, <1>4

LEMMA GenProposesKeeps == ASSUME MaintInv, NEW t \in Tasks, NEW d \in Docs, GenProposes(t, d) PROVE MaintInv'
<1> USE DEF MaintInv
<1> DEFINE new == [task[t] EXCEPT !.status = "proposal-ready", !.cs = numbered', !.bytes = Now(d)]
<1>1. /\ gen[t].at = "model" /\ numbered' = numbered + 1 /\ numbered \in Nat /\ numbered' \in Nat
      /\ task' = [task EXCEPT ![t] = new] /\ gen' = [gen EXCEPT ![t] = NoGen]
      /\ UNCHANGED <<noteVars, shown, request, viewing, call, prepared, audit, faults>>
  BY DEF GenProposes, MayNumber, GenOver, GenKeeps, NoFault, NotesTyped
<1>2. Now(d) \in SeenBytes
  BY DEF Now, SeenBytes, NotesTyped
<1>3. new \in TaskRecords /\ new.status = "proposal-ready" /\ new.cs = numbered' /\ new.bytes = Now(d)
  BY <1>1, <1>2 DEF TasksTyped, TaskRecords, AnyBytes, Statuses
<1> HIDE DEF new
<1>4. /\ task' \in [Tasks -> TaskRecords] /\ task'[t] = new /\ \A u \in Tasks : u # t => task'[u] = task[u]
      /\ gen' \in [Tasks -> GenRecords] /\ gen'[t] = NoGen /\ \A u \in Tasks : u # t => gen'[u] = gen[u]
  BY <1>1, <1>3, TaskSet, GenSet, RecordsThere
<1>5. NotesTyped' /\ TasksTyped' /\ ApplyTyped' /\ AuditTyped'
  BY <1>1, <1>4 DEF NotesTyped, TasksTyped, ApplyTyped, AuditTyped, noteVars
<1>6. OneThing'
  BY <1>1, <1>3, <1>4, RecordsThere DEF OneThing, Underway, Status, Closed
<1>7. NumbersOwn'
  <2>1. \A u \in Tasks : task[u].cs \in Nat /\ shown[u].id \in Nat /\ shown[u].cs \in Nat /\ call[u].shown.id \in Nat
    BY DEF TasksTyped, TaskRecords, ShownRecords, ApplyTyped, ApplyRecords, Appliers
  <2>2. \A v \in viewing : v.request \in Nat /\ v.cs \in Nat
    BY DEF TasksTyped, ViewRecords
  <2> QED
    BY <1>1, <1>3, <1>4, <2>1, <2>2 DEF NumbersOwn
<1>8. WithdrawnSeen' /\ RecordsFirst'
  BY <1>1 DEF WithdrawnSeen, RecordsFirst, noteVars
<1>9. BytesKept'
  <2>1. \A v \in viewing : v.task \in Tasks /\ v.cs \in Nat /\ v.cs < numbered'
    BY <1>1 DEF TasksTyped, ViewRecords, NumbersOwn
  <2>2. \A u \in Tasks : shown[u].cs \in Nat /\ shown[u].cs < numbered'
    BY <1>1 DEF TasksTyped, ShownRecords, NumbersOwn
  <2> QED
    BY <1>1, <1>2, <1>3, <1>4, <2>1, <2>2 DEF BytesKept
<1> QED
  BY <1>5, <1>6, <1>7, <1>8, <1>9
-----------------------------------------------------------------------------
(* What the user does meanwhile.                                            *)
\* What is shown of a task is taken away, and what is applied of it is withdrawn, or nothing of it is.
LEMMA UserStepKeeps ==
  ASSUME MaintInv, NEW t \in Tasks,
         task' \in [Tasks -> TaskRecords], \A u \in Tasks : u # t => task'[u] = task[u],
         \/ task'[t] = task[t]
         \/ /\ task'[t].cs = 0 /\ task'[t].status \notin {"analyzing", "applying"}
            /\ \/ task'[t].status \in {"completed", "cancelled"} /\ (gen[t].at # "idle" => gen'[t].aborted)
               \/ gen[t].at = "idle" /\ ~Underway(t),
         gen' \in [Tasks -> GenRecords], \A u \in Tasks : u # t => gen'[u] = gen[u],
         gen'[t].at = gen[t].at, gen[t].at # "idle" /\ gen[t].aborted => gen'[t].aborted,
         UNCHANGED <<shown, request>> \/ Unshown(t),
         call' = call \/ (Withdrawn(t) /\ Unshown(t)),
         UserKeeps, faults' \in Nat
  PROVE  MaintInv'
<1> USE DEF MaintInv
<1>1. UNCHANGED <<noteVars, viewing, prepared, audit, numbered>>
  BY DEF UserKeeps
<1>2. /\ shown' \in [Tasks -> ShownRecords] /\ request' \in [Tasks -> Nat]
      /\ \A u \in Tasks : u # t => shown'[u] = shown[u]
      /\ shown'[t] = shown[t] \/ (shown'[t] = NoShown /\ NoShown.id = 0 /\ NoShown.cs = 0)
  BY ShownEmptied, RecordsThere DEF TasksTyped
<1>3. /\ ApplyTyped' /\ \A j \in Appliers : j # t => call'[j] = call[j]
      /\ call'[t].at = call[t].at /\ call'[t].cs = call[t].cs /\ call'[t].bytes = call[t].bytes
      /\ call'[t].shown = call[t].shown /\ call'[t].record = call[t].record
      /\ \/ call'[t].withdrawn = call[t].withdrawn
         \/ /\ shown'[t] = NoShown
            /\ call'[t].withdrawn => call[t].withdrawn \/ call[t].at \notin {"idle", "write", "view", "record"}
  <2>1. CASE call' = call
    BY <2>1 DEF ApplyTyped
  <2>2. CASE Withdrawn(t) /\ Unshown(t)
    BY <2>2, CallWithdrawn, ShownEmptied
  <2> QED
    BY <2>1, <2>2
<1>4. \A u \in Tasks : u \in Appliers
  BY DEF Appliers
<1>5. NotesTyped' /\ TasksTyped' /\ AuditTyped'
  BY <1>1, <1>2 DEF NotesTyped, TasksTyped, AuditTyped, noteVars
<1>6. OneThing'
  <2> SUFFICES ASSUME NEW u \in Tasks
               PROVE  /\ Status(u)' = "analyzing" => gen'[u].at # "idle"
                      /\ gen'[u].at # "idle" => ~Underway(u)' /\ (Status(u)' = "analyzing" \/ (Closed(u)' /\ gen'[u].aborted))
                      /\ Status(u)' = "applying" => Underway(u)' /\ call'[u].cs = task'[u].cs
                      /\ Underway(u)' => Status(u)' = "applying" \/ Closed(u)'
    BY DEF OneThing
  <2>1. /\ Status(u) = "analyzing" => gen[u].at # "idle"
        /\ gen[u].at # "idle" => ~Underway(u) /\ (Status(u) = "analyzing" \/ (Closed(u) /\ gen[u].aborted))
        /\ Status(u) = "applying" => Underway(u) /\ call[u].cs = task[u].cs
        /\ Underway(u) => Status(u) = "applying" \/ Closed(u)
    BY DEF OneThing
  <2>2. CASE u # t
    BY <1>3, <1>4, <2>1, <2>2 DEF Underway, Status, Closed
  <2>3. CASE u = t /\ task'[t] = task[t]
    BY <1>3, <2>1, <2>3 DEF Underway, Status, Closed
  <2>4. CASE u = t /\ task'[t] # task[t]
    BY <1>3, <2>1, <2>4 DEF Underway, Status, Closed
  <2> QED
    BY <2>2, <2>3, <2>4
<1>7. NumbersOwn'
  <2>1. \A u \in Tasks : task'[u].cs <= numbered /\ shown'[u].id <= numbered /\ shown'[u].cs <= numbered
    BY <1>2 DEF NumbersOwn, NotesTyped
  <2>2. \A u \in Tasks : call'[u].shown = call[u].shown
    BY <1>3, <1>4
  <2>3. \A v \in viewing, u \in Tasks : v.request # shown'[u].id
    BY <1>2 DEF NumbersOwn, TasksTyped, ViewRecords
  <2> QED
    BY <1>1, <2>1, <2>2, <2>3 DEF NumbersOwn
<1>8. WithdrawnSeen'
  <2>1. \A u \in Tasks : u # t => call'[u] = call[u] /\ shown'[u] = shown[u]
    BY <1>2, <1>3, <1>4
  <2>2. call'[t].withdrawn =>
          call'[t].at \in {"load", "evidence", "checkout", "audit", "prepare", "reads"} /\ shown'[t].id # call'[t].shown.id
    <3>1. CASE call'[t].withdrawn = call[t].withdrawn /\ shown'[t] = shown[t]
      BY <1>3, <3>1 DEF WithdrawnSeen
    <3>2. CASE shown'[t] = NoShown
      <4>1. call[t].at \in ApplyPlaces /\ (call[t].at # "idle" => call[t].shown.id # 0)
        BY <1>4 DEF BytesKept, ApplyTyped, ApplyRecords
      <4>2. call[t].withdrawn => call[t].at \in {"load", "evidence", "checkout", "audit", "prepare", "reads"}
        BY DEF WithdrawnSeen
      <4>3. call'[t].withdrawn => call[t].at \in {"load", "evidence", "checkout", "audit", "prepare", "reads"}
        BY <1>3, <4>1, <4>2 DEF ApplyPlaces
      <4> QED
        BY <1>3, <3>2, <4>1, <4>3, RecordsThere
    <3> QED
      BY <1>2, <1>3, <3>1, <3>2
  <2> QED
    BY <2>1, <2>2 DEF WithdrawnSeen
<1>9. RecordsFirst'
  BY <1>1, <1>3 DEF RecordsFirst, noteVars
<1>10. BytesKept'
  <2>1. \A v \in viewing : v.task \in Tasks /\ v.cs # 0
    BY DEF TasksTyped, ViewRecords
  <2>2. \A u \in Tasks : /\ task'[u].cs # 0 => task'[u].bytes \in SeenBytes
                         /\ shown'[u].id # 0 => shown'[u].cs # 0 /\ shown'[u].bytes \in SeenBytes
                         /\ shown'[u].id # 0 /\ shown'[u].cs = task'[u].cs => shown'[u].bytes = task'[u].bytes
    BY <1>2 DEF BytesKept
  <2>3. \A v \in viewing : v.cs = task'[v.task].cs => v.bytes = task'[v.task].bytes
    BY <2>1 DEF BytesKept
  <2>4. \A k \in Appliers : call'[k].at = call[k].at /\ call'[k].bytes = call[k].bytes /\ call'[k].shown = call[k].shown
    BY <1>3
  <2> QED
    BY <1>1, <2>2, <2>3, <2>4 DEF BytesKept
<1> QED
  BY <1>3, <1>5, <1>6, <1>7, <1>8, <1>9, <1>10

LEMMA MaintCloseKeeps ==
  ASSUME MaintInv, NEW t \in Tasks, NEW s \in {"completed", "cancelled"}, MaintClose(t, s) PROVE MaintInv'
<1>1. /\ task' \in [Tasks -> TaskRecords] /\ \A u \in Tasks : u # t => task'[u] = task[u]
      /\ task'[t].status = s /\ task'[t].cs = 0
  BY TaskEmptied DEF MaintClose, MaintInv, Statuses
<1>2. /\ gen' \in [Tasks -> GenRecords] /\ \A u \in Tasks : u # t => gen'[u] = gen[u]
      /\ gen'[t].at = gen[t].at /\ gen'[t].aborted = (gen[t].at # "idle")
  BY GenAbortedSet DEF MaintClose, MaintInv
<1>3. /\ gen[t].at # "idle" /\ gen[t].aborted => gen'[t].aborted
      /\ task'[t].status \notin {"analyzing", "applying"} /\ task'[t].status \in {"completed", "cancelled"}
      /\ gen[t].at # "idle" => gen'[t].aborted
  BY <1>1, <1>2
<1>4. Unshown(t) /\ Withdrawn(t) /\ UserKeeps /\ faults' \in Nat
  BY DEF MaintClose, MaintInv, NotesTyped, NoFault
<1> QED
  BY <1>1, <1>2, <1>3, <1>4, UserStepKeeps

LEMMA MaintDismissKeeps == ASSUME MaintInv, NEW t \in Tasks, MaintDismiss(t) PROVE MaintInv'
<1>1. /\ task' \in [Tasks -> TaskRecords] /\ \A u \in Tasks : u # t => task'[u] = task[u]
      /\ task'[t].status = "active" /\ task'[t].cs = 0
  BY TaskEmptied DEF MaintDismiss, Rejected, MaintInv, Statuses
<1>2. gen[t].at = "idle" /\ ~Underway(t)
  BY DEF MaintDismiss, MaintInv, OneThing, Closed, Status
<1>3. gen' = gen /\ gen' \in [Tasks -> GenRecords] /\ call' = call
  BY DEF MaintDismiss, MaintInv, TasksTyped
<1> QED
  BY <1>1, <1>2, <1>3, UserStepKeeps DEF MaintDismiss, MaintInv, NotesTyped

LEMMA MaintDiscussKeeps == ASSUME MaintInv, NEW t \in Tasks, MaintDiscuss(t) PROVE MaintInv'
<1>1. gen' = gen /\ gen' \in [Tasks -> GenRecords]
  BY DEF MaintDiscuss, MaintInv, TasksTyped
<1>2. CASE Status(t) = "proposal-ready"
  <2>1. /\ task' \in [Tasks -> TaskRecords] /\ \A u \in Tasks : u # t => task'[u] = task[u]
        /\ task'[t].status = "active" /\ task'[t].cs = 0
    BY <1>2, TaskEmptied DEF MaintDiscuss, Rejected, MaintInv, Statuses
  <2>2. gen[t].at = "idle" /\ ~Underway(t)
    BY <1>2 DEF MaintInv, OneThing, Closed, Status
  <2> QED
    BY <1>1, <2>1, <2>2, UserStepKeeps DEF MaintDiscuss, MaintInv, NotesTyped
<1>3. CASE UNCHANGED task
  <2>1. task' = task /\ task' \in [Tasks -> TaskRecords]
    BY <1>3 DEF MaintInv, TasksTyped
  <2> QED
    BY <1>1, <2>1, UserStepKeeps DEF MaintDiscuss, MaintInv, NotesTyped
<1> QED
  BY <1>2, <1>3 DEF MaintDiscuss

LEMMA TurnAbortedKeeps == ASSUME MaintInv, NEW t \in Tasks, TurnAborted(t) PROVE MaintInv'
<1>1. /\ gen' \in [Tasks -> GenRecords] /\ \A u \in Tasks : u # t => gen'[u] = gen[u]
      /\ gen'[t].at = gen[t].at /\ gen'[t].aborted = (gen[t].at # "idle")
  BY GenAbortedSet DEF TurnAborted, MaintInv
<1>2. task' = task /\ task' \in [Tasks -> TaskRecords] /\ UNCHANGED <<shown, request>> /\ call' = call /\ faults' \in Nat
  BY FaultCounted DEF TurnAborted, taskVars, MaintInv, TasksTyped
<1> QED
  BY <1>1, <1>2, UserStepKeeps DEF TurnAborted
-----------------------------------------------------------------------------
(* Previews.                                                                *)
LEMMA MaintPreviewKeeps == ASSUME MaintInv, NEW t \in Tasks, MaintPreview(t) PROVE MaintInv'
<1> USE DEF MaintInv
<1> DEFINE new == [task |-> t, request |-> numbered', cs |-> task[t].cs, bytes |-> task[t].bytes, at |-> "checkout"]
<1>1. /\ task[t].cs # 0 /\ numbered' = numbered + 1 /\ numbered \in Nat /\ numbered' \in Nat \ {0}
      /\ request' = [request EXCEPT ![t] = numbered'] /\ shown' = [shown EXCEPT ![t] = NoShown] /\ viewing' = viewing \cup {new}
      /\ UNCHANGED <<noteVars, task, gen, call, prepared, audit, faults>>
  BY DEF MaintPreview, MayNumber, NotesTyped
<1>2. new \in ViewRecords /\ new.task = t /\ new.request = numbered' /\ new.cs = task[t].cs /\ new.bytes = task[t].bytes
  BY <1>1 DEF ViewRecords, TasksTyped, TaskRecords, BytesKept
<1> HIDE DEF new
<1>3. /\ request' \in [Tasks -> Nat] /\ shown' \in [Tasks -> ShownRecords] /\ shown'[t].id = 0 /\ shown'[t].cs = 0
      /\ \A u \in Tasks : u # t => shown'[u] = shown[u]
  BY <1>1, RecordsThere DEF TasksTyped
<1>4. NotesTyped' /\ TasksTyped' /\ ApplyTyped' /\ AuditTyped'
  BY <1>1, <1>2, <1>3 DEF NotesTyped, TasksTyped, ApplyTyped, AuditTyped, noteVars
<1>5. OneThing' /\ RecordsFirst'
  BY <1>1 DEF OneThing, Underway, Status, Closed, RecordsFirst, noteVars
<1>6. NumbersOwn'
  <2>1. \A u \in Tasks : /\ task[u].cs \in Nat /\ shown[u].id \in Nat /\ shown[u].cs \in Nat /\ call[u].shown.id \in Nat
                         /\ shown'[u].id \in Nat /\ shown'[u].id <= numbered /\ shown'[u].cs \in Nat /\ shown'[u].cs <= numbered
    <3>1. \A u \in Tasks : task[u].cs \in Nat /\ shown[u].id \in Nat /\ shown[u].cs \in Nat
      BY DEF TasksTyped, TaskRecords, ShownRecords
    <3>2. \A u \in Tasks : call[u].shown.id \in Nat
      BY DEF ApplyTyped, ApplyRecords, ShownRecords, Appliers
    <3>3. \A u \in Tasks : shown'[u].id \in Nat /\ shown'[u].cs \in Nat
      BY <1>3 DEF ShownRecords
    <3>4. \A u \in Tasks : shown'[u].id <= numbered /\ shown'[u].cs <= numbered
      BY <1>1, <1>3 DEF NumbersOwn
    <3> QED
      BY <3>1, <3>2, <3>3, <3>4
  <2>2. \A v \in viewing : v.request \in Nat \ {0} /\ v.cs \in Nat
    BY DEF TasksTyped, ViewRecords
  <2>3. /\ \A u \in Tasks : /\ task'[u].cs <= numbered' /\ shown'[u].id <= numbered' /\ shown'[u].cs <= numbered'
                            /\ call'[u].shown.id <= numbered'
        /\ \A v \in viewing' : v.request <= numbered' /\ v.cs <= numbered'
    BY <1>1, <1>2, <2>1, <2>2 DEF NumbersOwn
  <2>4. \A v \in viewing', u \in Tasks : v.request # shown'[u].id /\ v.request # call'[u].shown.id
    BY <1>1, <1>2, <1>3, <2>1, <2>2 DEF NumbersOwn
  <2>5. \A v, w \in viewing' : v.request = w.request => v = w
    BY <1>1, <1>2, <2>2 DEF NumbersOwn
  <2> QED
    BY <2>3, <2>4, <2>5 DEF NumbersOwn
<1>7. WithdrawnSeen'
  <2>1. \A u \in Tasks : call[u].withdrawn => call[u].shown.id # 0
    BY DEF WithdrawnSeen, BytesKept, Appliers
  <2> QED
    BY <1>1, <1>3, <2>1 DEF WithdrawnSeen
<1>8. BytesKept'
  BY <1>1, <1>2, <1>3 DEF BytesKept
<1> QED
  BY <1>4, <1>5, <1>6, <1>7, <1>8

LEMMA PreviewCheckedKeeps == ASSUME MaintInv, NEW v \in viewing, PreviewChecked(v) PROVE MaintInv'
<1> USE DEF MaintInv
<1> DEFINE new == [v EXCEPT !.at = "files"]
<1>1. /\ new \in ViewRecords /\ new.task = v.task /\ new.request = v.request /\ new.cs = v.cs /\ new.bytes = v.bytes
      /\ v.task \in Tasks
  BY DEF TasksTyped, ViewRecords
<1>2. /\ viewing' \subseteq (viewing \ {v}) \cup {new}
      /\ UNCHANGED <<noteVars, task, request, shown, gen, call, prepared, audit, numbered, faults>>
  BY DEF PreviewChecked, PreviewKeeps
<1> HIDE DEF new
<1>3. NotesTyped' /\ TasksTyped' /\ ApplyTyped' /\ AuditTyped'
  BY <1>1, <1>2 DEF NotesTyped, TasksTyped, ApplyTyped, AuditTyped, noteVars
<1>4. OneThing' /\ RecordsFirst' /\ WithdrawnSeen'
  BY <1>2 DEF OneThing, Underway, Status, Closed, RecordsFirst, WithdrawnSeen, noteVars
<1>5. NumbersOwn'
  BY <1>1, <1>2 DEF NumbersOwn
<1>6. BytesKept'
  BY <1>1, <1>2 DEF BytesKept
<1> QED
  BY <1>3, <1>4, <1>5, <1>6

\* What is shown is what the proposal was made from, for the bytes are looked at once more.
LEMMA PreviewMadeKeeps == ASSUME MaintInv, NEW v \in viewing, PreviewMade(v) PROVE MaintInv'
<1> USE DEF MaintInv
<1>1. /\ viewing' = viewing \ {v}
      /\ UNCHANGED <<noteVars, task, request, gen, call, prepared, audit, numbered, faults>>
  BY DEF PreviewMade, PreviewKeeps
<1>2. v.task \in Tasks /\ v.request \in Nat \ {0} /\ v.cs \in Nat \ {0} /\ v.bytes \in SeenBytes
  BY DEF TasksTyped, ViewRecords
<1>3. /\ shown' \in [Tasks -> ShownRecords] /\ \A u \in Tasks : u # v.task => shown'[u] = shown[u]
      /\ \/ shown'[v.task] = shown[v.task]
         \/ /\ shown'[v.task].id = v.request /\ shown'[v.task].cs = v.cs /\ shown'[v.task].bytes = v.bytes
            /\ task[v.task].cs = v.cs
  <2>1. CASE SourceKept(v.bytes) /\ StillWanted(v)
    <3> DEFINE new == [id |-> v.request, cs |-> v.cs, bytes |-> Now(v.bytes.doc)]
    <3>1. Now(v.bytes.doc) = v.bytes
      BY <1>2, <2>1 DEF Now, SourceKept, SameBytes, SeenBytes
    <3>2. new \in ShownRecords /\ new.id = v.request /\ new.cs = v.cs /\ new.bytes = v.bytes
      BY <1>2, <3>1 DEF ShownRecords, AnyBytes
    <3>3. shown' = [shown EXCEPT ![v.task] = new]
      BY <2>1 DEF PreviewMade
    <3> HIDE DEF new
    <3> QED
      BY <1>2, <2>1, <3>2, <3>3 DEF TasksTyped, StillWanted
  <2>2. CASE shown' = shown
    BY <2>2 DEF TasksTyped
  <2> QED
    BY <2>1, <2>2 DEF PreviewMade
<1>4. NotesTyped' /\ TasksTyped' /\ ApplyTyped' /\ AuditTyped'
  BY <1>1, <1>3 DEF NotesTyped, TasksTyped, ApplyTyped, AuditTyped, noteVars
<1>5. OneThing' /\ RecordsFirst'
  BY <1>1 DEF OneThing, Underway, Status, Closed, RecordsFirst, noteVars
<1>6. NumbersOwn'
  <2>1. \A w \in viewing' : w.request # v.request
    BY <1>1 DEF NumbersOwn
  <2> QED
    BY <1>1, <1>2, <1>3, <2>1 DEF NumbersOwn
<1>7. WithdrawnSeen'
  BY <1>1, <1>2, <1>3 DEF WithdrawnSeen, NumbersOwn
<1>8. BytesKept'
  <2>1. v.bytes = task[v.task].bytes \/ v.cs # task[v.task].cs
    BY DEF BytesKept
  <2> QED
    BY <1>1, <1>2, <1>3, <2>1 DEF BytesKept
<1> QED
  BY <1>4, <1>5, <1>6, <1>7, <1>8
-----------------------------------------------------------------------------
(* Applications, and undos.                                                 *)
LEMMA MaintApplyKeeps == ASSUME MaintInv, NEW t \in Tasks, MaintApply(t) PROVE MaintInv'
<1> USE DEF MaintInv
<1> DEFINE new == [NoCall EXCEPT !.at = "load", !.cs = task[t].cs, !.bytes = task[t].bytes, !.shown = shown[t]]
<1>1. /\ Status(t) = "proposal-ready" /\ task[t].cs # 0 /\ shown[t].id # 0 /\ shown[t].cs = task[t].cs
      /\ To(t, "applying") /\ call' = [call EXCEPT ![t] = new]
      /\ UNCHANGED <<noteVars, shown, request, viewing, gen, prepared, audit, numbered, faults>>
  BY DEF MaintApply
<1>2. task[t] \in TaskRecords /\ shown[t] \in ShownRecords /\ t \in Appliers
  BY DEF TasksTyped, Appliers
<1>3. /\ new \in ApplyRecords /\ new.at = "load" /\ new.cs = task[t].cs /\ new.bytes = task[t].bytes /\ new.shown = shown[t]
      /\ new.withdrawn = FALSE
  BY <1>2, RecordsThere DEF NoCall, ApplyRecords, ApplyPlaces, TaskRecords
<1> HIDE DEF new
<1>4. ApplyTyped' /\ call'[t] = new /\ \A j \in Appliers : j # t => call'[j] = call[j]
  BY <1>1, <1>2, <1>3, CallSet
<1>5. /\ task' \in [Tasks -> TaskRecords] /\ \A u \in Tasks : u # t => task'[u] = task[u]
      /\ task'[t].status = "applying" /\ task'[t].cs = task[t].cs /\ task'[t].bytes = task[t].bytes
  BY <1>1, StatusSet DEF Statuses
<1>6. \A u \in Tasks : u \in Appliers
  BY DEF Appliers
<1>7. NotesTyped' /\ TasksTyped' /\ AuditTyped'
  BY <1>1, <1>5 DEF NotesTyped, TasksTyped, AuditTyped, noteVars
<1>8. OneThing'
  BY <1>1, <1>3, <1>4, <1>5, <1>6 DEF OneThing, Underway, Status, Closed
<1>9. NumbersOwn'
  BY <1>1, <1>3, <1>4, <1>5, <1>6 DEF NumbersOwn
<1>10. WithdrawnSeen' /\ RecordsFirst'
  BY <1>1, <1>3, <1>4, <1>6 DEF WithdrawnSeen, RecordsFirst, noteVars
<1>11. BytesKept'
  <2>1. \A v \in viewing : v.task \in Tasks
    BY DEF TasksTyped, ViewRecords
  <2>2. task[t].bytes \in SeenBytes /\ shown[t].bytes = task[t].bytes
    BY <1>1 DEF BytesKept
  <2> QED
    BY <1>1, <1>3, <1>4, <1>5, <1>6, <2>1, <2>2 DEF BytesKept
<1> QED
  BY <1>4, <1>7, <1>8, <1>9, <1>10, <1>11

\* A call that ends leaves its task, unless it is told so, in neither of the busy states.
LEMMA CallEndsKeeps ==
  ASSUME MaintInv, NEW k \in Appliers, CallOver(k), k \in Tasks => Underway(k) \/ UNCHANGED task,
         \/ UNCHANGED task /\ (k \in Tasks => Status(k) # "applying")
         \/ k \in Tasks /\ \E s \in Statuses \ {"applying", "analyzing"} : To(k, s),
         prepared' \subseteq prepared,
         UNCHANGED <<noteVars, shown, request, viewing, gen, audit, numbered>>, faults' \in Nat
  PROVE  MaintInv'
<1> USE DEF MaintInv
<1>1. ApplyTyped' /\ call'[k] = NoCall /\ \A j \in Appliers : j # k => call'[j] = call[j]
  BY CallEnded
<1>2. /\ task' \in [Tasks -> TaskRecords] /\ \A u \in Tasks : u # k => task'[u] = task[u]
      /\ \A u \in Tasks : task'[u].cs = task[u].cs /\ task'[u].bytes = task[u].bytes
      /\ k \in Tasks => task'[k].status # "applying" /\ (task' = task \/ task'[k].status # "analyzing")
  <2>1. CASE UNCHANGED task /\ (k \in Tasks => Status(k) # "applying")
    BY <2>1 DEF TasksTyped, Status
  <2>2. ASSUME k \in Tasks, NEW s \in Statuses \ {"applying", "analyzing"}, To(k, s)
        PROVE  /\ task' \in [Tasks -> TaskRecords] /\ \A u \in Tasks : u # k => task'[u] = task[u]
               /\ \A u \in Tasks : task'[u].cs = task[u].cs /\ task'[u].bytes = task[u].bytes
               /\ task'[k].status \notin {"applying", "analyzing"}
    BY <2>2, StatusSet
  <2> QED
    BY <2>1, <2>2
<1>3. \A u \in Tasks : u \in Appliers
  BY DEF Appliers
<1>4. NotesTyped' /\ TasksTyped' /\ AuditTyped'
  BY <1>2 DEF NotesTyped, TasksTyped, AuditTyped, noteVars
<1>5. OneThing'
  <2> SUFFICES ASSUME NEW u \in Tasks
               PROVE  /\ Status(u)' = "analyzing" => gen'[u].at # "idle"
                      /\ gen'[u].at # "idle" => ~Underway(u)' /\ (Status(u)' = "analyzing" \/ (Closed(u)' /\ gen'[u].aborted))
                      /\ Status(u)' = "applying" => Underway(u)' /\ call'[u].cs = task'[u].cs
                      /\ Underway(u)' => Status(u)' = "applying" \/ Closed(u)'
    BY DEF OneThing
  <2>1. CASE u # k
    BY <1>1, <1>2, <1>3, <2>1 DEF OneThing, Underway, Status, Closed
  <2>2. CASE u = k /\ UNCHANGED task
    BY <1>1, <1>2, <2>2, RecordsThere DEF OneThing, Underway, Status, Closed
  <2>3. CASE u = k /\ task' # task
    BY <1>1, <1>2, <2>3, RecordsThere DEF OneThing, Underway, Status, Closed
  <2> QED
    BY <2>1, <2>2, <2>3
<1>6. NumbersOwn'
  <2>1. \A u \in Tasks : call'[u].shown = call[u].shown \/ call'[u].shown.id = 0
    BY <1>1, <1>3, RecordsThere
  <2>2. \A v \in viewing : v.request # 0
    BY DEF TasksTyped, ViewRecords
  <2> QED
    BY <1>2, <2>1, <2>2 DEF NumbersOwn, NotesTyped
<1>7. WithdrawnSeen' /\ RecordsFirst'
  BY <1>1, <1>3, RecordsThere DEF WithdrawnSeen, RecordsFirst, noteVars
<1>8. BytesKept'
  <2>1. \A v \in viewing : v.task \in Tasks
    BY DEF TasksTyped, ViewRecords
  <2> QED
    BY <1>1, <1>2, <2>1, RecordsThere DEF BytesKept
<1> QED
  BY <1>1, <1>4, <1>5, <1>6, <1>7, <1>8

\* A call that goes on to its next look.
LEMMA CallGoesKeeps ==
  ASSUME MaintInv, NEW k \in Appliers, NEW stage \in ApplyPlaces, GoesOn(k, stage),
         \/ stage \in {"evidence", "checkout", "audit"} /\ call[k].at \in {"load", "evidence", "checkout"}
         \/ stage = "write" /\ call[k].at = "reads" /\ (k \in Tasks => ~call[k].withdrawn),
         UNCHANGED <<noteVars, task, shown, request, viewing, gen, prepared, audit, numbered>>, faults' \in Nat
  PROVE  MaintInv'
<1> USE DEF MaintInv
<1>1. /\ ApplyTyped' /\ \A j \in Appliers : j # k => call'[j] = call[j]
      /\ call'[k].at = stage /\ call'[k].cs = call[k].cs /\ call'[k].bytes = call[k].bytes
      /\ call'[k].shown = call[k].shown /\ call'[k].record = call[k].record /\ call'[k].withdrawn = call[k].withdrawn
  BY StageSet
<1>2. \A u \in Tasks : u \in Appliers
  BY DEF Appliers
<1>3. NotesTyped' /\ TasksTyped' /\ AuditTyped'
  BY DEF NotesTyped, TasksTyped, AuditTyped, noteVars
<1>4. OneThing'
  BY <1>1, <1>2 DEF OneThing, Underway, Status, Closed
<1>5. NumbersOwn'
  <2>1. \A u \in Tasks : call'[u].shown = call[u].shown
    BY <1>1, <1>2
  <2> QED
    BY <2>1 DEF NumbersOwn
<1>6. WithdrawnSeen' /\ RecordsFirst'
  BY <1>1, <1>2 DEF WithdrawnSeen, RecordsFirst, noteVars
<1>7. BytesKept'
  BY <1>1 DEF BytesKept
<1> QED
  BY <1>1, <1>3, <1>4, <1>5, <1>6, <1>7

\* How an application gives up.
LEMMA FailedTo ==
  ASSUME NEW t \in Tasks, Failed(t), TasksTyped, Status(t) \notin {"analyzing"}, Status(t) = "applying" \/ Closed(t)
  PROVE  \E s \in Statuses \ {"applying", "analyzing"} : To(t, s)
  BY DEF Failed, Statuses, Closed

LEMMA GivenUpKeeps ==
  ASSUME MaintInv, NEW k \in Appliers, GivenUp(k), Underway(k), Fault \/ NoFault,
         UNCHANGED <<noteVars, shown, request, viewing, gen, prepared, audit, numbered>>
  PROVE  MaintInv'
<1>1. faults' \in Nat /\ CallOver(k)
  BY FaultCounted DEF MaintInv, GivenUp
<1>2. CASE k \in Tasks
  <2>1. Status(k) = "applying" \/ Closed(k)
    BY <1>2 DEF MaintInv, OneThing
  <2>2. \E s \in Statuses \ {"applying", "analyzing"} : To(k, s)
    BY <1>2, <2>1, FailedTo DEF GivenUp, MaintInv, Closed
  <2> QED
    BY <1>1, <1>2, <2>2, CallEndsKeeps
<1>3. CASE k \notin Tasks
  BY <1>1, <1>3, CallEndsKeeps DEF GivenUp
<1> QED
  BY <1>2, <1>3

\* An application that is not of the proposal any more, or is of a task that is closed.
LEMMA NotApplying ==
  ASSUME MaintInv, NEW t \in Tasks, Underway(t), ~Applying(t) PROVE Status(t) # "applying" /\ Closed(t)
  BY DEF MaintInv, OneThing, Applying

LEMMA ApplyLoadedKeeps == ASSUME MaintInv, NEW t \in Tasks, ApplyLoaded(t) PROVE MaintInv'
<1>1. /\ call[t].at = "load" /\ Underway(t) /\ t \in Appliers /\ faults' \in Nat
      /\ UNCHANGED <<noteVars, shown, request, viewing, gen, prepared, audit, numbered>>
  BY FaultCounted DEF ApplyLoaded, CallKeeps, Underway, Appliers, MaintInv
<1>2. CASE GoesOn(t, "evidence") /\ UNCHANGED task
  BY <1>1, <1>2, CallGoesKeeps DEF ApplyPlaces
<1>3. CASE CallOver(t) /\ To(t, "stale")
  BY <1>1, <1>3, CallEndsKeeps DEF Statuses
<1>4. CASE CallOver(t) /\ UNCHANGED task /\ ~Applying(t)
  BY <1>1, <1>4, CallEndsKeeps, NotApplying
<1>5. CASE CallOver(t) /\ To(t, IF Closed(t) THEN Status(t) ELSE "stale")
  <2>1. (IF Closed(t) THEN Status(t) ELSE "stale") \in Statuses \ {"applying", "analyzing"}
    BY DEF Closed, Statuses
  <2> QED
    BY <1>1, <1>5, <2>1, CallEndsKeeps
<1> QED
  BY <1>2, <1>3, <1>4, <1>5 DEF ApplyLoaded

LEMMA ApplyEvidenceKeeps == ASSUME MaintInv, NEW t \in Tasks, ApplyEvidence(t) PROVE MaintInv'
<1>1. /\ call[t].at = "evidence" /\ Underway(t) /\ t \in Appliers /\ faults' \in Nat
      /\ UNCHANGED <<noteVars, shown, request, viewing, gen, prepared, audit, numbered>>
  BY FaultCounted DEF ApplyEvidence, CallKeeps, Underway, Appliers, MaintInv
<1>2. CASE GoesOn(t, "checkout") /\ UNCHANGED task
  BY <1>1, <1>2, CallGoesKeeps DEF ApplyPlaces
<1>3. CASE CallOver(t) /\ To(t, "stale")
  BY <1>1, <1>3, CallEndsKeeps DEF Statuses
<1>4. CASE CallOver(t) /\ UNCHANGED task /\ ~Applying(t)
  BY <1>1, <1>4, CallEndsKeeps, NotApplying
<1> QED
  BY <1>2, <1>3, <1>4 DEF ApplyEvidence

LEMMA ApplyCheckoutKeeps == ASSUME MaintInv, NEW t \in Tasks, ApplyCheckout(t) PROVE MaintInv'
<1>1. /\ call[t].at = "checkout" /\ Underway(t) /\ t \in Appliers /\ (Fault \/ NoFault) /\ faults' \in Nat
      /\ UNCHANGED <<noteVars, shown, request, viewing, gen, prepared, audit, numbered>>
  BY FaultCounted DEF ApplyCheckout, CallKeeps, Underway, Appliers, MaintInv
<1>2. CASE GoesOn(t, "audit") /\ UNCHANGED task
  BY <1>1, <1>2, CallGoesKeeps DEF ApplyPlaces
<1>3. CASE CallOver(t) /\ Failed(t)
  <2>1. GivenUp(t)
    BY <1>3 DEF GivenUp
  <2> QED
    BY <1>1, <2>1, GivenUpKeeps
<1>4. CASE CallOver(t) /\ To(t, "failed")
  BY <1>1, <1>4, CallEndsKeeps DEF Statuses
<1> QED
  BY <1>2, <1>3, <1>4 DEF ApplyCheckout

\* The record comes before the change.
LEMMA RecordedKeeps == ASSUME MaintInv, NEW k \in Appliers, Recorded(k) PROVE MaintInv'
<1> USE DEF MaintInv
<1>1. /\ call[k].at = "audit" /\ Underway(k)
      /\ UNCHANGED <<noteVars, shown, request, viewing, gen, prepared, numbered>>
  BY DEF Recorded, Underway
<1>2. CASE Fault /\ GivenUp(k) /\ UNCHANGED audit
  BY <1>1, <1>2, GivenUpKeeps
<1>3. CASE /\ \E r \in 1..MaxWrites : audit[r].state = "none"
           /\ PendingWritten(NextRecord)
           /\ call' = [call EXCEPT ![k].at = IF k \in Tasks THEN "reads" ELSE "prepare", ![k].record = NextRecord]
           /\ UNCHANGED task /\ NoFault
  <2> DEFINE r == NextRecord
             stage == IF k \in Tasks THEN "reads" ELSE "prepare"
             new == [call[k] EXCEPT !.at = stage, !.record = r]
             started == [audit[r] EXCEPT !.state = "pending"]
  <2>1. r \in 1..MaxWrites /\ audit[r].state = "none" /\ r \in Nat
    BY <1>3 DEF NextRecord
  <2>2. audit' = [audit EXCEPT ![r] = started] /\ call' = [call EXCEPT ![k] = new] /\ UNCHANGED <<task, faults>>
    BY <1>3 DEF PendingWritten, NoFault
  <2>3. stage \in {"reads", "prepare"} /\ (k \in Tasks => stage = "reads") /\ (stage = "reads" => k \in Tasks)
    OBVIOUS
  <2> HIDE DEF r, stage
  <2>4. /\ new \in ApplyRecords /\ new.at = stage /\ new.cs = call[k].cs /\ new.bytes = call[k].bytes /\ new.shown = call[k].shown
        /\ new.record = r /\ new.withdrawn = call[k].withdrawn
    BY <2>1, <2>3 DEF ApplyTyped, ApplyRecords, ApplyPlaces
  <2>5. started \in AuditRecords /\ started.state = "pending"
    BY <2>1 DEF AuditTyped, AuditRecords
  <2> HIDE DEF new, started
  <2>6. ApplyTyped' /\ call'[k] = new /\ \A j \in Appliers : j # k => call'[j] = call[j]
    BY <2>2, <2>4, CallSet
  <2>7. /\ audit' \in [1..MaxWrites -> AuditRecords] /\ audit'[r].state = "pending"
        /\ \A s \in 1..MaxWrites : s # r => audit'[s] = audit[s]
    BY <2>1, <2>2, <2>5 DEF AuditTyped
  <2>8. \A u \in Tasks : u \in Appliers
    BY DEF Appliers
  <2>9. NotesTyped' /\ TasksTyped' /\ AuditTyped'
    BY <1>1, <2>2, <2>7 DEF NotesTyped, TasksTyped, AuditTyped, noteVars
  <2>10. OneThing'
    BY <1>1, <2>2, <2>3, <2>4, <2>6, <2>8 DEF OneThing, Underway, Status, Closed
  <2>11. NumbersOwn'
    <3>1. \A u \in Tasks : call'[u].shown = call[u].shown
      BY <2>4, <2>6, <2>8
    <3> QED
      BY <1>1, <2>2, <3>1 DEF NumbersOwn
  <2>12. WithdrawnSeen'
    BY <1>1, <2>3, <2>4, <2>6, <2>8 DEF WithdrawnSeen
  <2>13. RecordsFirst'
    <3>1. r \notin landed /\ landed \subseteq 1..MaxWrites /\ landed' = landed /\ prepared' = prepared
      BY <1>1, <2>1 DEF RecordsFirst, AuditTyped, noteVars
    <3>2. \A p \in prepared : p.record \in 1..MaxWrites /\ p.record # r
      BY <2>1 DEF RecordsFirst, AuditTyped
    <3>3. \A j \in Appliers : call'[j].at \in {"prepare", "reads", "write", "view", "record"} =>
            call'[j].record \in 1..MaxWrites /\ audit'[call'[j].record].state # "none"
      BY <2>1, <2>4, <2>6, <2>7 DEF RecordsFirst
    <3>4. \A j \in Appliers : call'[j].at \in {"view", "record"} => call'[j].record \in landed
      BY <2>3, <2>4, <2>6 DEF RecordsFirst
    <3> QED
      BY <2>1, <2>7, <3>1, <3>2, <3>3, <3>4 DEF RecordsFirst
  <2>14. BytesKept'
    BY <1>1, <2>2, <2>3, <2>4, <2>6, <2>8 DEF BytesKept
  <2> QED
    BY <2>6, <2>9, <2>10, <2>11, <2>12, <2>13, <2>14
<1> QED
  BY <1>2, <1>3 DEF Recorded

\* A task that was withdrawn is found out before its transaction.
LEMMA ReadsOfKeeps == ASSUME MaintInv, NEW k \in Appliers, ReadsOf(k) PROVE MaintInv'
<1>1. /\ call[k].at = "reads" /\ Underway(k) /\ NoFault /\ faults' \in Nat
      /\ UNCHANGED <<noteVars, shown, request, viewing, gen, prepared, audit, numbered>>
  BY FaultCounted DEF ReadsOf, CallKeeps, Underway, MaintInv
<1>2. CASE GivenUp(k)
  BY <1>1, <1>2, GivenUpKeeps
<1>3. CASE (k \in Tasks => Current(k)) /\ GoesOn(k, "write") /\ UNCHANGED task
  <2>1. k \in Tasks => ~call[k].withdrawn
    BY <1>3 DEF Current, MaintInv, WithdrawnSeen
  <2> QED
    BY <1>1, <1>3, <2>1, CallGoesKeeps DEF ApplyPlaces
<1> QED
  BY <1>2, <1>3 DEF ReadsOf

LEMMA TransactionKeeps == ASSUME MaintInv, NEW k \in Appliers, Transaction(k) PROVE MaintInv'
<1> USE DEF MaintInv
<1>1. /\ call[k].at = "write" /\ Underway(k) /\ NoFault
      /\ UNCHANGED <<shown, request, viewing, gen, prepared, audit, numbered>>
  BY DEF Transaction, Underway
<1>2. CASE GivenUp(k) /\ UNCHANGED noteVars
  BY <1>1, <1>2, GivenUpKeeps
<1>3. CASE /\ Writes(call[k].shown.bytes.doc, 1)
           /\ landed' = landed \cup {call[k].record} /\ GoesOn(k, "view") /\ UNCHANGED task
  <2>1. call[k].record \in 1..MaxWrites /\ audit[call[k].record].state # "none"
    BY <1>1 DEF RecordsFirst
  <2>2. call[k].shown.bytes \in SeenBytes /\ call[k].bytes \in SeenBytes
    BY <1>1 DEF BytesKept
  <2>3. content' \in [Docs -> Nat] /\ rev' \in Nat
    BY <1>3, <2>2 DEF Writes, NotesTyped, SeenBytes
  <2>4. /\ ApplyTyped' /\ \A j \in Appliers : j # k => call'[j] = call[j]
        /\ call'[k].at = "view" /\ call'[k].cs = call[k].cs /\ call'[k].bytes = call[k].bytes
        /\ call'[k].shown = call[k].shown /\ call'[k].record = call[k].record /\ call'[k].withdrawn = call[k].withdrawn
    BY <1>3, StageSet DEF ApplyPlaces
  <2>5. \A u \in Tasks : u \in Appliers
    BY DEF Appliers
  <2>6. NotesTyped' /\ TasksTyped' /\ AuditTyped'
    BY <1>1, <1>3, <2>1, <2>3 DEF NotesTyped, TasksTyped, AuditTyped, NoFault
  <2>7. OneThing'
    BY <1>1, <1>3, <2>4, <2>5 DEF OneThing, Underway, Status, Closed
  <2>8. NumbersOwn'
    <3>1. \A u \in Tasks : call'[u].shown = call[u].shown
      BY <2>4, <2>5
    <3> QED
      BY <1>1, <1>3, <3>1 DEF NumbersOwn
  <2>9. WithdrawnSeen'
    BY <1>1, <2>4, <2>5 DEF WithdrawnSeen
  <2>10. RecordsFirst'
    BY <1>1, <1>3, <2>1, <2>4 DEF RecordsFirst
  <2>11. BytesKept'
    BY <1>1, <1>3, <2>4 DEF BytesKept
  <2> QED
    BY <2>4, <2>6, <2>7, <2>8, <2>9, <2>10, <2>11
<1> QED
  BY <1>2, <1>3 DEF Transaction

LEMMA FinalSet ==
  ASSUME MaintInv, NEW k \in Appliers, call[k].at = "view", Final(k)
  PROVE  /\ ApplyTyped' /\ \A j \in Appliers : j # k => call'[j] = call[j]
         /\ call'[k].at = "record" /\ call'[k].bytes \in SeenBytes /\ call'[k].shown = call[k].shown
         /\ call'[k].record = call[k].record /\ call'[k].withdrawn = call[k].withdrawn
<1> DEFINE new == [call[k] EXCEPT !.at = "record", !.bytes = Now(call[k].bytes.doc)]
<1>1. call[k] \in ApplyRecords /\ call[k].bytes \in SeenBytes
  BY DEF MaintInv, ApplyTyped, BytesKept
<1>2. Now(call[k].bytes.doc) \in SeenBytes
  BY <1>1 DEF Now, SeenBytes, MaintInv, NotesTyped
<1>3. /\ new \in ApplyRecords /\ new.at = "record" /\ new.bytes \in SeenBytes /\ new.shown = call[k].shown
      /\ new.record = call[k].record /\ new.withdrawn = call[k].withdrawn
  BY <1>1, <1>2 DEF ApplyRecords, ApplyPlaces, AnyBytes
<1>4. call' = [call EXCEPT ![k] = new]
  BY DEF Final
<1> HIDE DEF new
<1> QED
  BY <1>3, <1>4, CallSet DEF MaintInv

LEMMA ApplyViewedKeeps == ASSUME MaintInv, NEW t \in Tasks, ApplyViewed(t) PROVE MaintInv'
<1> USE DEF MaintInv
<1>1. call[t].at = "view" /\ Underway(t) /\ t \in Appliers /\ UNCHANGED <<noteVars, viewing, gen, prepared, audit, numbered>>
  BY DEF ApplyViewed, Underway, Appliers
<1>2. CASE Fault /\ GivenUp(t) /\ UNCHANGED <<shown, request>>
  BY <1>1, <1>2, GivenUpKeeps
<1>3. CASE /\ Final(t) /\ Unshown(t) /\ NoFault
           /\ task' = [task EXCEPT ![t] = [status |-> IF Closed(t) THEN @.status ELSE "active",
                                           base |-> rev, cs |-> 0, bytes |-> NoBytes]]
  <2> DEFINE s == IF Closed(t) THEN task[t].status ELSE "active"
             new == [status |-> s, base |-> rev, cs |-> 0, bytes |-> NoBytes]
  <2>1. s \in {"active", "completed", "cancelled"}
    BY DEF Closed, Status
  <2>2. task' = [task EXCEPT ![t] = new]
    BY <1>3
  <2> HIDE DEF s
  <2>3. new \in TaskRecords /\ new.status = s /\ new.cs = 0
    BY <2>1 DEF TaskRecords, Statuses, AnyBytes, NotesTyped
  <2> HIDE DEF new
  <2>4. /\ task' \in [Tasks -> TaskRecords] /\ task'[t].status = s /\ task'[t].cs = 0
        /\ \A u \in Tasks : u # t => task'[u] = task[u]
    BY <2>2, <2>3, TaskSet
  <2>5. /\ ApplyTyped' /\ \A j \in Appliers : j # t => call'[j] = call[j]
        /\ call'[t].at = "record" /\ call'[t].bytes \in SeenBytes /\ call'[t].shown = call[t].shown
        /\ call'[t].record = call[t].record /\ call'[t].withdrawn = call[t].withdrawn
    BY <1>1, <1>3, FinalSet
  <2>6. /\ shown' \in [Tasks -> ShownRecords] /\ request' \in [Tasks -> Nat] /\ shown'[t].id = 0 /\ shown'[t].cs = 0
        /\ \A u \in Tasks : u # t => shown'[u] = shown[u]
    BY <1>3, ShownEmptied, RecordsThere
  <2>7. \A u \in Tasks : u \in Appliers
    BY DEF Appliers
  <2>8. NotesTyped' /\ TasksTyped' /\ AuditTyped'
    BY <1>1, <1>3, <2>4, <2>6 DEF NotesTyped, TasksTyped, AuditTyped, noteVars, NoFault
  <2>9. OneThing'
    BY <1>1, <2>1, <2>4, <2>5, <2>7 DEF OneThing, Underway, Status, Closed
  <2>10. NumbersOwn'
    <3>1. \A u \in Tasks : call'[u].shown = call[u].shown
      BY <2>5, <2>7
    <3>2. \A v \in viewing : v.request # 0
      BY DEF TasksTyped, ViewRecords
    <3> QED
      BY <1>1, <2>4, <2>6, <3>1, <3>2 DEF NumbersOwn, NotesTyped
  <2>11. WithdrawnSeen'
    BY <1>1, <2>5, <2>6, <2>7 DEF WithdrawnSeen
  <2>12. RecordsFirst'
    BY <1>1, <2>5 DEF RecordsFirst, noteVars
  <2>13. BytesKept'
    <3>1. \A v \in viewing : v.task \in Tasks /\ v.cs # 0
      BY DEF TasksTyped, ViewRecords
    <3>2. call'[t].shown.id # 0
      BY <1>1, <2>5 DEF BytesKept
    <3> QED
      BY <1>1, <2>4, <2>5, <2>6, <2>7, <3>1, <3>2 DEF BytesKept
  <2> QED
    BY <2>5, <2>8, <2>9, <2>10, <2>11, <2>12, <2>13
<1> QED
  BY <1>2, <1>3 DEF ApplyViewed

LEMMA RecordCompletedKeeps == ASSUME MaintInv, NEW k \in Appliers, RecordCompleted(k) PROVE MaintInv'
<1> USE DEF MaintInv
<1>1. /\ call[k].at = "record" /\ CallOver(k) /\ (Fault \/ NoFault)
      /\ UNCHANGED <<noteVars, taskVars, viewing, gen, prepared, numbered>>
  BY DEF RecordCompleted
<1>2. /\ call[k].record \in landed /\ call[k].record \in 1..MaxWrites /\ call[k].bytes \in SeenBytes /\ k \in Appliers
  BY <1>1 DEF RecordsFirst, BytesKept
<1>3. /\ audit' \in [1..MaxWrites -> AuditRecords]
      /\ \A r \in 1..MaxWrites : \/ audit'[r] = audit[r]
                                 \/ audit'[r].state = "applied" /\ audit'[r].bytes \in SeenBytes /\ r \in landed
  <2>1. [state |-> "applied", bytes |-> call[k].bytes] \in AuditRecords
    BY <1>2 DEF AuditRecords, AnyBytes
  <2>2. audit \in [1..MaxWrites -> AuditRecords]
    BY DEF AuditTyped
  <2>3. CASE audit' = [audit EXCEPT ![call[k].record] = [state |-> "applied", bytes |-> call[k].bytes]]
    BY <1>2, <2>1, <2>2, <2>3
  <2>4. CASE UNCHANGED audit
    BY <2>2, <2>4
  <2> QED
    BY <2>3, <2>4 DEF RecordCompleted
<1>4. ApplyTyped' /\ call'[k] = NoCall /\ \A j \in Appliers : j # k => call'[j] = call[j]
  BY <1>1, CallEnded
<1>5. \A u \in Tasks : u \in Appliers
  BY DEF Appliers
<1>6. NotesTyped' /\ TasksTyped' /\ AuditTyped'
  BY <1>1, <1>3, FaultCounted DEF NotesTyped, TasksTyped, AuditTyped, noteVars, taskVars
<1>7. OneThing'
  BY <1>1, <1>4, <1>5, RecordsThere DEF OneThing, Underway, Status, Closed, taskVars
<1>8. NumbersOwn'
  <2>1. \A u \in Tasks : call'[u].shown = call[u].shown \/ call'[u].shown.id = 0
    BY <1>4, <1>5, RecordsThere
  <2>2. \A v \in viewing : v.request # 0
    BY DEF TasksTyped, ViewRecords
  <2> QED
    BY <1>1, <2>1, <2>2 DEF NumbersOwn, NotesTyped, taskVars
<1>9. WithdrawnSeen'
  BY <1>1, <1>4, <1>5, RecordsThere DEF WithdrawnSeen, taskVars
<1>10. RecordsFirst'
  <2>1. landed \subseteq 1..MaxWrites /\ landed' = landed /\ prepared' = prepared /\ \A p \in prepared : p.record \in 1..MaxWrites
    BY <1>1 DEF AuditTyped, noteVars
  <2>2. \A j \in Appliers : call'[j].at # "idle" => call'[j] = call[j]
    BY <1>4, RecordsThere
  <2> QED
    BY <1>3, <2>1, <2>2 DEF RecordsFirst
<1>11. BytesKept'
  BY <1>1, <1>4, RecordsThere DEF BytesKept, taskVars
<1> QED
  BY <1>4, <1>6, <1>7, <1>8, <1>9, <1>10, <1>11

LEMMA PrepareUndoKeeps == ASSUME MaintInv, NEW r \in 1..MaxWrites, PrepareUndo(r) PROVE MaintInv'
<1> USE DEF MaintInv
<1>1. /\ audit[r].state = "applied" /\ prepared' = prepared \cup {[record |-> r, base |-> rev]}
      /\ UNCHANGED <<noteVars, taskVars, viewing, gen, call, audit, numbered, faults>>
  BY DEF PrepareUndo
<1>2. NotesTyped' /\ TasksTyped' /\ ApplyTyped' /\ AuditTyped'
  BY <1>1 DEF NotesTyped, TasksTyped, ApplyTyped, AuditTyped, noteVars, taskVars
<1>3. OneThing' /\ NumbersOwn' /\ WithdrawnSeen'
  BY <1>1 DEF OneThing, Underway, Status, Closed, NumbersOwn, WithdrawnSeen, taskVars
<1>4. BytesKept' /\ RecordsFirst'
  BY <1>1 DEF BytesKept, RecordsFirst, noteVars, taskVars
<1> QED
  BY <1>2, <1>3, <1>4

\* What an undo does to its own call is nothing to the tasks.
LEMMA UndoKeeps ==
  ASSUME MaintInv, NEW u \in Undos, ApplyTyped', \A j \in Appliers : j # u => call'[j] = call[j],
         call'[u].at # "idle" => call'[u].bytes \in SeenBytes,
         call'[u].at \in {"reads", "write"} => call'[u].shown.bytes = call'[u].bytes,
         call'[u].at \in {"load", "audit"} \/ (call[u].at \in {"prepare", "view"} /\ call'[u].record = call[u].record),
         call'[u].at \in {"view", "record"} => call[u].at = "view",
         prepared' \subseteq prepared,
         UNCHANGED <<noteVars, taskVars, viewing, gen, audit, numbered>>, faults' \in Nat
  PROVE  MaintInv'
<1> USE DEF MaintInv
<1>1. u \in Appliers /\ u \notin Tasks /\ \A t \in Tasks : t \in Appliers /\ call'[t] = call[t]
  BY MaintAssumption DEF Appliers
<1>2. NotesTyped' /\ TasksTyped' /\ AuditTyped'
  BY DEF NotesTyped, TasksTyped, AuditTyped, noteVars, taskVars
<1>3. OneThing' /\ NumbersOwn' /\ WithdrawnSeen'
  BY <1>1 DEF OneThing, Underway, Status, Closed, NumbersOwn, WithdrawnSeen, taskVars
<1>4. BytesKept'
  BY <1>1 DEF BytesKept, taskVars
<1>5. RecordsFirst'
  BY <1>1 DEF RecordsFirst, noteVars
<1> QED
  BY <1>2, <1>3, <1>4, <1>5

LEMMA ApplyUndoKeeps == ASSUME MaintInv, NEW u \in Undos, NEW p \in prepared, ApplyUndo(u, p) PROVE MaintInv'
<1> DEFINE new == [NoCall EXCEPT !.at = "load", !.cs = p.record, !.base = p.base, !.bytes = audit[p.record].bytes]
<1>1. /\ call' = [call EXCEPT ![u] = new]
      /\ UNCHANGED <<noteVars, taskVars, viewing, gen, prepared, audit, numbered, faults>>
  BY DEF ApplyUndo
<1>2. p.record \in 1..MaxWrites /\ p.record \in Nat /\ p.base \in Nat /\ audit[p.record].bytes \in SeenBytes /\ u \in Appliers
  BY DEF MaintInv, AuditTyped, RecordsFirst, Appliers
<1>3. new \in ApplyRecords /\ new.at = "load" /\ new.bytes = audit[p.record].bytes
  BY <1>2, RecordsThere DEF NoCall, ApplyRecords, ApplyPlaces, AnyBytes
<1> HIDE DEF new
<1>4. ApplyTyped' /\ call'[u] = new /\ \A j \in Appliers : j # u => call'[j] = call[j]
  BY <1>1, <1>2, <1>3, CallSet DEF MaintInv
<1> QED
  BY <1>1, <1>2, <1>3, <1>4, UndoKeeps DEF MaintInv, NotesTyped

LEMMA UndoLoadedKeeps == ASSUME MaintInv, NEW u \in Undos, UndoLoaded(u) PROVE MaintInv'
<1>1. /\ call[u].at = "load" /\ u \in Appliers /\ u \notin Tasks /\ prepared' \subseteq prepared /\ faults' \in Nat
      /\ UNCHANGED <<noteVars, task, shown, request, viewing, gen, audit, numbered>>
  BY MaintAssumption, FaultCounted DEF UndoLoaded, taskVars, Appliers, MaintInv
<1>2. CASE GoesOn(u, "audit") /\ UNCHANGED prepared
  BY <1>1, <1>2, CallGoesKeeps DEF ApplyPlaces
<1>3. CASE CallOver(u)
  BY <1>1, <1>3, CallEndsKeeps
<1> QED
  BY <1>2, <1>3 DEF UndoLoaded

LEMMA UndoPreparedKeeps == ASSUME MaintInv, NEW u \in Undos, UndoPrepared(u) PROVE MaintInv'
<1>1. /\ call[u].at = "prepare" /\ u \in Appliers /\ u \notin Tasks /\ faults' \in Nat
      /\ UNCHANGED <<noteVars, taskVars, viewing, gen, prepared, audit, numbered>>
  BY MaintAssumption, FaultCounted DEF UndoPrepared, CallKeeps, taskVars, Appliers, MaintInv
<1>2. CASE CallOver(u)
  BY <1>1, <1>2, CallEndsKeeps DEF taskVars
<1>3. CASE SourceKept(call[u].bytes) /\ call' = [call EXCEPT ![u].at = "reads", ![u].shown.bytes = Now(call[u].bytes.doc)]
  <2>1. call[u] \in ApplyRecords /\ call[u].bytes \in SeenBytes
    BY <1>1 DEF MaintInv, ApplyTyped, BytesKept
  <2>2. Now(call[u].bytes.doc) = call[u].bytes
    BY <1>3, <2>1 DEF Now, SourceKept, SameBytes, SeenBytes
  <2> DEFINE look == [call[u].shown EXCEPT !.bytes = call[u].bytes]
             new == [call[u] EXCEPT !.at = "reads", !.shown = look]
  <2>3. look \in ShownRecords /\ look.bytes = call[u].bytes
    BY <2>1 DEF ApplyRecords, ShownRecords, AnyBytes
  <2>4. call' = [call EXCEPT ![u] = new]
    BY <1>3, <2>2
  <2> HIDE DEF look
  <2>5. new \in ApplyRecords /\ new.at = "reads" /\ new.bytes = call[u].bytes /\ new.shown = look /\ new.record = call[u].record
    BY <2>1, <2>3 DEF ApplyRecords, ApplyPlaces
  <2> HIDE DEF new
  <2>6. ApplyTyped' /\ call'[u] = new /\ \A j \in Appliers : j # u => call'[j] = call[j]
    BY <1>1, <2>4, <2>5, CallSet DEF MaintInv
  <2> QED
    BY <1>1, <2>1, <2>3, <2>5, <2>6, UndoKeeps
<1> QED
  BY <1>2, <1>3 DEF UndoPrepared

LEMMA UndoViewedKeeps == ASSUME MaintInv, NEW u \in Undos, UndoViewed(u) PROVE MaintInv'
<1>1. /\ call[u].at = "view" /\ u \in Appliers /\ u \notin Tasks /\ prepared' \subseteq prepared /\ faults' \in Nat
      /\ UNCHANGED <<noteVars, taskVars, viewing, gen, audit, numbered>>
  BY MaintAssumption, FaultCounted DEF UndoViewed, Appliers, MaintInv
<1>2. CASE CallOver(u)
  BY <1>1, <1>2, CallEndsKeeps DEF taskVars
<1>3. CASE Final(u)
  BY <1>1, <1>3, FinalSet, UndoKeeps
<1> QED
  BY <1>2, <1>3 DEF UndoViewed

LEMMA MaintCrashKeeps == ASSUME MaintInv, MaintCrash PROVE MaintInv'
<1> USE RecordsThere DEF MaintInv
<1>1. /\ task' = [t \in Tasks |-> NoTask] /\ shown' = [t \in Tasks |-> NoShown]
      /\ request' = [t \in Tasks |-> 0] /\ viewing' = {} /\ gen' = [t \in Tasks |-> NoGen]
      /\ call' = [k \in Appliers |-> NoCall] /\ prepared' = {} /\ faults' \in Nat
      /\ UNCHANGED <<noteVars, audit, numbered>>
  BY FaultCounted DEF MaintCrash, Appliers
<1>2. NotesTyped' /\ AuditTyped'
  BY <1>1 DEF NotesTyped, AuditTyped, noteVars
<1>3. TasksTyped' /\ ApplyTyped'
  BY <1>1 DEF TasksTyped, ApplyTyped
<1>4. OneThing'
  BY <1>1 DEF OneThing, Underway, Status, Closed, Appliers
<1>5. NumbersOwn'
  BY <1>1 DEF NumbersOwn, NotesTyped, Appliers
<1>6. BytesKept'
  BY <1>1 DEF BytesKept, Appliers
<1>7. WithdrawnSeen' /\ RecordsFirst'
  BY <1>1 DEF WithdrawnSeen, RecordsFirst, Appliers, noteVars
<1> QED
  BY <1>2, <1>3, <1>4, <1>5, <1>6, <1>7

LEMMA MaintStutter == ASSUME MaintInv, UNCHANGED maintVars PROVE MaintInv'
<1> USE DEF MaintInv, maintVars, noteVars, taskVars
<1>1. NotesTyped' /\ TasksTyped' /\ ApplyTyped' /\ AuditTyped'
  BY DEF NotesTyped, TasksTyped, ApplyTyped, AuditTyped
<1>2. OneThing' /\ NumbersOwn' /\ WithdrawnSeen'
  BY DEF OneThing, Underway, Status, Closed, NumbersOwn, WithdrawnSeen
<1>3. BytesKept' /\ RecordsFirst'
  BY DEF BytesKept, RecordsFirst
<1> QED
  BY <1>1, <1>2, <1>3

LEMMA MaintInvStep == MaintInv /\ [MaintNext]_maintVars => MaintInv'
<1> SUFFICES ASSUME MaintInv, [MaintNext]_maintVars PROVE MaintInv'
  OBVIOUS
<1>1. ASSUME NEW d \in Docs, Edited(d) PROVE MaintInv'
  BY <1>1, EditedKeeps
<1>2. ASSUME NEW t \in Tasks,
             \/ MaintStart(t) \/ MaintPropose(t) \/ GenLoaded(t) \/ GenAborted(t) \/ GenFailed(t)
             \/ \E d \in Docs : GenProposes(t, d)
      PROVE  MaintInv'
  BY <1>2, MaintStartKeeps, MaintProposeKeeps, GenLoadedKeeps, GenGivenUpKeeps, GenProposesKeeps
<1>3. ASSUME NEW t \in Tasks,
             \/ MaintClose(t, "cancelled") \/ MaintClose(t, "completed") \/ MaintDismiss(t)
             \/ MaintDiscuss(t) \/ TurnAborted(t) \/ MaintPreview(t)
      PROVE  MaintInv'
  BY <1>3, MaintCloseKeeps, MaintDismissKeeps, MaintDiscussKeeps, TurnAbortedKeeps, MaintPreviewKeeps
<1>4. ASSUME NEW t \in Tasks, MaintApply(t) \/ ApplyLoaded(t) \/ ApplyEvidence(t) \/ ApplyCheckout(t) \/ ApplyViewed(t)
      PROVE  MaintInv'
  BY <1>4, MaintApplyKeeps, ApplyLoadedKeeps, ApplyEvidenceKeeps, ApplyCheckoutKeeps, ApplyViewedKeeps
<1>5. ASSUME NEW v \in viewing, PreviewChecked(v) \/ PreviewMade(v) PROVE MaintInv'
  BY <1>5, PreviewCheckedKeeps, PreviewMadeKeeps
<1>6. ASSUME NEW k \in Tasks \cup Undos, Recorded(k) \/ ReadsOf(k) \/ Transaction(k) \/ RecordCompleted(k) PROVE MaintInv'
  BY <1>6, RecordedKeeps, ReadsOfKeeps, TransactionKeeps, RecordCompletedKeeps DEF Appliers
<1>7. ASSUME NEW r \in 1..MaxWrites, PrepareUndo(r) PROVE MaintInv'
  BY <1>7, PrepareUndoKeeps
<1>8. ASSUME NEW u \in Undos,
             (\E p \in prepared : ApplyUndo(u, p)) \/ UndoLoaded(u) \/ UndoPrepared(u) \/ UndoViewed(u)
      PROVE  MaintInv'
  BY <1>8, ApplyUndoKeeps, UndoLoadedKeeps, UndoPreparedKeeps, UndoViewedKeeps
<1>9. CASE MaintCrash
  BY <1>9, MaintCrashKeeps
<1>10. CASE UNCHANGED maintVars
  BY <1>10, MaintStutter
<1> QED
  BY <1>1, <1>2, <1>3, <1>4, <1>5, <1>6, <1>7, <1>8, <1>9, <1>10 DEF MaintNext
-----------------------------------------------------------------------------
(* What a step may do to a call, and to a task that is closed.              *)
\* Only its transaction brings a call to the state after it.
LEMMA ViewsAfterWrites ==
  ASSUME MaintInv, [MaintNext]_maintVars, NEW k \in Appliers, call[k].at = "write", call'[k].at = "view"
  PROVE  Transaction(k)
<1> USE DEF MaintInv
<1>1. ASSUME NEW j \in Appliers, NEW stage \in ApplyPlaces, GoesOn(j, stage), stage # "view" PROVE FALSE
  BY <1>1, StageSet
<1>2. ASSUME NEW j \in Appliers, CallOver(j) PROVE FALSE
  BY <1>2, CallEnded, RecordsThere
<1>3. ASSUME UNCHANGED call PROVE FALSE
  BY <1>3
<1>4. ASSUME NEW t \in Tasks, Withdrawn(t) PROVE FALSE
  BY <1>4, CallWithdrawn
<1>5. ASSUME NEW j \in Appliers, call[j].at = "view", Final(j) PROVE FALSE
  BY <1>5, FinalSet
<1>6. \A t \in Tasks : t \in Appliers
  BY DEF Appliers
<1>7. \A u \in Undos : u \in Appliers
  BY DEF Appliers
<1>8. CASE \E d \in Docs : Edited(d)
  BY <1>3, <1>8 DEF Edited
<1>9. ASSUME NEW t \in Tasks,
             \/ MaintStart(t) \/ MaintPropose(t) \/ GenLoaded(t) \/ GenAborted(t) \/ GenFailed(t)
             \/ \E d \in Docs : GenProposes(t, d)
       PROVE  FALSE
  BY <1>3, <1>9 DEF MaintStart, MaintPropose, GenLoaded, GenAborted, GenFailed, GenProposes, GenKeeps
<1>10. ASSUME NEW t \in Tasks,
             \/ MaintClose(t, "cancelled") \/ MaintClose(t, "completed") \/ MaintDismiss(t)
             \/ MaintDiscuss(t) \/ TurnAborted(t) \/ MaintPreview(t)
       PROVE  FALSE
  BY <1>3, <1>4, <1>10 DEF MaintClose, MaintDismiss, MaintDiscuss, TurnAborted, MaintPreview
<1>11. ASSUME NEW t \in Tasks, MaintApply(t) PROVE FALSE
  <2>1. /\ call' = [call EXCEPT ![t] = [NoCall EXCEPT !.at = "load", !.cs = task[t].cs, !.bytes = task[t].bytes, !.shown = shown[t]]]
        /\ t \in Appliers
    BY <1>6, <1>11 DEF MaintApply
  <2> QED
    BY <2>1 DEF ApplyTyped, NoCall
<1>12. ASSUME NEW t \in Tasks, ApplyLoaded(t) \/ ApplyEvidence(t) \/ ApplyCheckout(t) PROVE FALSE
  BY <1>1, <1>2, <1>6, <1>12 DEF ApplyLoaded, ApplyEvidence, ApplyCheckout, ApplyPlaces
<1>13. ASSUME NEW t \in Tasks, ApplyViewed(t) PROVE FALSE
  BY <1>2, <1>5, <1>6, <1>13 DEF ApplyViewed, GivenUp
<1>14. CASE \E v \in viewing : PreviewChecked(v) \/ PreviewMade(v)
  BY <1>3, <1>14 DEF PreviewChecked, PreviewMade, PreviewKeeps
<1>15. ASSUME NEW j \in Appliers, Recorded(j) PROVE FALSE
  <2>1. call[j].at = "audit"
    BY <1>15 DEF Recorded
  <2>2. ASSUME call' = [call EXCEPT ![j].at = IF j \in Tasks THEN "reads" ELSE "prepare", ![j].record = NextRecord] PROVE FALSE
    BY <2>1, <2>2 DEF ApplyTyped
  <2> QED
    BY <1>2, <1>15, <2>2 DEF Recorded, GivenUp
<1>16. ASSUME NEW j \in Appliers, ReadsOf(j) \/ RecordCompleted(j) PROVE FALSE
  BY <1>1, <1>2, <1>16 DEF ReadsOf, RecordCompleted, GivenUp, ApplyPlaces
<1>17. ASSUME NEW j \in Appliers, Transaction(j) PROVE j = k
  <2>1. CASE GoesOn(j, "view")
    BY <2>1, StageSet DEF ApplyPlaces
  <2> QED
    BY <1>2, <1>17, <2>1 DEF Transaction, GivenUp
<1>18. CASE \E r \in 1..MaxWrites : PrepareUndo(r)
  BY <1>3, <1>18 DEF PrepareUndo
<1>19. ASSUME NEW u \in Undos, NEW p \in prepared, ApplyUndo(u, p) PROVE FALSE
  <2>1. call' = [call EXCEPT ![u] = [NoCall EXCEPT !.at = "load", !.cs = p.record, !.base = p.base, !.bytes = audit[p.record].bytes]]
    BY <1>19 DEF ApplyUndo
  <2> QED
    BY <1>7, <2>1 DEF ApplyTyped, NoCall
<1>20. ASSUME NEW u \in Undos, UndoLoaded(u) PROVE FALSE
  BY <1>1, <1>2, <1>7, <1>20 DEF UndoLoaded, ApplyPlaces
<1>21. ASSUME NEW u \in Undos, UndoPrepared(u) PROVE FALSE
  <2>1. call[u].at = "prepare" /\ u \in Appliers
    BY <1>7, <1>21 DEF UndoPrepared
  <2>2. ASSUME call' = [call EXCEPT ![u].at = "reads", ![u].shown.bytes = Now(call[u].bytes.doc)] PROVE FALSE
    BY <2>1, <2>2 DEF ApplyTyped
  <2> QED
    BY <1>2, <1>21, <2>1, <2>2 DEF UndoPrepared
<1>22. ASSUME NEW u \in Undos, UndoViewed(u) PROVE FALSE
  BY <1>2, <1>5, <1>7, <1>22 DEF UndoViewed
<1>23. ASSUME MaintCrash PROVE FALSE
  BY <1>23, RecordsThere DEF MaintCrash, Appliers
<1>24. CASE UNCHANGED maintVars
  BY <1>3, <1>24 DEF maintVars
<1>25. ASSUME NEW t \in Tasks,
             MaintApply(t) \/ ApplyLoaded(t) \/ ApplyEvidence(t) \/ ApplyCheckout(t) \/ ApplyViewed(t)
       PROVE  FALSE
  BY <1>11, <1>12, <1>13, <1>25
<1>26. ASSUME NEW j \in Tasks \cup Undos, Recorded(j) \/ ReadsOf(j) \/ Transaction(j) \/ RecordCompleted(j) PROVE Transaction(k)
  BY <1>15, <1>16, <1>17, <1>26 DEF Appliers
<1>27. ASSUME NEW u \in Undos, (\E p \in prepared : ApplyUndo(u, p)) \/ UndoLoaded(u) \/ UndoPrepared(u) \/ UndoViewed(u)
       PROVE  FALSE
  BY <1>19, <1>20, <1>21, <1>22, <1>27
<1> QED
  BY <1>8, <1>9, <1>10, <1>14, <1>18, <1>23, <1>24, <1>25, <1>26, <1>27 DEF MaintNext

\* A task that is closed is told otherwise only when the revision has moved or a read fails.
LEMMA ClosedStays ==
  ASSUME MaintInv, [MaintNext]_maintVars, NEW t \in Tasks, Closed(t), task'[t].status # "none"
  PROVE  task'[t].status \in {"completed", "cancelled"} \/ rev # task[t].base \/ faults' # faults
<1> USE DEF MaintInv
<1>1. task[t].status \in {"completed", "cancelled"} /\ faults \in Nat
  BY DEF Closed, Status, NotesTyped
<1>2. ASSUME UNCHANGED task PROVE task'[t].status \in {"completed", "cancelled"}
  BY <1>1, <1>2
<1>3. ASSUME NEW u \in Tasks, NEW s, To(u, s) PROVE u = t \/ task'[t].status \in {"completed", "cancelled"}
  BY <1>1, <1>3 DEF To, TasksTyped
<1>4. ASSUME NEW s, To(t, s) PROVE task'[t].status = s
  BY <1>4 DEF To, TasksTyped, TaskRecords
<1>5. ASSUME Fault PROVE faults' # faults
  BY <1>1, <1>5 DEF Fault
<1>6. ASSUME NEW u \in Tasks, NEW s \in Statuses, task' = [task EXCEPT ![u] = [@ EXCEPT !.status = s, !.cs = 0, !.bytes = NoBytes]],
             u = t => s \in {"completed", "cancelled"}
      PROVE  task'[t].status \in {"completed", "cancelled"}
  BY <1>1, <1>6, TaskEmptied
<1>7. \A u \in Tasks : Open(u) => u # t
  BY DEF Open
<1>8. ASSUME NEW u \in Tasks, Status(u) \notin {"completed", "cancelled"} PROVE u # t
  BY <1>1, <1>8 DEF Status
<1>9. ASSUME NEW u \in Tasks, GivenUp(u) PROVE task'[t].status \in {"completed", "cancelled"}
  <2>1. CASE u = t
    BY <1>1, <1>4, <1>9, <2>1 DEF GivenUp, Failed, Status
  <2>2. CASE u # t
    BY <1>3, <1>9, <2>2 DEF GivenUp, Failed
  <2> QED
    BY <2>1, <2>2
<1>10. ASSUME NEW u \in Tasks, MaintStart(u) \/ MaintPropose(u) PROVE task'[t].status \in {"completed", "cancelled"}
  <2>1. CASE MaintStart(u)
    <3>1. u # t /\ task' = [task EXCEPT ![u] = [NoTask EXCEPT !.status = "active", !.base = rev]]
      BY <1>8, <2>1 DEF MaintStart
    <3> QED
      BY <1>1, <3>1 DEF TasksTyped
  <2>2. CASE MaintPropose(u)
    BY <1>3, <1>7, <2>2 DEF MaintPropose
  <2> QED
    BY <1>10, <2>1, <2>2
<1>11. ASSUME NEW u \in Tasks, GenLoaded(u)
       PROVE  task'[t].status \in {"completed", "cancelled"} \/ rev # task[t].base \/ faults' # faults
  BY <1>2, <1>3, <1>5, <1>11 DEF GenLoaded
<1>12. ASSUME NEW u \in Tasks, GenAborted(u) PROVE task'[t].status \in {"completed", "cancelled"}
  <2>1. CASE u = t
    BY <1>1, <1>4, <1>12, <2>1 DEF GenAborted, Restored, Status
  <2>2. CASE u # t
    BY <1>3, <1>12, <2>2 DEF GenAborted
  <2> QED
    BY <2>1, <2>2
<1>13. \A u \in Tasks : gen[u].at # "idle" /\ ~gen[u].aborted => u # t
  BY <1>1 DEF OneThing, Status
<1>14. ASSUME NEW u \in Tasks, GenFailed(u) \/ (\E d \in Docs : GenProposes(u, d)) PROVE task'[t].status \in {"completed", "cancelled"}
  <2>1. u # t
    BY <1>13, <1>14 DEF GenFailed, GenProposes
  <2>2. CASE GenFailed(u)
    BY <1>3, <2>1, <2>2 DEF GenFailed
  <2>3. ASSUME NEW d \in Docs, GenProposes(u, d) PROVE task'[t] = task[t]
    BY <2>1, <2>3 DEF GenProposes, TasksTyped
  <2> QED
    BY <1>1, <1>14, <2>2, <2>3
<1>15. ASSUME NEW u \in Tasks, MaintClose(u, "cancelled") \/ MaintClose(u, "completed") PROVE task'[t].status \in {"completed", "cancelled"}
  BY <1>6, <1>15 DEF MaintClose, Statuses
<1>16. ASSUME NEW u \in Tasks, MaintDismiss(u) \/ MaintDiscuss(u) PROVE task'[t].status \in {"completed", "cancelled"}
  <2>1. CASE Rejected(u)
    <3>1. u # t
      BY <1>7, <1>8, <1>16 DEF MaintDismiss, MaintDiscuss
    <3> QED
      BY <1>6, <2>1, <3>1 DEF Rejected, Statuses
  <2> QED
    BY <1>2, <1>16, <2>1 DEF MaintDismiss, MaintDiscuss
<1>17. ASSUME NEW u \in Tasks, MaintApply(u) PROVE task'[t].status \in {"completed", "cancelled"}
  BY <1>3, <1>8, <1>17 DEF MaintApply
<1>18. ASSUME NEW u \in Tasks, ApplyLoaded(u) \/ ApplyEvidence(u)
       PROVE  task'[t].status \in {"completed", "cancelled"} \/ rev # task[t].base \/ faults' # faults
  <2>1. Applying(u) => u # t
    BY <1>1 DEF Applying, Status
  <2> QED
    BY <1>2, <1>3, <1>5, <1>18, <2>1 DEF ApplyLoaded, ApplyEvidence
<1>19. ASSUME NEW u \in Tasks, ApplyCheckout(u)
       PROVE  task'[t].status \in {"completed", "cancelled"} \/ rev # task[t].base \/ faults' # faults
  BY <1>2, <1>3, <1>5, <1>9, <1>19 DEF ApplyCheckout, GivenUp
<1>20. ASSUME NEW u \in Tasks, ApplyViewed(u) PROVE task'[t].status \in {"completed", "cancelled"}
  <2>1. ASSUME task' = [task EXCEPT ![u] = [status |-> IF Closed(u) THEN @.status ELSE "active", base |-> rev, cs |-> 0, bytes |-> NoBytes]]
        PROVE  task'[t].status \in {"completed", "cancelled"}
    <3>1. u = t => task'[t].status = task[t].status
      BY <2>1 DEF TasksTyped
    <3>2. u # t => task'[t] = task[t]
      BY <2>1 DEF TasksTyped
    <3> QED
      BY <1>1, <3>1, <3>2
  <2> QED
    BY <1>9, <1>20, <2>1 DEF ApplyViewed
<1>21. ASSUME NEW k \in Tasks \cup Undos, Recorded(k) \/ ReadsOf(k) \/ Transaction(k) \/ RecordCompleted(k)
       PROVE  task'[t].status \in {"completed", "cancelled"}
  <2>1. CASE GivenUp(k)
    BY <1>2, <1>9, <2>1 DEF GivenUp
  <2> QED
    BY <1>2, <1>21, <2>1 DEF Recorded, ReadsOf, Transaction, RecordCompleted, taskVars
<1>22. CASE MaintCrash
  BY <1>22, RecordsThere DEF MaintCrash
<1>23. ASSUME NEW u \in Tasks, TurnAborted(u) \/ MaintPreview(u) PROVE task'[t].status \in {"completed", "cancelled"}
  BY <1>2, <1>23 DEF TurnAborted, MaintPreview, taskVars
<1>24. CASE (\E d \in Docs : Edited(d)) \/ (\E v \in viewing : PreviewChecked(v) \/ PreviewMade(v))
            \/ (\E r \in 1..MaxWrites : PrepareUndo(r))
  BY <1>2, <1>24 DEF Edited, PreviewChecked, PreviewMade, PreviewKeeps, PrepareUndo, taskVars
<1>25. ASSUME NEW u \in Undos, (\E p \in prepared : ApplyUndo(u, p)) \/ UndoLoaded(u) \/ UndoPrepared(u) \/ UndoViewed(u)
       PROVE  task'[t].status \in {"completed", "cancelled"}
  BY <1>2, <1>25 DEF ApplyUndo, UndoLoaded, UndoPrepared, UndoViewed, taskVars
<1>26. CASE UNCHANGED maintVars
  BY <1>2, <1>26 DEF maintVars, taskVars
<1> QED
  BY <1>10, <1>11, <1>12, <1>14, <1>15, <1>16, <1>17, <1>18, <1>19, <1>20, <1>21, <1>22, <1>23, <1>24, <1>25, <1>26
     DEF MaintNext

\* Maintenance (janus/maintenance/service.ts, harness/maintenance-apply.ts): no task is left busy by what has ended,
\* what the user withdrew is not written, and nothing is written without a record.
THEOREM MaintAlwaysSafe == MaintSpec => []MaintSafe
<1>1. MaintInit => MaintInv
  BY MaintInvInit
<1>2. MaintInv /\ [MaintNext]_maintVars => MaintInv'
  BY MaintInvStep
<1>3. MaintInv => MaintSafe
  <2> SUFFICES ASSUME MaintInv PROVE MaintSafe
    OBVIOUS
  <2> USE DEF MaintInv
  <2>1. ASSUME NEW t \in Tasks
        PROVE  /\ Status(t) \in Statuses
               /\ Status(t) = "analyzing" => gen[t].at # "idle"
               /\ Status(t) = "applying" => call[t].at \notin {"idle", "record"}
    BY DEF Status, TasksTyped, TaskRecords, OneThing, Underway
  <2>2. \A r \in 1..MaxWrites : audit[r].state \in {"none", "pending", "applied"}
    BY DEF AuditTyped, AuditRecords
  <2>3. MaintTypeOK
    BY <2>1, <2>2 DEF MaintTypeOK, Statuses
  <2>4. MaintWithdrawn
    BY DEF MaintWithdrawn, WithdrawnSeen
  <2>5. MaintAudited
    BY DEF MaintAudited, RecordsFirst
  <2> QED
    BY <2>3, <2>4, <2>5 DEF MaintSafe
<1> QED
  BY <1>1, <1>2, <1>3, PTL DEF MaintSpec

\* Maintenance: a note is changed only from the bytes that were seen, and a task that was closed stays so, the
\* revision and failing reads apart.
THEOREM MaintStepsKept == MaintSpec => MaintSteps
<1>1. MaintInit => MaintInv
  BY MaintInvInit
<1>2. MaintInv /\ [MaintNext]_maintVars => MaintInv'
  BY MaintInvStep
<1>3. MaintInv /\ [MaintNext]_maintVars
        => [\A k \in Tasks \cup Undos : call[k].at = "write" /\ call'[k].at = "view" => SameBytes(call[k].bytes)]_maintVars
  <2> SUFFICES ASSUME MaintInv, [MaintNext]_maintVars, NEW k \in Appliers, call[k].at = "write", call'[k].at = "view"
               PROVE  SameBytes(call[k].bytes)
    BY DEF Appliers
  <2>1. Transaction(k)
    BY ViewsAfterWrites
  <2>2. ~SameBytes(call[k].shown.bytes) => CallOver(k)
    BY <2>1 DEF Transaction, GivenUp
  <2>3. ~CallOver(k)
    BY CallEnded, RecordsThere DEF MaintInv
  <2> QED
    BY <2>2, <2>3 DEF MaintInv, BytesKept
<1>4. MaintInv /\ [MaintNext]_maintVars
        => [\A t \in Tasks : Closed(t) /\ Status(t)' # "none" => Closed(t)' \/ rev # task[t].base \/ faults' # faults]_maintVars
  BY ClosedStays DEF Status, Closed
<1> QED
  BY <1>1, <1>2, <1>3, <1>4, PTL DEF MaintSpec, MaintSteps, MaintOnSeen, MaintStaysClosed
-----------------------------------------------------------------------------
(***************************************************************************)
(* The host that phones pair with. The invariant says that a start has the *)
(* host to itself from the stop it begins with, and which windows there are.*)
(***************************************************************************)

StartPlaces == {"idle", "stopping", "checking", "checked", "signalling", "making", "loading", "confirming", "confirmed", "undoing"}
StartRecords == [at : StartPlaces, of : Nat, host : Nat, server : Nat, allowed : BOOLEAN]
RefreshRecords == [at : {"idle", "making", "loading"}, of : Nat, host : Nat]

HostTyped ==
  /\ generation \in Nat /\ options \in BOOLEAN /\ timer \in {"off", "expiry", "retry"}
  /\ hostsMade \in Nat /\ hostsMade <= MaxHosts /\ nowShown \in Nat /\ nowShown <= hostsMade
  /\ \A h \in hosts : h \in Nat \ {0} /\ h <= hostsMade
  /\ madeFor \in [1..MaxHosts -> Nat] /\ devices \in [1..MaxHosts -> SUBSET Phones]
  /\ start \in StartRecords /\ start.host <= hostsMade /\ refresh \in RefreshRecords /\ refresh.host <= hostsMade
SignalTyped ==
  /\ starts \in 0..MaxStarts /\ servers \subseteq 1..MaxStarts /\ closing \subseteq servers
  /\ feature \in BOOLEAN /\ stopAsked \in 0..hostUpsets /\ hostUpsets \in 0..MaxHostUpsets

\* Nothing is open or will be, as after a stop.
AllOff == hosts = {} /\ localSignal = 0 /\ ~options

\* The server in use is not being closed, and what is open beside it is.
SignalOK ==
  /\ localSignal = 0 \/ localSignal \in servers \ closing
  /\ servers \subseteq closing \cup {localSignal}
  /\ start.at # "idle" => starts > 0

\* A start has the host to itself, from the stop it begins with: what is replaced meanwhile was begun before.
StartAlone ==
  /\ start.of <= generation /\ refresh.of <= generation
  /\ start.at # "idle" => timer = "off" /\ nowShown = 0 /\ (refresh.at = "idle" \/ refresh.of < generation)
  /\ start.at = "undoing" => AllOff
  /\ start.at \in {"making", "loading", "confirming", "confirmed"} /\ start.of = generation => options
  /\ start.at = "confirmed" /\ start.allowed /\ ~feature /\ stopAsked = 0 => AllOff
  /\ refresh.at # "idle" /\ refresh.of = generation => options

\* Each window is of the generation, and is shown, paired, or about to be shown.
ToShow == {"loading", "confirming", "confirmed"}
WindowsOK ==
  /\ \A h \in hosts :
       /\ madeFor[h] = generation
       /\ h = nowShown \/ devices[h] # {} \/ (start.at \in ToShow /\ h = start.host) \/ (refresh.at = "loading" /\ h = refresh.host)
  /\ ~options => hosts = {} /\ localSignal = 0
  /\ HostOffStays

\* A window that is to replace the one shown has no phones: only the one shown gets any.
NoPhonesYet ==
  /\ \A h \in 1..MaxHosts : h > hostsMade => devices[h] = {}
  /\ refresh.at # "loading" => refresh.host = 0
  /\ refresh.at = "loading" => refresh.host # 0 /\ refresh.host # nowShown /\ devices[refresh.host] = {}
  /\ refresh.at = "loading" /\ start.at \in ToShow => start.host # refresh.host

HostInv == HostTyped /\ SignalTyped /\ SignalOK /\ StartAlone /\ WindowsOK /\ NoPhonesYet
-----------------------------------------------------------------------------
LEMMA SignalNumber == ASSUME HostInv PROVE localSignal \in Nat /\ localSignal \in 0..MaxStarts
<1>1. CASE localSignal = 0
  BY <1>1, HostAssumption
<1>2. CASE localSignal \in servers \ closing
  <2>1. localSignal \in 1..MaxStarts
    BY <1>2 DEF HostInv, SignalTyped
  <2> QED
    BY <2>1
<1> QED
  BY <1>1, <1>2 DEF HostInv, SignalOK

LEMMA HostInvInit == HostInit => HostInv
<1> SUFFICES ASSUME HostInit PROVE HostInv
  OBVIOUS
<1> USE HostAssumption DEF HostInit
<1>1. HostTyped
  <2>1. NoStart \in StartRecords /\ NoRefresh \in RefreshRecords /\ NoStart.host = 0 /\ NoRefresh.host = 0
    BY DEF NoStart, NoRefresh, StartRecords, RefreshRecords, StartPlaces
  <2>2. options \in BOOLEAN
    BY Zenon
  <2> QED
    BY <2>1, <2>2 DEF HostTyped
<1>2. SignalTyped
  <2>1. feature \in BOOLEAN
    BY Zenon
  <2> QED
    BY <2>1 DEF SignalTyped
<1>3. SignalOK /\ StartAlone /\ WindowsOK /\ NoPhonesYet
  BY DEF SignalOK, StartAlone, WindowsOK, HostOffStays, NoPhonesYet, NoStart, NoRefresh, ToShow
<1> QED
  BY <1>1, <1>2, <1>3 DEF HostInv
-----------------------------------------------------------------------------
(* Stops.                                                                 *)
\* A stop, whatever it falls into, leaves nothing open that is not being closed.
LEMMA StopKeeps ==
  ASSUME HostInv, StopHost, refresh' = refresh,
         start' = start \/ (start' \in StartRecords /\ start'.of <= generation /\ start'.host <= hostsMade
                            /\ start'.at \notin {"making", "loading", "confirming", "confirmed"}),
         starts' \in 0..MaxStarts, start'.at # "idle" => starts' > 0,
         feature' \in BOOLEAN, hostUpsets' \in 0..MaxHostUpsets, stopAsked' \in 0..hostUpsets'
  PROVE  HostInv'
<1> USE HostAssumption DEF HostInv
<1>1. /\ generation' = generation + 1 /\ generation \in Nat /\ timer' = "off" /\ nowShown' = 0 /\ options' = FALSE /\ hosts' = {}
      /\ localSignal' = 0 /\ closing' = closing \cup ({localSignal} \ {0})
      /\ UNCHANGED <<hostsMade, madeFor, devices, servers>>
  BY DEF StopHost, ServerClosed, HostTyped
<1>2. start' \in StartRecords /\ start'.of <= generation /\ start'.host <= hostsMade /\ start'.of \in Nat
  BY DEF HostTyped, StartAlone, StartRecords
<1>3. HostTyped'
  <2>1. options' \in BOOLEAN
    BY <1>1, Zenon
  <2>2. hostsMade \in Nat /\ 0 <= hostsMade
    BY DEF HostTyped
  <2> QED
    BY <1>1, <1>2, <2>1, <2>2 DEF HostTyped
<1>4. SignalTyped' /\ SignalOK'
  BY <1>1 DEF SignalTyped, SignalOK
<1>5. AllOff'
  BY <1>1 DEF AllOff
<1>6. StartAlone'
  <2>1. refresh.of \in Nat /\ refresh.of <= generation
    BY DEF HostTyped, StartAlone, RefreshRecords
  <2>2. start'.of < generation' /\ refresh'.of < generation'
    BY <1>1, <1>2, <2>1
  <2> QED
    BY <1>1, <1>2, <1>5, <2>1, <2>2 DEF StartAlone
<1>7. WindowsOK'
  BY <1>1 DEF WindowsOK, HostOffStays
<1>8. NoPhonesYet'
  BY <1>1 DEF NoPhonesYet, ToShow
<1> QED
  BY <1>3, <1>4, <1>6, <1>7, <1>8

LEMMA UserStopsKeeps == ASSUME HostInv, UserStops PROVE HostInv'
<1> USE HostAssumption DEF HostInv
<1>1. hostUpsets' \in 0..MaxHostUpsets /\ stopAsked' \in 0..hostUpsets'
  BY DEF UserStops, Upset, featureVars, SignalTyped
<1> QED
  BY <1>1, StopKeeps DEF UserStops, featureVars, SignalTyped, SignalOK

LEMMA FeatureStopsKeeps == ASSUME HostInv, FeatureStops PROVE HostInv'
<1> USE HostAssumption DEF HostInv
<1>1. hostUpsets' \in 0..MaxHostUpsets /\ stopAsked' \in 0..hostUpsets'
  BY DEF FeatureStops, SignalTyped
<1> QED
  BY <1>1, StopKeeps DEF FeatureStops, SignalTyped, SignalOK

\* A start that fails, or finds that it was stopped, undoes what it did.
LEMMA StartFailsKeeps ==
  ASSUME HostInv, StartFails, start.at # "idle", UNCHANGED <<starts, refresh, featureVars, hostUpsets>>
  PROVE  HostInv'
<1> USE HostAssumption DEF HostInv
<1>1. start \in StartRecords /\ localSignal \in Nat /\ start.of <= generation /\ start.host <= hostsMade
  BY SignalNumber DEF HostTyped, StartAlone
<1>2. start' = [start EXCEPT !.at = "undoing", !.server = localSignal] /\ StopHost
  BY DEF StartFails, Undone
<1>3. start' \in StartRecords /\ start'.of = start.of /\ start'.host = start.host /\ start'.at = "undoing"
  BY <1>1, <1>2 DEF StartRecords, StartPlaces
<1> QED
  BY <1>1, <1>2, <1>3, StopKeeps DEF featureVars, SignalTyped, SignalOK

LEMMA StartHostKeeps == ASSUME HostInv, StartHost PROVE HostInv'
<1> USE HostAssumption DEF HostInv
<1>1. localSignal \in Nat /\ hostsMade \in Nat /\ generation \in Nat
  BY SignalNumber DEF HostTyped
<1>2. /\ StopHost /\ starts < MaxStarts /\ starts' = starts + 1 /\ UNCHANGED <<refresh, featureVars, hostUpsets>>
      /\ start' = [NoStart EXCEPT !.at = "stopping", !.server = localSignal]
  BY DEF StartHost
<1>3. start' \in StartRecords /\ start'.of = 0 /\ start'.host = 0 /\ start'.at = "stopping"
  BY <1>1, <1>2 DEF StartRecords, StartPlaces, NoStart
<1>4. start'.of <= generation /\ start'.host <= hostsMade
  BY <1>1, <1>3
<1>5. starts' \in 0..MaxStarts /\ starts' > 0
  BY <1>2 DEF SignalTyped
<1> QED
  BY <1>2, <1>3, <1>4, <1>5, StopKeeps DEF featureVars, SignalTyped

LEMMA WindowClosesKeeps == ASSUME HostInv, NEW h \in hosts, WindowCloses(h) PROVE HostInv'
<1> USE HostAssumption DEF HostInv
<1>1. hostUpsets' \in 0..MaxHostUpsets /\ stopAsked' \in 0..hostUpsets' /\ UNCHANGED <<start, starts, refresh, feature>>
  BY DEF WindowCloses, Upset, featureVars, SignalTyped
<1>2. CASE nowShown = h
  BY <1>1, <1>2, StopKeeps DEF WindowCloses, SignalTyped, SignalOK
<1>3. CASE nowShown # h
  <2>1. /\ hosts' = hosts \ {h} /\ UNCHANGED <<generation, options, nowShown, hostsMade, madeFor, devices, signalVars, timer>>
        /\ stopAsked' = stopAsked
    BY <1>3 DEF WindowCloses, featureVars
  <2>2. HostTyped' /\ SignalTyped' /\ SignalOK'
    BY <1>1, <2>1 DEF signalVars, HostTyped, SignalTyped, SignalOK
  <2>3. StartAlone' /\ WindowsOK' /\ NoPhonesYet'
    BY <1>1, <2>1 DEF signalVars, StartAlone, AllOff, WindowsOK, HostOffStays, NoPhonesYet, ToShow
  <2> QED
    BY <2>2, <2>3
<1> QED
  BY <1>2, <1>3

LEMMA FeatureChangedKeeps == ASSUME HostInv, NEW on \in BOOLEAN, FeatureChanged(on) PROVE HostInv'
<1> USE HostAssumption DEF HostInv
<1>1. /\ feature' = on /\ UNCHANGED <<generation, options, hostsVars, signalVars, timer, start, starts, refresh>>
      /\ stopAsked' = (IF on THEN stopAsked ELSE stopAsked + 1) /\ hostUpsets < MaxHostUpsets /\ hostUpsets' = hostUpsets + 1
  BY DEF FeatureChanged, Upset, SignalTyped
<1>2. SignalTyped'
  BY <1>1 DEF SignalTyped, signalVars
<1>3. ~feature' => stopAsked' # 0
  BY <1>1 DEF SignalTyped
<1>4. HostTyped' /\ SignalOK' /\ NoPhonesYet'
  BY <1>1 DEF HostTyped, SignalOK, NoPhonesYet, hostsVars, signalVars
<1>5. StartAlone' /\ WindowsOK'
  BY <1>1, <1>3 DEF StartAlone, AllOff, WindowsOK, HostOffStays, hostsVars, signalVars
<1> QED
  BY <1>2, <1>4, <1>5

LEMMA SignalClosesKeeps == ASSUME HostInv, NEW s \in servers, SignalCloses(s) PROVE HostInv'
<1> USE DEF HostInv
<1>1. /\ s \in closing /\ closing' = closing \ {s} /\ servers' = servers \ {s}
      /\ UNCHANGED <<generation, options, hostsVars, localSignal, timer, start, starts, refresh, featureVars, hostUpsets>>
  BY DEF SignalCloses
<1>2. SignalTyped' /\ SignalOK'
  BY <1>1 DEF SignalTyped, SignalOK, featureVars
<1>3. HostTyped' /\ StartAlone' /\ WindowsOK' /\ NoPhonesYet'
  BY <1>1 DEF HostTyped, StartAlone, AllOff, WindowsOK, HostOffStays, NoPhonesYet, hostsVars, featureVars
<1> QED
  BY <1>2, <1>3
-----------------------------------------------------------------------------
(* Starts.                                                                *)
\* A start goes on to a wait at which it has made nothing.
LEMMA StartWaits ==
  ASSUME HostInv, start.at # "idle", start' \in StartRecords, start'.of <= generation, start'.host <= hostsMade,
         start'.at \in {"checking", "checked", "signalling", "making"} \/ (start'.at = "idle" /\ start.at = "undoing"),
         start.at \notin ToShow \/ hosts = {}, options' \in BOOLEAN, options => options', start'.at = "making" => options',
         options' # options => start'.at = "making",
         UNCHANGED <<generation, hostsVars, signalVars, timer, starts, refresh, featureVars, hostUpsets>>
  PROVE  HostInv'
<1> USE DEF HostInv
<1>1. HostTyped' /\ SignalTyped' /\ SignalOK'
  BY DEF HostTyped, SignalTyped, SignalOK, hostsVars, signalVars, featureVars
<1>2. StartAlone'
  BY DEF StartAlone, AllOff, hostsVars, signalVars, featureVars
<1>3. NoPhonesYet'
  BY DEF NoPhonesYet, ToShow, hostsVars
<1>4. WindowsOK'
  BY DEF WindowsOK, HostOffStays, StartAlone, AllOff, ToShow, hostsVars, signalVars, featureVars
<1> QED
  BY <1>1, <1>2, <1>3, <1>4

LEMMA StartStoppedKeeps == ASSUME HostInv, StartStopped PROVE HostInv'
<1>1. /\ start.at = "stopping" /\ start' = [start EXCEPT !.at = "checking", !.of = generation, !.server = 0]
      /\ UNCHANGED <<generation, options, hostsVars, signalVars, timer, starts, refresh, featureVars, hostUpsets>>
  BY DEF StartStopped
<1>2. start \in StartRecords /\ generation \in Nat /\ options \in BOOLEAN /\ start.host <= hostsMade
  BY DEF HostInv, HostTyped
<1>3. start' \in StartRecords /\ start'.of = generation /\ start'.at = "checking" /\ start'.host = start.host
  BY <1>1, <1>2 DEF StartRecords, StartPlaces
<1> QED
  BY <1>1, <1>2, <1>3, StartWaits DEF ToShow

LEMMA StartUndoneKeeps == ASSUME HostInv, StartUndone PROVE HostInv'
<1>1. /\ start.at = "undoing" /\ start' = NoStart
      /\ UNCHANGED <<generation, options, hostsVars, signalVars, timer, starts, refresh, featureVars, hostUpsets>>
  BY DEF StartUndone
<1>2. generation \in Nat /\ options \in BOOLEAN /\ hostsMade \in Nat
  BY DEF HostInv, HostTyped
<1>3. start' \in StartRecords /\ start'.of <= generation /\ start'.at = "idle" /\ start'.host <= hostsMade
  BY <1>1, <1>2 DEF StartRecords, StartPlaces, NoStart
<1> QED
  BY <1>1, <1>2, <1>3, StartWaits DEF ToShow

LEMMA MovesFacts ==
  ASSUME HostInv, NEW p \in StartPlaces, StartMoves(p)
  PROVE  /\ start' \in StartRecords /\ start'.at = p /\ start'.of = start.of /\ start'.host = start.host
         /\ start'.allowed = start.allowed
  BY DEF HostInv, HostTyped, StartMoves, StartRecords

LEMMA StartResolvedKeeps == ASSUME HostInv, StartResolved PROVE HostInv'
<1>1. CASE StartFails
  BY <1>1, StartFailsKeeps DEF StartResolved
<1>2. CASE ~Stopped(start.of) /\ UNCHANGED <<generation, hostsVars, signalVars, timer>>
           /\ ((StartMoves("signalling") /\ UNCHANGED options) \/ (StartMoves("making") /\ options' = TRUE))
  <2>1. options \in BOOLEAN /\ start.of <= generation /\ start.host <= hostsMade
    BY DEF HostInv, HostTyped, StartAlone
  <2>4. start.at = "checked" /\ UNCHANGED <<starts, refresh, featureVars, hostUpsets>>
    BY DEF StartResolved
  <2>2. CASE StartMoves("signalling") /\ UNCHANGED options
    <3>1. start' \in StartRecords /\ start'.at = "signalling" /\ start'.of = start.of /\ start'.host = start.host
      BY <2>2, MovesFacts DEF StartPlaces
    <3> QED
      BY <1>2, <2>1, <2>2, <2>4, <3>1, StartWaits DEF ToShow
  <2>3. CASE StartMoves("making") /\ options' = TRUE
    <3>1. start' \in StartRecords /\ start'.at = "making" /\ start'.of = start.of /\ start'.host = start.host
      BY <2>3, MovesFacts DEF StartPlaces
    <3>2. options' \in BOOLEAN /\ options'
      BY <2>3, Zenon
    <3> QED
      BY <1>2, <2>1, <2>3, <2>4, <3>1, <3>2, StartWaits DEF ToShow
  <2> QED
    BY <1>2, <2>2, <2>3
<1> QED
  BY <1>1, <1>2 DEF StartResolved

LEMMA FeatureReadKeeps == ASSUME HostInv, FeatureRead PROVE HostInv'
<1>1. UNCHANGED <<generation, options, hostsVars, signalVars, timer, starts, refresh, featureVars, hostUpsets>>
  BY DEF FeatureRead
<1>2. start \in StartRecords /\ feature \in BOOLEAN /\ options \in BOOLEAN /\ start.host <= hostsMade /\ start.of <= generation
  BY DEF HostInv, HostTyped, SignalTyped, StartAlone
<1>3. CASE start.at = "checking" /\ start' = [start EXCEPT !.at = "checked", !.allowed = feature]
  <2>1. start' \in StartRecords /\ start'.at = "checked" /\ start'.of = start.of /\ start'.host = start.host
    BY <1>2, <1>3 DEF StartRecords, StartPlaces
  <2> QED
    BY <1>1, <1>2, <1>3, <2>1, StartWaits DEF ToShow
<1>4. CASE start.at = "confirming" /\ start' = [start EXCEPT !.at = "confirmed", !.allowed = feature]
  <2> USE DEF HostInv
  <2>1. start' \in StartRecords /\ start'.at = "confirmed" /\ start'.of = start.of /\ start'.host = start.host
        /\ start'.allowed = feature
    BY <1>2, <1>4 DEF StartRecords, StartPlaces
  <2>2. HostTyped' /\ SignalTyped' /\ SignalOK'
    BY <1>1, <1>2, <1>4, <2>1 DEF HostTyped, SignalTyped, SignalOK, hostsVars, signalVars, featureVars
  <2>3. StartAlone'
    BY <1>1, <1>4, <2>1 DEF StartAlone, AllOff, hostsVars, signalVars, featureVars
  <2>4. WindowsOK' /\ NoPhonesYet'
    BY <1>1, <1>4, <2>1 DEF WindowsOK, HostOffStays, NoPhonesYet, ToShow, hostsVars, signalVars, featureVars
  <2> QED
    BY <2>2, <2>3, <2>4
<1> QED
  BY <1>3, <1>4 DEF FeatureRead

LEMMA SignalOpensKeeps == ASSUME HostInv, SignalOpens PROVE HostInv'
<1> USE HostAssumption DEF HostInv
<1>1. start.at = "signalling" /\ UNCHANGED <<starts, refresh, featureVars, hostUpsets>>
  BY DEF SignalOpens
<1>2. CASE StartFails
  BY <1>1, <1>2, StartFailsKeeps
<1>3. CASE /\ servers = {} /\ localSignal' = starts /\ servers' = {starts} /\ options' = TRUE
           /\ StartMoves("making") /\ UNCHANGED <<generation, hostsVars, closing, timer>>
  <2>1. /\ start' \in StartRecords /\ start'.at = "making" /\ start'.of = start.of /\ start'.host = start.host
    BY <1>3, MovesFacts DEF StartPlaces
  <2>2. options' \in BOOLEAN /\ options'
    BY <1>3, Zenon
  <2>3. starts \in Nat \ {0} /\ starts \in 1..MaxStarts /\ closing = {}
    BY <1>1, <1>3 DEF SignalOK, SignalTyped
  <2>4. HostTyped'
    BY <1>1, <1>3, <2>1, <2>2 DEF HostTyped, hostsVars
  <2>5. SignalTyped' /\ SignalOK'
    BY <1>1, <1>3, <2>3 DEF SignalTyped, SignalOK, featureVars
  <2>6. StartAlone'
    BY <1>1, <1>3, <2>1, <2>2 DEF StartAlone, hostsVars, featureVars
  <2>7. WindowsOK' /\ NoPhonesYet'
    BY <1>1, <1>3, <2>1, <2>2 DEF WindowsOK, HostOffStays, NoPhonesYet, ToShow, hostsVars, featureVars
  <2> QED
    BY <2>4, <2>5, <2>6, <2>7
<1> QED
  BY <1>2, <1>3 DEF SignalOpens

LEMMA StartHostLoadedKeeps == ASSUME HostInv, StartHostLoaded PROVE HostInv'
<1> USE DEF HostInv
<1>1. start.at = "loading" /\ UNCHANGED <<starts, refresh, featureVars, hostUpsets>>
  BY DEF StartHostLoaded
<1>2. CASE StartFails
  BY <1>1, <1>2, StartFailsKeeps
<1>3. CASE StartMoves("confirming") /\ UNCHANGED <<generation, options, hostsVars, signalVars, timer>>
  <2>1. /\ start' \in StartRecords /\ start'.at = "confirming" /\ start'.of = start.of /\ start'.host = start.host
    BY <1>3, MovesFacts DEF StartPlaces
  <2>2. HostTyped' /\ SignalTyped' /\ SignalOK'
    BY <1>1, <1>3, <2>1 DEF HostTyped, SignalTyped, SignalOK, hostsVars, signalVars, featureVars
  <2>3. StartAlone'
    BY <1>1, <1>3, <2>1 DEF StartAlone, hostsVars, signalVars, featureVars
  <2>4. WindowsOK' /\ NoPhonesYet'
    BY <1>1, <1>3, <2>1 DEF WindowsOK, HostOffStays, NoPhonesYet, ToShow, hostsVars, signalVars, featureVars
  <2> QED
    BY <2>2, <2>3, <2>4
<1> QED
  BY <1>2, <1>3 DEF StartHostLoaded

\* The host that is shown at last is the one the start made, unless it was stopped meanwhile.
LEMMA StartConfirmedKeeps == ASSUME HostInv, StartConfirmed PROVE HostInv'
<1> USE DEF HostInv
<1>1. start.at = "confirmed" /\ UNCHANGED <<starts, refresh, featureVars, hostUpsets>>
  BY DEF StartConfirmed
<1>2. CASE ~start.allowed
  BY <1>1, <1>2, StartFailsKeeps DEF StartConfirmed
<1>3. CASE start.allowed
  <2>1. /\ nowShown' = start.host /\ timer' = "expiry" /\ start' = NoStart
        /\ UNCHANGED <<generation, options, hosts, hostsMade, madeFor, devices, signalVars>>
    BY <1>3 DEF StartConfirmed
  <2>2. /\ start' \in StartRecords /\ start'.at = "idle" /\ start'.of = 0 /\ start'.host = 0
        /\ start.host \in Nat /\ start.host <= hostsMade /\ hostsMade \in Nat /\ generation \in Nat
    BY <2>1 DEF StartRecords, StartPlaces, NoStart, HostTyped
  <2>3. HostTyped' /\ SignalTyped' /\ SignalOK'
    BY <1>1, <2>1, <2>2 DEF HostTyped, SignalTyped, SignalOK, signalVars, featureVars
  <2>4. StartAlone'
    BY <1>1, <2>1, <2>2 DEF StartAlone, signalVars, featureVars
  <2>5. NoPhonesYet'
    BY <1>1, <2>1, <2>2 DEF NoPhonesYet, ToShow
  <2>6. nowShown = 0 /\ (~feature /\ stopAsked = 0 => AllOff)
    BY <1>1, <1>3 DEF StartAlone
  <2>7. \A h \in hosts : h # 0
    BY DEF HostTyped
  <2>8. WindowsOK'
    BY <1>1, <2>1, <2>2, <2>6, <2>7 DEF WindowsOK, HostOffStays, AllOff, ToShow, signalVars, featureVars
  <2> QED
    BY <2>3, <2>4, <2>5, <2>8
<1> QED
  BY <1>2, <1>3

\* A window is made of the generation that is current, so there are options.
LEMMA WindowFacts ==
  ASSUME HostInv, NEW of \in Nat, of = generation, WindowMade(of)
  PROVE  /\ hostsMade \in Nat /\ hostsMade' = hostsMade + 1 /\ hostsMade' <= MaxHosts /\ hosts' = hosts \cup {hostsMade + 1}
         /\ madeFor' \in [1..MaxHosts -> Nat] /\ \A h \in hosts' : madeFor'[h] = generation /\ h \in Nat \ {0} /\ h <= hostsMade'
         /\ hostsMade + 1 \in 1..MaxHosts /\ devices[hostsMade + 1] = {}
         /\ UNCHANGED <<generation, options, nowShown, devices, signalVars, timer>>
<1>1. /\ hostsMade \in Nat /\ hostsMade < MaxHosts /\ hostsMade + 1 \in 1..MaxHosts /\ madeFor \in [1..MaxHosts -> Nat]
      /\ \A h \in hosts : h \in Nat \ {0} /\ h <= hostsMade
  BY HostAssumption DEF HostInv, HostTyped, WindowMade
<1>2. /\ hostsMade' = hostsMade + 1 /\ hosts' = hosts \cup {hostsMade + 1}
      /\ madeFor' = [madeFor EXCEPT ![hostsMade + 1] = of]
      /\ UNCHANGED <<generation, options, nowShown, devices, signalVars, timer>>
  BY DEF WindowMade
<1>3. devices[hostsMade + 1] = {}
  BY <1>1 DEF HostInv, NoPhonesYet
<1>4. \A h \in hosts : h \in 1..MaxHosts /\ h # hostsMade + 1 /\ madeFor[h] = generation
  BY <1>1, HostAssumption DEF HostInv, WindowsOK
<1>5. ASSUME NEW h \in hosts' PROVE madeFor'[h] = generation /\ h \in Nat \ {0} /\ h <= hostsMade'
  <2>1. CASE h \in hosts
    BY <1>1, <1>2, <1>4, <2>1
  <2>2. CASE h = hostsMade + 1
    BY <1>1, <1>2, <2>2
  <2> QED
    BY <1>2, <2>1, <2>2
<1> QED
  BY <1>1, <1>2, <1>3, <1>5, HostAssumption

LEMMA StartMadeKeeps == ASSUME HostInv, StartMade PROVE HostInv'
<1> USE HostAssumption DEF HostInv
<1>1. start.at = "making" /\ UNCHANGED <<starts, refresh, featureVars, hostUpsets>>
  BY DEF StartMade
<1>2. CASE StartFails
  BY <1>1, <1>2, StartFailsKeeps
<1>3. CASE ~Stopped(start.of) /\ WindowMade(start.of) /\ start' = [start EXCEPT !.at = "loading", !.host = hostsMade + 1]
  <2>1. start \in StartRecords /\ start.of \in Nat /\ start.of = generation /\ hostsMade \in Nat
    BY <1>3 DEF HostTyped, StartRecords, Stopped
  <2>2. /\ hostsMade \in Nat /\ hostsMade' = hostsMade + 1 /\ hostsMade' <= MaxHosts /\ hosts' = hosts \cup {hostsMade + 1}
        /\ madeFor' \in [1..MaxHosts -> Nat] /\ \A h \in hosts' : madeFor'[h] = generation /\ h \in Nat \ {0} /\ h <= hostsMade'
        /\ hostsMade + 1 \in 1..MaxHosts /\ devices[hostsMade + 1] = {}
        /\ UNCHANGED <<generation, options, nowShown, devices, signalVars, timer>>
    BY <1>3, <2>1, WindowFacts
  <2>3. start' \in StartRecords /\ start'.at = "loading" /\ start'.of = start.of /\ start'.host = hostsMade + 1
    <3>1. hostsMade + 1 \in Nat /\ "loading" \in StartPlaces
      BY <2>1 DEF StartPlaces
    <3> QED
      BY <1>3, <2>1, <3>1 DEF StartRecords
  <2>5. HostTyped'
    <3>1. nowShown' <= hostsMade' /\ refresh'.host <= hostsMade' /\ start'.host <= hostsMade'
      BY <1>1, <2>2, <2>3 DEF HostTyped, RefreshRecords
    <3> QED
      BY <1>1, <2>2, <2>3, <3>1 DEF HostTyped
  <2>6. SignalTyped' /\ SignalOK'
    BY <1>1, <2>2 DEF SignalTyped, SignalOK, signalVars, featureVars
  <2>7. StartAlone'
    BY <1>1, <2>1, <2>2, <2>3 DEF StartAlone, signalVars, featureVars
  <2>8. WindowsOK'
    <3>1. options
      BY <1>1, <2>1 DEF StartAlone
    <3>2. \A h \in hosts' : h = nowShown' \/ devices'[h] # {} \/ (start'.at \in ToShow /\ h = start'.host)
                            \/ (refresh'.at = "loading" /\ h = refresh'.host)
      BY <1>1, <2>2, <2>3 DEF WindowsOK, ToShow
    <3> QED
      BY <1>1, <2>2, <2>3, <3>1, <3>2 DEF WindowsOK, HostOffStays
  <2>9. NoPhonesYet'
    <3>1. refresh.host <= hostsMade /\ refresh.host \in Nat /\ UNCHANGED <<refresh, nowShown, devices>>
      BY <1>1, <2>2 DEF HostTyped, RefreshRecords
    <3>2. \A h \in 1..MaxHosts : h > hostsMade' => devices'[h] = {}
      BY <2>1, <2>2 DEF NoPhonesYet
    <3>3. start'.host # refresh'.host
      BY <2>1, <2>3, <3>1
    <3> QED
      BY <3>1, <3>2, <3>3 DEF NoPhonesYet
  <2> QED
    BY <2>5, <2>6, <2>7, <2>8, <2>9
<1> QED
  BY <1>2, <1>3 DEF StartMade
-----------------------------------------------------------------------------
(* The host that is shown is replaced, and phones come and go.            *)
LEMMA RefreshDueKeeps == ASSUME HostInv, RefreshDue PROVE HostInv'
<1> USE DEF HostInv
<1>1. /\ timer # "off" /\ timer' = "off"
      /\ UNCHANGED <<generation, options, hostsVars, signalVars, start, starts, featureVars, hostUpsets>>
  BY DEF RefreshDue
<1>2. \/ refresh' = refresh
      \/ /\ options /\ refresh.at = "idle" /\ refresh' \in RefreshRecords
         /\ refresh'.at = "making" /\ refresh'.of = generation /\ refresh'.host = 0
  BY DEF RefreshDue, RefreshRecords, HostTyped
<1>3. HostTyped' /\ SignalTyped' /\ SignalOK'
  BY <1>1, <1>2 DEF HostTyped, SignalTyped, SignalOK, hostsVars, signalVars, featureVars
<1>4. StartAlone'
  BY <1>1, <1>2 DEF StartAlone, AllOff, HostTyped, hostsVars, signalVars, featureVars
<1>5. WindowsOK' /\ NoPhonesYet'
  BY <1>1, <1>2 DEF WindowsOK, HostOffStays, NoPhonesYet, hostsVars, signalVars, featureVars
<1> QED
  BY <1>3, <1>4, <1>5

LEMMA RefreshFailsKeeps ==
  ASSUME HostInv, RefreshFails, refresh.at # "idle", UNCHANGED <<start, starts, featureVars, hostUpsets>>
  PROVE  HostInv'
<1> USE DEF HostInv
<1>1. /\ refresh' = NoRefresh /\ hosts' = hosts \ {refresh.host}
      /\ timer' = (IF refresh.of = generation /\ options THEN "retry" ELSE timer)
      /\ UNCHANGED <<generation, options, nowShown, hostsMade, madeFor, devices, signalVars>>
  BY DEF RefreshFails
<1>2. refresh' \in RefreshRecords /\ refresh'.at = "idle" /\ refresh'.of = 0 /\ refresh'.host = 0
      /\ generation \in Nat /\ hostsMade \in Nat
  BY <1>1 DEF RefreshRecords, NoRefresh, HostTyped
<1>3. HostTyped' /\ SignalTyped' /\ SignalOK'
  BY <1>1, <1>2 DEF HostTyped, SignalTyped, SignalOK, signalVars, featureVars
<1>4. StartAlone'
  BY <1>1, <1>2 DEF StartAlone, AllOff, HostTyped, RefreshRecords, signalVars, featureVars
<1>5. WindowsOK' /\ NoPhonesYet'
  BY <1>1, <1>2 DEF WindowsOK, HostOffStays, NoPhonesYet, signalVars, featureVars
<1> QED
  BY <1>3, <1>4, <1>5

LEMMA RefreshMadeKeeps == ASSUME HostInv, RefreshMade PROVE HostInv'
<1> USE HostAssumption DEF HostInv
<1>1. refresh.at = "making" /\ UNCHANGED <<start, starts, featureVars, hostUpsets>>
  BY DEF RefreshMade
<1>2. CASE RefreshFails
  BY <1>1, <1>2, RefreshFailsKeeps
<1>3. CASE ~Stopped(refresh.of) /\ WindowMade(refresh.of) /\ refresh' = [refresh EXCEPT !.at = "loading", !.host = hostsMade + 1]
  <2>1. refresh \in RefreshRecords /\ refresh.of \in Nat /\ refresh.of = generation /\ hostsMade \in Nat
    BY <1>3 DEF HostTyped, RefreshRecords, Stopped
  <2>2. /\ hostsMade \in Nat /\ hostsMade' = hostsMade + 1 /\ hostsMade' <= MaxHosts /\ hosts' = hosts \cup {hostsMade + 1}
        /\ madeFor' \in [1..MaxHosts -> Nat] /\ \A h \in hosts' : madeFor'[h] = generation /\ h \in Nat \ {0} /\ h <= hostsMade'
        /\ hostsMade + 1 \in 1..MaxHosts /\ devices[hostsMade + 1] = {}
        /\ UNCHANGED <<generation, options, nowShown, devices, signalVars, timer>>
    BY <1>3, <2>1, WindowFacts
  <2>3. refresh' \in RefreshRecords /\ refresh'.at = "loading" /\ refresh'.of = refresh.of /\ refresh'.host = hostsMade + 1
    <3>1. hostsMade + 1 \in Nat
      BY <2>1
    <3> QED
      BY <1>3, <2>1, <3>1 DEF RefreshRecords
  <2>4. options /\ start.at = "idle"
    BY <1>1, <2>1 DEF StartAlone
  <2>5. HostTyped'
    <3>1. nowShown' <= hostsMade' /\ refresh'.host <= hostsMade' /\ start'.host <= hostsMade'
      BY <1>1, <2>2, <2>3 DEF HostTyped, StartRecords
    <3> QED
      BY <1>1, <2>2, <2>3, <3>1 DEF HostTyped
  <2>6. SignalTyped' /\ SignalOK'
    BY <1>1, <2>2 DEF SignalTyped, SignalOK, signalVars, featureVars
  <2>7. StartAlone'
    BY <1>1, <2>1, <2>2, <2>3, <2>4 DEF StartAlone, signalVars, featureVars
  <2>8. WindowsOK'
    <3>2. \A h \in hosts' : h = nowShown' \/ devices'[h] # {} \/ (start'.at \in ToShow /\ h = start'.host)
                            \/ (refresh'.at = "loading" /\ h = refresh'.host)
      BY <1>1, <2>2, <2>3 DEF WindowsOK, ToShow
    <3> QED
      BY <1>1, <2>2, <2>3, <2>4, <3>2 DEF WindowsOK, HostOffStays, featureVars
  <2>9. NoPhonesYet'
    BY <1>1, <2>2, <2>3, <2>4 DEF NoPhonesYet, HostTyped, ToShow
  <2> QED
    BY <2>5, <2>6, <2>7, <2>8, <2>9
<1> QED
  BY <1>2, <1>3 DEF RefreshMade

LEMMA RefreshLoadedKeeps == ASSUME HostInv, RefreshLoaded PROVE HostInv'
<1> USE DEF HostInv
<1>1. refresh.at = "loading" /\ UNCHANGED <<start, starts, featureVars, hostUpsets>>
  BY DEF RefreshLoaded
<1>2. CASE RefreshFails
  BY <1>1, <1>2, RefreshFailsKeeps
<1>3. CASE /\ refresh.host \in hosts /\ ~Stopped(refresh.of)
           /\ nowShown' = refresh.host /\ hosts' = hosts \ Replaced /\ timer' = "expiry" /\ refresh' = NoRefresh
           /\ UNCHANGED <<generation, options, hostsMade, madeFor, devices, signalVars>>
  <2>1. refresh' \in RefreshRecords /\ refresh'.at = "idle" /\ refresh'.of = 0 /\ refresh'.host = 0
        /\ generation \in Nat /\ hostsMade \in Nat /\ refresh.host \in Nat /\ refresh.host <= hostsMade
    BY <1>3 DEF RefreshRecords, NoRefresh, HostTyped
  <2>2. start.at = "idle" /\ options
    BY <1>1, <1>3 DEF StartAlone, HostTyped, RefreshRecords, Stopped
  <2>3. HostTyped' /\ SignalTyped' /\ SignalOK'
    BY <1>1, <1>3, <2>1 DEF HostTyped, SignalTyped, SignalOK, signalVars, featureVars
  <2>4. StartAlone'
    BY <1>1, <1>3, <2>1, <2>2 DEF StartAlone, signalVars, featureVars
  <2>5. WindowsOK'
    BY <1>1, <1>3, <2>1, <2>2 DEF WindowsOK, HostOffStays, Replaced, HostTyped, ToShow, signalVars, featureVars
  <2>6. NoPhonesYet'
    BY <1>1, <1>3, <2>1, <2>2 DEF NoPhonesYet, ToShow
  <2> QED
    BY <2>3, <2>4, <2>5, <2>6
<1> QED
  BY <1>2, <1>3 DEF RefreshLoaded

LEMMA ApproveKeeps == ASSUME HostInv, NEW p \in Phones, Approve(p) PROVE HostInv'
<1> USE HostAssumption DEF HostInv
<1>1. /\ nowShown \in hosts /\ devices' = [devices EXCEPT ![nowShown] = @ \cup {p}]
      /\ UNCHANGED <<generation, options, nowShown, hosts, hostsMade, madeFor, signalVars, timer, start, starts, refresh, featureVars, hostUpsets>>
  BY DEF Approve
<1>2. /\ nowShown \in 1..MaxHosts /\ nowShown <= hostsMade /\ devices' \in [1..MaxHosts -> SUBSET Phones]
      /\ \A h \in 1..MaxHosts : devices'[h] = IF h = nowShown THEN devices[h] \cup {p} ELSE devices[h]
      /\ \A h \in hosts : h \in 1..MaxHosts
  <2>1. \A h \in hosts : h \in 1..MaxHosts /\ h <= hostsMade
    BY DEF HostTyped
  <2>2. nowShown \in 1..MaxHosts /\ nowShown <= hostsMade
    BY <1>1, <2>1
  <2>3. devices \in [1..MaxHosts -> SUBSET Phones]
    BY DEF HostTyped
  <2>4. \A h \in 1..MaxHosts : devices'[h] = IF h = nowShown THEN devices[h] \cup {p} ELSE devices[h]
    BY <1>1, <2>3
  <2>5. devices' \in [1..MaxHosts -> SUBSET Phones]
    BY <1>1, <2>2, <2>3
  <2> QED
    BY <2>1, <2>2, <2>4, <2>5
<1>3. HostTyped' /\ SignalTyped' /\ SignalOK'
  BY <1>1, <1>2 DEF HostTyped, SignalTyped, SignalOK, signalVars, featureVars
<1>4. StartAlone' /\ WindowsOK'
  BY <1>1, <1>2 DEF StartAlone, AllOff, WindowsOK, HostOffStays, signalVars, featureVars
<1>5. NoPhonesYet'
  <2>1. refresh.host # 0 => refresh.host \in 1..MaxHosts
    BY DEF HostTyped, RefreshRecords
  <2> QED
    BY <1>1, <1>2, <2>1 DEF NoPhonesYet, HostTyped
<1> QED
  BY <1>3, <1>4, <1>5

LEMMA RevokeKeeps == ASSUME HostInv, NEW p \in Phones, Revoke(p) PROVE HostInv'
<1> USE HostAssumption DEF HostInv
<1>1. /\ devices' = Revoked(p) /\ hosts' = {h \in hosts : h = nowShown \/ Revoked(p)[h] # {}}
      /\ UNCHANGED <<generation, options, nowShown, hostsMade, madeFor, signalVars, timer, start, starts, refresh, featureVars, hostUpsets>>
  BY DEF Revoke
<1>2. /\ devices' \in [1..MaxHosts -> SUBSET Phones] /\ \A h \in 1..MaxHosts : devices'[h] \subseteq devices[h]
      /\ hosts' \subseteq hosts /\ \A h \in hosts' : h = nowShown \/ devices'[h] # {}
  BY <1>1 DEF HostTyped, Revoked
<1>3. HostTyped' /\ SignalTyped' /\ SignalOK'
  BY <1>1, <1>2 DEF HostTyped, SignalTyped, SignalOK, signalVars, featureVars
<1>4. StartAlone' /\ WindowsOK'
  BY <1>1, <1>2 DEF StartAlone, AllOff, WindowsOK, HostOffStays, signalVars, featureVars
<1>5. NoPhonesYet'
  <2>1. refresh.host # 0 => refresh.host \in 1..MaxHosts
    BY DEF HostTyped, RefreshRecords
  <2> QED
    BY <1>1, <1>2, <2>1 DEF NoPhonesYet
<1> QED
  BY <1>3, <1>4, <1>5

LEMMA HostStutter == ASSUME HostInv, UNCHANGED mobileVars PROVE HostInv'
<1> USE DEF HostInv, mobileVars, hostsVars, signalVars, featureVars
<1>1. HostTyped' /\ SignalTyped' /\ SignalOK'
  BY DEF HostTyped, SignalTyped, SignalOK
<1>2. StartAlone' /\ WindowsOK' /\ NoPhonesYet'
  BY DEF StartAlone, AllOff, WindowsOK, HostOffStays, NoPhonesYet
<1> QED
  BY <1>1, <1>2

LEMMA HostInvStep == HostInv /\ [HostNext]_mobileVars => HostInv'
<1> SUFFICES ASSUME HostInv, [HostNext]_mobileVars PROVE HostInv'
  OBVIOUS
<1>1. CASE StartStep
  BY <1>1, StartHostKeeps, StartStoppedKeeps, FeatureReadKeeps, StartResolvedKeeps, SignalOpensKeeps,
     StartMadeKeeps, StartHostLoadedKeeps, StartConfirmedKeeps, StartUndoneKeeps DEF StartStep
<1>2. CASE UserStops \/ FeatureStops
  BY <1>2, UserStopsKeeps, FeatureStopsKeeps
<1>3. ASSUME NEW on \in BOOLEAN, FeatureChanged(on) PROVE HostInv'
  BY <1>3, FeatureChangedKeeps
<1>4. ASSUME NEW s \in servers, SignalCloses(s) PROVE HostInv'
  BY <1>4, SignalClosesKeeps
<1>5. ASSUME NEW h \in hosts, WindowCloses(h) PROVE HostInv'
  BY <1>5, WindowClosesKeeps
<1>6. CASE RefreshDue \/ RefreshMade \/ RefreshLoaded
  BY <1>6, RefreshDueKeeps, RefreshMadeKeeps, RefreshLoadedKeeps
<1>7. ASSUME NEW p \in Phones, Approve(p) \/ Revoke(p) PROVE HostInv'
  BY <1>7, ApproveKeeps, RevokeKeeps
<1>8. CASE UNCHANGED mobileVars
  BY <1>8, HostStutter
<1> QED
  BY <1>1, <1>2, <1>3, <1>4, <1>5, <1>6, <1>7, <1>8 DEF HostNext

\* Which steps take a window away: a stop, its own closing, or when it has no phones.
LEMMA WindowsGo ==
  ASSUME HostInv, [HostNext]_mobileVars, NEW h \in hosts \ hosts'
  PROVE  generation' # generation \/ devices'[h] = {} \/ WindowCloses(h)
<1> USE DEF HostInv
<1>1. ASSUME StopHost PROVE generation' # generation
  BY <1>1 DEF StopHost, HostTyped
<1>2. CASE StartStep
  <2>1. hosts \subseteq hosts' \/ StopHost
    BY <1>2 DEF StartStep, StartHost, StartStopped, FeatureRead, StartResolved, SignalOpens, StartMade, StartHostLoaded,
       StartConfirmed, StartUndone, StartFails, Undone, WindowMade, hostsVars
  <2> QED
    BY <1>1, <2>1
<1>3. CASE UserStops \/ FeatureStops
  BY <1>1, <1>3 DEF UserStops, FeatureStops
<1>4. ASSUME NEW g \in hosts, WindowCloses(g) PROVE generation' # generation \/ WindowCloses(h)
  BY <1>1, <1>4 DEF WindowCloses
<1>5. CASE UNCHANGED hosts
  BY <1>5
<1>6. ASSUME RefreshFails, refresh.at # "idle" PROVE devices'[h] = {}
  <2>1. h = refresh.host /\ devices' = devices /\ h # 0
    BY <1>6 DEF RefreshFails, HostTyped
  <2> QED
    BY <2>1, <1>6 DEF NoPhonesYet
<1>7. CASE RefreshMade \/ RefreshLoaded
  <2>1. (RefreshFails /\ refresh.at # "idle") \/ hosts \subseteq hosts' \/ (hosts' = hosts \ Replaced /\ devices' = devices)
    BY <1>7 DEF RefreshMade, RefreshLoaded, WindowMade
  <2> QED
    BY <1>6, <2>1 DEF Replaced
<1>8. ASSUME NEW p \in Phones, Revoke(p) PROVE devices'[h] = {}
  BY <1>8 DEF Revoke
<1> QED
  BY <1>2, <1>3, <1>4, <1>5, <1>7, <1>8 DEF HostNext, FeatureChanged, SignalCloses, RefreshDue, Approve, mobileVars, hostsVars

\* Remote hosting (remote/mobile-host.ts): hosts and signal servers belong to the start that is on, nothing
\* stays open after a stop or with the feature off, and no phone loses its host to a new code.
THEOREM HostAlwaysSafe == HostSpec => HostSafe
<1>1. HostInit => HostInv
  BY HostInvInit
<1>2. HostInv /\ [HostNext]_mobileVars => HostInv'
  BY HostInvStep
<1>3. HostInv => HostTypeOK /\ HostOfStart /\ HostNoneHidden /\ HostOffStays
  <2> SUFFICES ASSUME HostInv PROVE HostTypeOK /\ HostOfStart /\ HostNoneHidden /\ HostOffStays
    OBVIOUS
  <2> USE HostAssumption DEF HostInv
  <2>1. HostTypeOK
    <3>1. /\ generation \in Nat /\ options \in BOOLEAN /\ nowShown \in 0..MaxHosts /\ hostsMade \in 0..MaxHosts /\ hosts \subseteq 1..hostsMade
          /\ madeFor \in [1..MaxHosts -> Nat] /\ devices \in [1..MaxHosts -> SUBSET Phones] /\ timer \in {"off", "expiry", "retry"}
      BY DEF HostTyped
    <3>2. localSignal \in 0..MaxStarts /\ servers \subseteq 1..MaxStarts /\ closing \subseteq servers /\ feature \in BOOLEAN
          /\ stopAsked \in 0..MaxHostUpsets
      BY SignalNumber DEF SignalTyped
    <3>3. /\ refresh.host \in 0..hostsMade /\ start.host \in 0..hostsMade /\ refresh.at \in {"idle", "making", "loading"}
          /\ start.at \in StartPlaces
      BY DEF HostTyped, StartRecords, RefreshRecords
    <3> QED
      BY <3>1, <3>2, <3>3 DEF HostTypeOK, StartPlaces
  <2>2. HostOfStart
    BY DEF HostOfStart, WindowsOK, SignalOK
  <2>3. HostNoneHidden /\ HostOffStays
    BY DEF HostNoneHidden, WindowsOK, ToShow
  <2> QED
    BY <2>1, <2>2, <2>3
<1>4. HostInv /\ [HostNext]_mobileVars
        => [\A h \in hosts \ hosts' : generation' # generation \/ devices'[h] = {} \/ WindowCloses(h)]_mobileVars
  BY WindowsGo
<1> QED
  BY <1>1, <1>2, <1>3, <1>4, PTL DEF HostSpec, HostSafe, HostSurvives
-----------------------------------------------------------------------------
(***************************************************************************)
(* The relay to the providers of models. The invariant says which process  *)
(* may live, and what the names on disk name, at each stage of a start.    *)
(***************************************************************************)

Versions == 0..MaxVersion
OpPlaces == {"idle", "ending", "dying", "status", "preparing", "installing", "launch", "back", "spawning", "polling",
             "activating", "forgetting", "reading", "pruning"}
InstallPlaces == {"idle", "status", "asking", "placing", "naming", "done", "failed"}

OpRecords ==
  [at : OpPlaces, target : Versions, back : Versions, victim : Nat, next : {"idle", "back"}, keep : SUBSET Versions]
Disposals == [at : {"idle", "ending"}, target : {0}, back : {0}, victim : Nat, next : {"idle"}, keep : {{}}]
InstallRecords == [at : InstallPlaces, ctl : Nat, v : Versions]

FilesTyped ==
  /\ latest \in 1..MaxVersion /\ current \in Versions /\ pending \in Versions /\ previous \in Versions
  /\ dirs \subseteq 1..MaxVersion
ChildTyped ==
  /\ spawned \in Nat /\ spawned <= MaxSpawns /\ child \in Nat /\ child <= spawned /\ told \subseteq alive
  /\ \A n \in alive : n \in Nat \ {0} /\ n <= spawned
  /\ running \in BOOLEAN /\ disposed \in BOOLEAN
CallsTyped ==
  ctl \in Nat /\ aborted \subseteq 0..ctl /\ queue \in Seq({"start", "stop"})
RecordsTyped ==
  op \in OpRecords /\ disposal \in Disposals /\ installs \in [{"start", "update"} -> InstallRecords]

\* One process, which is the child, or one that will be told to end.  Before it is spawned there is none, and a
\* disposal that came meanwhile has aborted the controller of the start.
Launching == {"preparing", "installing", "launch", "back", "spawning", "ending", "dying"}
Launched == {"polling", "activating", "forgetting", "reading", "pruning"}
OneOK ==
  /\ \A n \in alive \ told : n = child \/ (op.at = "ending" /\ n = op.victim) \/ (disposal.at = "ending" /\ n = disposal.victim)
  /\ \A m, n \in alive \ told : m = n
  /\ op.at \in Launching => child = 0
  /\ child # 0 => running \/ op.at \in Launched
  /\ disposal.at = "ending" => disposed
  /\ disposed => child = 0 /\ (op.at = "spawning" => CtlAborted)

\* What a start tries and goes back to stays on disk, until it prunes; it keeps what is current.
SlotsOK ==
  /\ current = 0 \/ (current \in answered /\ current \in dirs)
  /\ {op.target, op.back} \subseteq dirs \cup {0}
  /\ op.at = "activating" => op.target \in answered
  /\ op.at = "pruning" => current \in op.keep \cup {0}
  /\ installs["start"].at # "idle" => op.at = "installing"
  /\ installs["start"].at \in {"naming", "done"} => installs["start"].v \in dirs
  /\ \A w \in {"start", "update"} : installs[w].at = "placing" => installs[w].v \in 1..MaxVersion

\* The last call is the last of the queue or, when that is a stop and has been taken, is under way or done.
StopOK ==
  /\ queue # <<>> => queue[Len(queue)] = lastCall
  /\ lastCall = "stop" /\ queue = <<>> =>
       /\ child = 0 /\ (op.at = "idle" => ~running)
       /\ op.at = "idle" \/ (op.at \in {"ending", "dying"} /\ op.next = "idle")

CpaInv == FilesTyped /\ ChildTyped /\ CallsTyped /\ RecordsTyped /\ OneOK /\ SlotsOK /\ StopOK
-----------------------------------------------------------------------------
(* What a step does to the operation under way.                           *)
LEMMA VersionFacts == Versions \subseteq Nat /\ 0 \in Versions /\ 1..MaxVersion \subseteq Versions
  BY CpaAssumption DEF Versions

LEMMA OpMoved ==
  ASSUME RecordsTyped, NEW p \in OpPlaces, OpMoves(p)
  PROVE  /\ op' \in OpRecords /\ op'.at = p /\ op'.target = op.target /\ op'.back = op.back /\ op'.victim = op.victim
         /\ op'.next = op.next /\ op'.keep = op.keep
  BY DEF RecordsTyped, OpRecords, OpMoves

LEMMA OpTerminated ==
  ASSUME RecordsTyped, ChildTyped, NEW x \in {"idle", "back"}, OpTerminates(x)
  PROVE  /\ op' \in OpRecords /\ op'.at = "ending" /\ op'.target = op.target /\ op'.back = op.back /\ op'.victim = child
         /\ op'.next = x /\ op'.keep = op.keep /\ child' = 0
<1>1. child \in Nat
  BY CpaAssumption DEF ChildTyped
<1>2. op' = [op EXCEPT !.at = "ending", !.victim = child, !.next = x] /\ child' = 0
  BY DEF OpTerminates
<1> QED
  BY <1>1, <1>2 DEF RecordsTyped, OpRecords, OpPlaces

LEMMA OpEnded ==
  ASSUME OpEnds
  PROVE  /\ op' \in OpRecords /\ op'.at = "idle" /\ op'.target = 0 /\ op'.back = 0 /\ op'.victim = 0
         /\ op'.next = "idle" /\ op'.keep = {}
<1>1. op' = [at |-> "idle", target |-> 0, back |-> 0, victim |-> 0, next |-> "idle", keep |-> {}]
  BY DEF OpEnds, NoOp
<1>2. {} \in SUBSET Versions /\ 0 \in Versions /\ 0 \in Nat
  BY VersionFacts
<1> QED
  BY <1>1, <1>2 DEF OpRecords, OpPlaces

\* A start chooses what it tries, and what it goes back to.
LEMMA OpChooses ==
  ASSUME RecordsTyped, NEW t \in Versions, NEW b \in Versions,
         op' = [op EXCEPT !.at = "launch", !.target = t, !.back = b] \/ (op' = [op EXCEPT !.at = "launch", !.target = t] /\ b = op.back)
  PROVE  /\ op' \in OpRecords /\ op'.at = "launch" /\ op'.target = t /\ op'.back = b /\ op'.victim = op.victim
         /\ op'.next = op.next /\ op'.keep = op.keep
  BY DEF RecordsTyped, OpRecords, OpPlaces

LEMMA LaunchFailed ==
  ASSUME RecordsTyped, ChildTyped, LaunchFails
  PROVE  /\ op' \in OpRecords /\ op'.at = "ending" /\ op'.target = op.target /\ op'.back = op.back /\ op'.victim = child
         /\ op'.keep = op.keep /\ child' = 0
  BY OpTerminated DEF LaunchFails
-----------------------------------------------------------------------------
LEMMA CpaInvInit == CpaInit => CpaInv
<1> SUFFICES ASSUME CpaInit PROVE CpaInv
  OBVIOUS
<1> USE CpaAssumption, VersionFacts DEF CpaInit
<1>1. FilesTyped
  BY DEF FilesTyped, Versions
<1>2. ChildTyped
  <2>1. /\ spawned = 0 /\ child = 0 /\ alive = {} /\ told = {} /\ 0 \in Nat /\ 0 <= MaxSpawns
    OBVIOUS
  <2>2. running \in BOOLEAN /\ disposed \in BOOLEAN
    BY Zenon
  <2> QED
    BY <2>1, <2>2 DEF ChildTyped
<1>3. CallsTyped
  BY EmptySeq DEF CallsTyped
<1>4. {} \in SUBSET Versions /\ 0 \in Versions /\ 0 \in Nat
  OBVIOUS
<1>5. RecordsTyped
  BY <1>4 DEF RecordsTyped, OpRecords, Disposals, InstallRecords, OpPlaces, InstallPlaces, NoOp, NoInstall
<1>6. OneOK /\ SlotsOK /\ StopOK
  BY DEF OneOK, Launching, Launched, SlotsOK, StopOK, NoOp, NoInstall
<1> QED
  BY <1>1, <1>2, <1>3, <1>5, <1>6 DEF CpaInv

LEMMA CpaReleaseKeeps == ASSUME CpaInv, CpaRelease PROVE CpaInv'
<1> USE CpaAssumption DEF CpaInv, CpaRelease, callVars, childVars, ctlVars, flightVars, goneVars, slotVars
<1>2. FilesTyped'
  BY DEF FilesTyped
<1>3. ChildTyped'
  BY DEF ChildTyped
<1>4. CallsTyped'
  BY DEF CallsTyped
<1>5. RecordsTyped'
  BY DEF RecordsTyped
<1>6. OneOK'
  BY DEF OneOK, Launching, Launched, CtlAborted, ChildTyped
<1>7. SlotsOK'
  BY DEF SlotsOK, FilesTyped
<1>8. StopOK'
  BY DEF StopOK, CallsTyped
<1> QED
  BY <1>2, <1>3, <1>4, <1>5, <1>6, <1>7, <1>8

LEMMA CpaStartKeeps == ASSUME CpaInv, CpaStart PROVE CpaInv'
<1> USE CpaAssumption DEF CpaInv, CpaStart, Calls, childVars, ctlVars, flightVars, goneVars, slotVars
<1>2. FilesTyped'
  BY DEF FilesTyped
<1>3. ChildTyped'
  BY DEF ChildTyped
<1>4. CallsTyped'
  BY DEF CallsTyped
<1>5. RecordsTyped'
  BY DEF RecordsTyped
<1>6. OneOK'
  BY DEF OneOK, Launching, Launched, CtlAborted, ChildTyped
<1>7. SlotsOK'
  BY DEF SlotsOK, FilesTyped
<1>8. StopOK'
  BY DEF StopOK, CallsTyped
<1> QED
  BY <1>2, <1>3, <1>4, <1>5, <1>6, <1>7, <1>8

LEMMA CpaStopKeeps == ASSUME CpaInv, CpaStop PROVE CpaInv'
<1> USE CpaAssumption DEF CpaInv, CpaStop, Calls, childVars, flightVars, goneVars, slotVars
<1>2. FilesTyped'
  BY DEF FilesTyped
<1>3. ChildTyped'
  BY DEF ChildTyped
<1>4. CallsTyped'
  BY DEF CallsTyped
<1>5. RecordsTyped'
  BY DEF RecordsTyped
<1>6. OneOK'
  BY DEF OneOK, Launching, Launched, CtlAborted, ChildTyped
<1>7. SlotsOK'
  BY DEF SlotsOK, FilesTyped
<1>8. StopOK'
  BY DEF StopOK, CallsTyped
<1> QED
  BY <1>2, <1>3, <1>4, <1>5, <1>6, <1>7, <1>8

LEMMA OpKillsKeeps == ASSUME CpaInv, OpKills PROVE CpaInv'
<1> USE CpaAssumption DEF CpaInv, OpKills, callVars, ctlVars, flightVars, goneVars, slotVars
<1>1. /\ op' \in OpRecords /\ op'.at = "dying" /\ op'.target = op.target /\ op'.back = op.back /\ op'.victim = op.victim
     /\ op'.next = op.next /\ op'.keep = op.keep
  BY OpMoved DEF OpPlaces
<1>2. FilesTyped'
  BY <1>1 DEF FilesTyped
<1>3. ChildTyped'
  BY <1>1 DEF ChildTyped
<1>4. CallsTyped'
  BY <1>1 DEF CallsTyped
<1>5. RecordsTyped'
  BY <1>1 DEF RecordsTyped
<1>6. OneOK'
  BY <1>1 DEF OneOK, Launching, Launched, CtlAborted, ChildTyped
<1>7. SlotsOK'
  BY <1>1 DEF SlotsOK, FilesTyped
<1>8. StopOK'
  BY <1>1 DEF StopOK, CallsTyped
<1> QED
  BY <1>2, <1>3, <1>4, <1>5, <1>6, <1>7, <1>8

LEMMA OpKilledKeeps == ASSUME CpaInv, OpKilled PROVE CpaInv'
<1> USE CpaAssumption DEF CpaInv, OpKilled, callVars, childVars, ctlVars, flightVars, goneVars, slotVars
<1>1. \/ /\ op' \in OpRecords /\ op'.at = "idle" /\ op'.target = 0 /\ op'.back = 0 /\ op'.victim = 0
         /\ op'.next = "idle" /\ op'.keep = {}
         /\ running' = FALSE /\ op.next = "idle"
      \/ /\ op' \in OpRecords /\ op'.at = "back" /\ op'.target = op.target /\ op'.back = op.back /\ op'.victim = op.victim
         /\ op'.next = op.next /\ op'.keep = op.keep
         /\ op.next = "back" /\ running' = running
  BY OpMoved, OpEnded DEF OpPlaces, RecordsTyped, OpRecords
<1>2. FilesTyped'
  BY <1>1 DEF FilesTyped
<1>3. ChildTyped'
  BY <1>1 DEF ChildTyped
<1>4. CallsTyped'
  BY <1>1 DEF CallsTyped
<1>5. RecordsTyped'
  BY <1>1 DEF RecordsTyped
<1>6. OneOK'
  BY <1>1 DEF OneOK, Launching, Launched, CtlAborted, ChildTyped
<1>7. SlotsOK'
  BY <1>1 DEF SlotsOK, FilesTyped
<1>8. StopOK'
  BY <1>1 DEF StopOK, CallsTyped
<1> QED
  BY <1>2, <1>3, <1>4, <1>5, <1>6, <1>7, <1>8

LEMMA CpaTakesKeeps == ASSUME CpaInv, CpaTakes PROVE CpaInv'
<1> USE CpaAssumption DEF CpaInv, CpaTakes, StopTaken, ctlVars, flightVars, goneVars, slotVars
<1>1. \/ /\ op' \in OpRecords /\ op'.at = "ending" /\ op'.target = op.target /\ op'.back = op.back /\ op'.victim = child
         /\ op'.next = "idle" /\ op'.keep = op.keep
         /\ child' = 0
         /\ Head(queue) = "stop"
      \/ /\ op' = op /\ child' = child /\ Head(queue) # "stop"
      \/ /\ op' \in OpRecords /\ op'.at = "status" /\ op'.target = op.target /\ op'.back = op.back /\ op'.victim = op.victim
         /\ op'.next = op.next /\ op'.keep = op.keep
         /\ child' = child /\ Head(queue) # "stop"
  BY OpMoved, OpTerminated DEF OpPlaces
<1>0. /\ queue \in Seq({"start", "stop"}) /\ queue # <<>> /\ Head(queue) = queue[1] /\ queue' = Tail(queue) /\ Len(queue) >= 1
      /\ queue' \in Seq({"start", "stop"}) /\ (queue' = <<>> => Len(queue) = 1)
      /\ queue' # <<>> => queue'[Len(queue')] = queue[Len(queue)]
  <2>1. queue \in Seq({"start", "stop"}) /\ queue # <<>>
    BY DEF CallsTyped
  <2>2. Len(queue) \in Nat \ {0} /\ Len(queue') = Len(queue) - 1 /\ \A i \in 1..Len(queue') : queue'[i] = queue[i + 1]
    BY <2>1, EmptySeq
  <2>3. queue' \in Seq({"start", "stop"}) /\ (queue' = <<>> <=> Len(queue') = 0) /\ Head(queue) = queue[1]
    <3>1. queue' \in Seq({"start", "stop"}) /\ Head(queue) = queue[1]
      BY <2>1
    <3> QED
      BY <3>1, EmptySeq
  <2>4. queue' # <<>> => queue'[Len(queue')] = queue[Len(queue)]
    BY <2>2, <2>3
  <2> QED
    BY <2>1, <2>2, <2>3, <2>4
<1>2. FilesTyped'
  BY <1>1 DEF FilesTyped
<1>3. ChildTyped'
  BY <1>1 DEF ChildTyped
<1>4. CallsTyped'
  BY <1>1 DEF CallsTyped
<1>5. RecordsTyped'
  BY <1>1 DEF RecordsTyped
<1>6. OneOK'
  BY <1>1 DEF OneOK, Launching, Launched, CtlAborted, ChildTyped
<1>7. SlotsOK'
  BY <1>1 DEF SlotsOK, FilesTyped
<1>8. StopOK'
  BY <1>0, <1>1 DEF StopOK
<1> QED
  BY <1>2, <1>3, <1>4, <1>5, <1>6, <1>7, <1>8

LEMMA StartBeginsKeeps == ASSUME CpaInv, StartBegins PROVE CpaInv'
<1> USE CpaAssumption DEF CpaInv, StartBegins, NewController, callVars, childVars, ctlVars, flightVars, goneVars, slotVars
<1>1. \/ /\ op' \in OpRecords /\ op'.at = "idle" /\ op'.target = 0 /\ op'.back = 0 /\ op'.victim = 0
         /\ op'.next = "idle" /\ op'.keep = {}
         /\ ctl' = ctl /\ aborted' = aborted
      \/ /\ op' \in OpRecords /\ op'.at = "preparing" /\ op'.target = op.target /\ op'.back = op.back /\ op'.victim = op.victim
         /\ op'.next = op.next /\ op'.keep = op.keep
         /\ ctl' = ctl + 1 /\ aborted' = aborted /\ child = 0
  BY OpMoved, OpEnded DEF OpPlaces, OneOK, Launched
<1>2. FilesTyped'
  BY <1>1 DEF FilesTyped
<1>3. ChildTyped'
  BY <1>1 DEF ChildTyped
<1>4. CallsTyped'
  <2>1. ctl \in Nat /\ aborted \subseteq 0..ctl /\ 0..ctl \subseteq 0..(ctl + 1)
    BY DEF CallsTyped
  <2>2. ctl + 1 \in Nat /\ queue' = queue
    BY <2>1
  <2>3. CASE ctl' = ctl /\ aborted' = aborted
    BY <2>1, <2>2, <2>3 DEF CallsTyped
  <2>4. CASE ctl' = ctl + 1 /\ aborted' = aborted
    <3>1. aborted' \subseteq 0..ctl' /\ ctl' \in Nat
      BY <2>1, <2>2, <2>4
    <3> QED
      BY <2>2, <3>1 DEF CallsTyped
  <2> QED
    BY <2>3, <2>4, <1>1
<1>5. RecordsTyped'
  BY <1>1 DEF RecordsTyped
<1>6. OneOK'
  BY <1>1 DEF OneOK, Launching, Launched, CtlAborted, ChildTyped
<1>7. SlotsOK'
  BY <1>1 DEF SlotsOK, FilesTyped
<1>8. StopOK'
  BY <1>1 DEF StopOK, CallsTyped
<1> QED
  BY <1>2, <1>3, <1>4, <1>5, <1>6, <1>7, <1>8

LEMMA StartPreparedKeeps == ASSUME CpaInv, StartPrepared PROVE CpaInv'
<1> USE CpaAssumption DEF CpaInv, StartPrepared, callVars, ctlVars, goneVars, slotVars
<1>1. \/ /\ op' \in OpRecords /\ op'.at = "ending" /\ op'.target = op.target /\ op'.back = op.back /\ op'.victim = child
         /\ op'.next = "idle" /\ op'.keep = op.keep
         /\ child' = 0
         /\ installs' = installs
      \/ /\ op' \in OpRecords /\ op'.at = "launch" /\ op'.target = Target /\ op'.back = Named(current) /\ op'.victim = op.victim
         /\ op'.next = op.next /\ op'.keep = op.keep
         /\ child' = child /\ installs' = installs /\ {Target, Named(current)} \subseteq dirs \cup {0}
      \/ /\ op' \in OpRecords /\ op'.at = "installing" /\ op'.target = op.target /\ op'.back = op.back /\ op'.victim = op.victim
         /\ op'.next = op.next /\ op'.keep = op.keep
         /\ child' = child /\ installs' = [installs EXCEPT !["start"] = [@ EXCEPT !.at = "asking", !.ctl = ctl]]
  <2>1. {Target, Named(current)} \subseteq dirs \cup {0} /\ Target \in Versions /\ Named(current) \in Versions
    BY VersionFacts DEF Target, Named, FilesTyped
  <2>2. CASE OpTerminates("idle") /\ UNCHANGED installs
    BY <2>2, OpTerminated
  <2>3. CASE UNCHANGED <<child, installs>> /\ op' = [op EXCEPT !.at = "launch", !.target = Target, !.back = Named(current)]
    BY <2>1, <2>3, OpChooses
  <2>4. CASE UNCHANGED child /\ OpMoves("installing")
             /\ installs' = [installs EXCEPT !["start"] = [@ EXCEPT !.at = "asking", !.ctl = ctl]]
    BY <2>4, OpMoved DEF OpPlaces
  <2> QED
    BY <2>2, <2>3, <2>4
<1>0. /\ installs \in [{"start", "update"} -> InstallRecords] /\ ctl \in Nat
      /\ installs' = [installs EXCEPT !["start"] = [@ EXCEPT !.at = "asking", !.ctl = ctl]] =>
           /\ installs' \in [{"start", "update"} -> InstallRecords] /\ installs'["start"].at = "asking"
           /\ installs'["update"] = installs["update"]
  <2> DEFINE asking == [installs["start"] EXCEPT !.at = "asking", !.ctl = ctl]
  <2>1. installs \in [{"start", "update"} -> InstallRecords] /\ ctl \in Nat
    BY DEF RecordsTyped, CallsTyped
  <2>2. asking \in InstallRecords /\ asking.at = "asking"
    BY <2>1 DEF InstallRecords, InstallPlaces
  <2> HIDE DEF asking
  <2>3. ASSUME installs' = [installs EXCEPT !["start"] = asking]
        PROVE  /\ installs' \in [{"start", "update"} -> InstallRecords] /\ installs'["start"] = asking
               /\ installs'["update"] = installs["update"]
    BY <2>1, <2>2, <2>3
  <2> QED
    BY <2>1, <2>2, <2>3 DEF asking
<1>2. FilesTyped'
  BY <1>1 DEF FilesTyped
<1>3. ChildTyped'
  BY <1>1 DEF ChildTyped
<1>4. CallsTyped'
  BY <1>1 DEF CallsTyped
<1>5. RecordsTyped'
  BY <1>0, <1>1 DEF RecordsTyped
<1>6. OneOK'
  BY <1>1 DEF OneOK, Launching, Launched, CtlAborted, ChildTyped
<1>7. SlotsOK'
  BY <1>0, <1>1 DEF SlotsOK
<1>8. StopOK'
  BY <1>1 DEF StopOK, CallsTyped
<1> QED
  BY <1>2, <1>3, <1>4, <1>5, <1>6, <1>7, <1>8

LEMMA StartInstalledKeeps == ASSUME CpaInv, StartInstalled PROVE CpaInv'
<1> USE CpaAssumption DEF CpaInv, StartInstalled, callVars, ctlVars, goneVars, slotVars
<1>1. \/ /\ op' \in OpRecords /\ op'.at = "ending" /\ op'.target = op.target /\ op'.back = op.back /\ op'.victim = child
         /\ op'.next = "idle" /\ op'.keep = op.keep
         /\ child' = 0
      \/ /\ op' \in OpRecords /\ op'.at = "launch" /\ op'.target = installs["start"].v /\ op'.back = op.back /\ op'.victim = op.victim
         /\ op'.next = op.next /\ op'.keep = op.keep
         /\ child' = child /\ installs["start"].at = "done"
  <2>1. installs["start"].v \in Versions
    BY DEF RecordsTyped, InstallRecords
  <2>2. CASE OpTerminates("idle")
    BY <2>2, OpTerminated
  <2>3. CASE installs["start"].at = "done" /\ op' = [op EXCEPT !.at = "launch", !.target = installs["start"].v] /\ UNCHANGED child
    BY <2>1, <2>3, OpChooses DEF RecordsTyped, OpRecords
  <2> QED
    BY <2>2, <2>3
<1>0. /\ installs' \in [{"start", "update"} -> InstallRecords] /\ installs'["start"].at = "idle"
      /\ installs'["update"] = installs["update"]
  BY VersionFacts DEF RecordsTyped, InstallRecords, InstallPlaces, NoInstall
<1>2. FilesTyped'
  BY <1>1 DEF FilesTyped
<1>3. ChildTyped'
  BY <1>1 DEF ChildTyped
<1>4. CallsTyped'
  BY <1>1 DEF CallsTyped
<1>5. RecordsTyped'
  BY <1>0, <1>1 DEF RecordsTyped
<1>6. OneOK'
  BY <1>1 DEF OneOK, Launching, Launched, CtlAborted, ChildTyped
<1>7. SlotsOK'
  BY <1>0, <1>1 DEF SlotsOK
<1>8. StopOK'
  BY <1>1 DEF StopOK, CallsTyped
<1> QED
  BY <1>2, <1>3, <1>4, <1>5, <1>6, <1>7, <1>8

LEMMA LaunchBeginsKeeps == ASSUME CpaInv, LaunchBegins PROVE CpaInv'
<1> USE CpaAssumption DEF CpaInv, LaunchBegins, callVars, ctlVars, flightVars, goneVars, slotVars
<1>1. \/ /\ op' \in OpRecords /\ op'.at = "launch" /\ op'.target = op.back /\ op'.back = op.back /\ op'.victim = op.victim
         /\ op'.next = op.next /\ op'.keep = op.keep
         /\ child' = child /\ op.at = "back"
      \/ /\ op' \in OpRecords /\ op'.at = "ending" /\ op'.target = op.target /\ op'.back = op.back /\ op'.victim = child
         /\ op'.keep = op.keep /\ child' = 0
      \/ /\ op' \in OpRecords /\ op'.at = "spawning" /\ op'.target = op.target /\ op'.back = op.back /\ op'.victim = op.victim
         /\ op'.next = op.next /\ op'.keep = op.keep
         /\ child' = child /\ ~CtlAborted /\ ~disposed
  BY OpMoved, LaunchFailed, OpChooses DEF OpPlaces, RecordsTyped, OpRecords
<1>2. FilesTyped'
  BY <1>1 DEF FilesTyped
<1>3. ChildTyped'
  BY <1>1 DEF ChildTyped
<1>4. CallsTyped'
  BY <1>1 DEF CallsTyped
<1>5. RecordsTyped'
  BY <1>1 DEF RecordsTyped
<1>6. OneOK'
  BY <1>1 DEF OneOK, Launching, Launched, CtlAborted, ChildTyped
<1>7. SlotsOK'
  BY <1>1 DEF SlotsOK, FilesTyped
<1>8. StopOK'
  BY <1>1 DEF StopOK, CallsTyped
<1> QED
  BY <1>2, <1>3, <1>4, <1>5, <1>6, <1>7, <1>8

LEMMA LaunchSpawnsKeeps == ASSUME CpaInv, LaunchSpawns PROVE CpaInv'
<1> USE CpaAssumption DEF CpaInv, LaunchSpawns, MaySpawn, callVars, ctlVars, flightVars, goneVars, slotVars
<1>1. \/ /\ op' \in OpRecords /\ op'.at = "ending" /\ op'.target = op.target /\ op'.back = op.back /\ op'.victim = child
         /\ op'.keep = op.keep /\ child' = 0
         /\ alive' = alive /\ spawned' = spawned
      \/ /\ op' \in OpRecords /\ op'.at = "polling" /\ op'.target = op.target /\ op'.back = op.back /\ op'.victim = op.victim
         /\ op'.next = op.next /\ op'.keep = op.keep
         /\ ~CtlAborted /\ spawned < MaxSpawns
         /\ spawned' = spawned + 1 /\ child' = spawned + 1 /\ alive' = alive \cup {spawned + 1}
  BY OpMoved, LaunchFailed DEF OpPlaces
<1>2. FilesTyped'
  BY <1>1 DEF FilesTyped
<1>3. ChildTyped'
  BY <1>1 DEF ChildTyped
<1>4. CallsTyped'
  BY <1>1 DEF CallsTyped
<1>5. RecordsTyped'
  BY <1>1 DEF RecordsTyped
<1>6. OneOK'
  BY <1>1 DEF OneOK, Launching, Launched, CtlAborted, ChildTyped
<1>7. SlotsOK'
  BY <1>1 DEF SlotsOK, FilesTyped
<1>8. StopOK'
  BY <1>1 DEF StopOK, CallsTyped
<1> QED
  BY <1>2, <1>3, <1>4, <1>5, <1>6, <1>7, <1>8

LEMMA LaunchAnsweredKeeps == ASSUME CpaInv, LaunchAnswered PROVE CpaInv'
<1> USE CpaAssumption DEF CpaInv, LaunchAnswered, callVars, ctlVars, flightVars, goneVars, slotVars
<1>1. \/ /\ op' \in OpRecords /\ op'.at = "ending" /\ op'.target = op.target /\ op'.back = op.back /\ op'.victim = child
         /\ op'.keep = op.keep /\ child' = 0
         /\ answered' = answered
      \/ /\ op' \in OpRecords /\ op'.at = "activating" /\ op'.target = op.target /\ op'.back = op.back /\ op'.victim = op.victim
         /\ op'.next = op.next /\ op'.keep = op.keep
         /\ child' = child /\ answered' = answered \cup {op.target}
  BY OpMoved, LaunchFailed DEF OpPlaces
<1>2. FilesTyped'
  BY <1>1 DEF FilesTyped
<1>3. ChildTyped'
  BY <1>1 DEF ChildTyped
<1>4. CallsTyped'
  BY <1>1 DEF CallsTyped
<1>5. RecordsTyped'
  BY <1>1 DEF RecordsTyped
<1>6. OneOK'
  BY <1>1 DEF OneOK, Launching, Launched, CtlAborted, ChildTyped
<1>7. SlotsOK'
  BY <1>1 DEF SlotsOK, FilesTyped
<1>8. StopOK'
  BY <1>1 DEF StopOK, CallsTyped
<1> QED
  BY <1>2, <1>3, <1>4, <1>5, <1>6, <1>7, <1>8

LEMMA ActivatedKeeps == ASSUME CpaInv, Activated PROVE CpaInv'
<1> USE CpaAssumption DEF CpaInv, Activated, Named, callVars, childVars, ctlVars, flightVars, goneVars
<1>1. /\ op' \in OpRecords /\ op'.at = "forgetting" /\ op'.target = op.target /\ op'.back = op.back /\ op'.victim = op.victim
     /\ op'.next = op.next /\ op'.keep = op.keep
  BY OpMoved DEF OpPlaces
<1>2. FilesTyped'
  <2>1. op.target \in Versions /\ UNCHANGED <<latest, pending, dirs>> /\ current' = op.target
        /\ previous' \in {current, previous}
    BY DEF RecordsTyped, OpRecords
  <2> QED
    BY <2>1 DEF FilesTyped
<1>3. ChildTyped'
  BY <1>1 DEF ChildTyped
<1>4. CallsTyped'
  BY <1>1 DEF CallsTyped
<1>5. RecordsTyped'
  BY <1>1 DEF RecordsTyped
<1>6. OneOK'
  BY <1>1 DEF OneOK, Launching, Launched, CtlAborted, ChildTyped
<1>7. SlotsOK'
  BY <1>1 DEF SlotsOK, FilesTyped
<1>8. StopOK'
  BY <1>1 DEF StopOK, CallsTyped
<1> QED
  BY <1>2, <1>3, <1>4, <1>5, <1>6, <1>7, <1>8

LEMMA PendingForgottenKeeps == ASSUME CpaInv, PendingForgotten PROVE CpaInv'
<1> USE CpaAssumption DEF CpaInv, PendingForgotten, callVars, childVars, ctlVars, flightVars, goneVars
<1>1. /\ op' \in OpRecords /\ op'.at = "reading" /\ op'.target = op.target /\ op'.back = op.back /\ op'.victim = op.victim
     /\ op'.next = op.next /\ op'.keep = op.keep
  BY OpMoved DEF OpPlaces
<1>2. FilesTyped'
  BY <1>1, VersionFacts DEF FilesTyped
<1>3. ChildTyped'
  BY <1>1 DEF ChildTyped
<1>4. CallsTyped'
  BY <1>1 DEF CallsTyped
<1>5. RecordsTyped'
  BY <1>1 DEF RecordsTyped
<1>6. OneOK'
  BY <1>1 DEF OneOK, Launching, Launched, CtlAborted, ChildTyped
<1>7. SlotsOK'
  BY <1>1 DEF SlotsOK, FilesTyped
<1>8. StopOK'
  BY <1>1 DEF StopOK, CallsTyped
<1> QED
  BY <1>2, <1>3, <1>4, <1>5, <1>6, <1>7, <1>8

LEMMA PruneReadsKeeps == ASSUME CpaInv, PruneReads PROVE CpaInv'
<1> USE CpaAssumption DEF CpaInv, PruneReads, Kept, callVars, childVars, ctlVars, flightVars, goneVars, slotVars
<1>1. /\ op' \in OpRecords /\ op'.at = "pruning" /\ op'.target = op.target /\ op'.back = op.back /\ op'.victim = op.victim
     /\ op'.next = op.next /\ op'.keep = Kept
  BY VersionFacts DEF RecordsTyped, OpRecords, OpPlaces, FilesTyped
<1>2. FilesTyped'
  BY <1>1 DEF FilesTyped
<1>3. ChildTyped'
  BY <1>1 DEF ChildTyped
<1>4. CallsTyped'
  BY <1>1 DEF CallsTyped
<1>5. RecordsTyped'
  BY <1>1 DEF RecordsTyped
<1>6. OneOK'
  BY <1>1 DEF OneOK, Launching, Launched, CtlAborted, ChildTyped
<1>7. SlotsOK'
  BY <1>1 DEF SlotsOK, FilesTyped
<1>8. StopOK'
  BY <1>1 DEF StopOK, CallsTyped
<1> QED
  BY <1>2, <1>3, <1>4, <1>5, <1>6, <1>7, <1>8

LEMMA VersionsPrunedKeeps == ASSUME CpaInv, VersionsPruned PROVE CpaInv'
<1> USE CpaAssumption DEF CpaInv, VersionsPruned, callVars, childVars, ctlVars, flightVars, goneVars
<1>1. /\ op' \in OpRecords /\ op'.at = "idle" /\ op'.target = 0 /\ op'.back = 0 /\ op'.victim = 0
     /\ op'.next = "idle" /\ op'.keep = {}
  BY OpEnded
<1>2. FilesTyped'
  BY <1>1 DEF FilesTyped
<1>3. ChildTyped'
  BY <1>1 DEF ChildTyped
<1>4. CallsTyped'
  BY <1>1 DEF CallsTyped
<1>5. RecordsTyped'
  BY <1>1 DEF RecordsTyped
<1>6. OneOK'
  BY <1>1 DEF OneOK, Launching, Launched, CtlAborted, ChildTyped
<1>7. SlotsOK'
  BY <1>1 DEF SlotsOK, FilesTyped
<1>8. StopOK'
  BY <1>1 DEF StopOK, CallsTyped
<1> QED
  BY <1>2, <1>3, <1>4, <1>5, <1>6, <1>7, <1>8

LEMMA ChildExitsKeeps == ASSUME CpaInv, NEW n \in alive, ChildExits(n) PROVE CpaInv'
<1> USE CpaAssumption DEF CpaInv, ChildExits, callVars, ctlVars, flightVars, goneVars, slotVars
<1>2. FilesTyped'
  BY DEF FilesTyped
<1>3. ChildTyped'
  <2>1. /\ alive' = alive \ {n} /\ told' = told \ {n} /\ spawned' = spawned /\ disposed' = disposed
        /\ child' \in {child, 0} /\ running' \in BOOLEAN
    BY DEF ChildTyped
  <2> QED
    BY <2>1 DEF ChildTyped
<1>4. CallsTyped'
  BY DEF CallsTyped
<1>5. RecordsTyped'
  BY DEF RecordsTyped
<1>6. OneOK'
  BY DEF OneOK, Launching, Launched, CtlAborted, ChildTyped
<1>7. SlotsOK'
  BY DEF SlotsOK, FilesTyped
<1>8. StopOK'
  BY DEF StopOK, CallsTyped
<1> QED
  BY <1>2, <1>3, <1>4, <1>5, <1>6, <1>7, <1>8

LEMMA StageUpdateKeeps == ASSUME CpaInv, StageUpdate PROVE CpaInv'
<1> USE CpaAssumption DEF CpaInv, StageUpdate, NewController, callVars, childVars, ctlVars, goneVars, slotVars
<1>2. FilesTyped'
  BY DEF FilesTyped
<1>3. ChildTyped'
  BY DEF ChildTyped
<1>4. CallsTyped'
  BY DEF CallsTyped
<1>5. RecordsTyped'
  <2>1. installs' \in [{"start", "update"} -> InstallRecords] /\ op' = op /\ disposal' = disposal
    BY DEF RecordsTyped, InstallRecords, InstallPlaces
  <2> QED
    BY <2>1 DEF RecordsTyped
<1>6. OneOK'
  BY DEF OneOK, Launching, Launched, CtlAborted, ChildTyped
<1>7. SlotsOK'
  BY DEF SlotsOK, FilesTyped
<1>8. StopOK'
  BY DEF StopOK, CallsTyped
<1> QED
  BY <1>2, <1>3, <1>4, <1>5, <1>6, <1>7, <1>8

\* What an installation does next, in its record and to the versions.
LEMMA InstallMoves ==
  ASSUME CpaInv, NEW w \in {"start", "update"}, InstallStep(w)
  PROVE  /\ installs' \in [{"start", "update"} -> InstallRecords]
         /\ \A x \in {"start", "update"} : x # w => installs'[x] = installs[x]
         /\ \/ installs'[w].at \in {"idle", "asking", "failed"} /\ UNCHANGED <<pending, dirs>>
            \/ installs'[w].at = "done" /\ installs'[w].v \in dirs /\ UNCHANGED <<pending, dirs>>
            \/ installs'[w].at = "placing" /\ installs'[w].v \in 1..MaxVersion /\ UNCHANGED <<pending, dirs>>
            \/ /\ installs'[w].at = "naming" /\ installs'[w].v \in 1..MaxVersion /\ dirs' = dirs \cup {installs'[w].v}
               /\ UNCHANGED pending
            \/ /\ installs[w].at = "naming" /\ pending' = installs[w].v /\ UNCHANGED dirs
               /\ IF w = "update" THEN installs'[w].at = "idle"
                  ELSE installs'[w].at = "done" /\ installs'[w].v = installs[w].v
         /\ installs[w].at # "idle"
<1> DEFINE i == installs[w]
<1>1. /\ installs \in [{"start", "update"} -> InstallRecords] /\ i \in InstallRecords /\ ctl \in Nat
      /\ latest \in 1..MaxVersion /\ latest \in Versions /\ 0 \in Versions
      /\ i.at = "placing" => i.v \in 1..MaxVersion
  BY VersionFacts DEF CpaInv, RecordsTyped, CallsTyped, FilesTyped, SlotsOK
<1>2. ASSUME NEW r \in InstallRecords, Installs(w, r)
      PROVE  /\ installs' \in [{"start", "update"} -> InstallRecords] /\ installs'[w] = r
             /\ \A x \in {"start", "update"} : x # w => installs'[x] = installs[x]
  BY <1>1, <1>2 DEF Installs
<1>3. NoInstall \in InstallRecords /\ [NoInstall EXCEPT !.at = "failed"] \in InstallRecords
      /\ NoInstall.at = "idle" /\ [NoInstall EXCEPT !.at = "failed"].at = "failed"
      /\ \A v \in Versions : /\ [NoInstall EXCEPT !.at = "done", !.v = v] \in InstallRecords
                            /\ [NoInstall EXCEPT !.at = "done", !.v = v].at = "done"
                            /\ [NoInstall EXCEPT !.at = "done", !.v = v].v = v
  BY <1>1 DEF NoInstall, InstallRecords, InstallPlaces
<1>4. CASE i.at = "status" /\ Installs(w, [i EXCEPT !.at = "asking", !.ctl = ctl]) /\ UNCHANGED <<pending, dirs>>
  <2>1. [i EXCEPT !.at = "asking", !.ctl = ctl] \in InstallRecords /\ [i EXCEPT !.at = "asking", !.ctl = ctl].at = "asking"
    BY <1>1 DEF InstallRecords, InstallPlaces
  <2> QED
    BY <1>2, <1>4, <2>1
<1>5. CASE i.at \in {"asking", "placing"} /\ InstallFails(w) /\ UNCHANGED <<pending, dirs>>
  <2>1. installs'[w].at \in {"idle", "failed"}
    BY <1>2, <1>3, <1>5 DEF InstallFails
  <2> QED
    BY <1>2, <1>3, <1>5, <2>1 DEF InstallFails
<1>6. CASE i.at = "asking" /\ UNCHANGED <<pending, dirs>> /\ Named(current) = latest /\ Installed(w, latest)
  <2>1. latest \in dirs
    BY <1>1, <1>6 DEF Named
  <2>2. installs'[w].at = "idle" \/ (installs'[w].at = "done" /\ installs'[w].v = latest)
    BY <1>1, <1>2, <1>3, <1>6 DEF Installed
  <2> QED
    BY <1>1, <1>2, <1>3, <1>6, <2>1, <2>2 DEF Installed
<1>7. CASE i.at = "asking" /\ UNCHANGED <<pending, dirs>> /\ Installs(w, [i EXCEPT !.at = "placing", !.v = latest])
  <2> DEFINE r == [i EXCEPT !.at = "placing", !.v = latest]
  <2>1. r \in InstallRecords /\ r.at = "placing" /\ r.v = latest
    BY <1>1 DEF InstallRecords, InstallPlaces
  <2> HIDE DEF r
  <2> QED
    BY <1>1, <1>2, <1>7, <2>1 DEF r
<1>8. CASE i.at = "placing" /\ dirs' = dirs \cup {i.v} /\ Installs(w, [i EXCEPT !.at = "naming"]) /\ UNCHANGED pending
  <2> DEFINE r == [i EXCEPT !.at = "naming"]
  <2>1. r \in InstallRecords /\ r.at = "naming" /\ r.v = i.v
    BY <1>1 DEF InstallRecords, InstallPlaces
  <2> HIDE DEF r
  <2> QED
    BY <1>1, <1>2, <1>8, <2>1 DEF r
<1>9. CASE i.at = "naming" /\ pending' = i.v /\ Installed(w, i.v) /\ UNCHANGED dirs
  <2>1. i.v \in Versions
    BY <1>1 DEF InstallRecords
  <2>2. installs'[w] = IF w = "update" THEN NoInstall ELSE [NoInstall EXCEPT !.at = "done", !.v = i.v]
    BY <1>2, <1>3, <1>9, <2>1 DEF Installed
  <2> QED
    BY <1>2, <1>3, <1>9, <2>1, <2>2 DEF Installed
<1> QED
  BY <1>4, <1>5, <1>6, <1>7, <1>8, <1>9 DEF InstallStep

LEMMA InstallStepKeeps == ASSUME CpaInv, NEW w \in {"start", "update"}, InstallStep(w) PROVE CpaInv'
<1> USE CpaAssumption DEF CpaInv, childVars, ctlVars, callVars, goneVars
<1>1. UNCHANGED <<latest, current, previous, childVars, ctlVars, running, callVars, op, updates, goneVars>>
  BY DEF InstallStep
<1>2. /\ installs' \in [{"start", "update"} -> InstallRecords]
      /\ \A x \in {"start", "update"} : x # w => installs'[x] = installs[x]
      /\ \/ installs'[w].at \in {"idle", "asking", "failed"} /\ UNCHANGED <<pending, dirs>>
         \/ installs'[w].at = "done" /\ installs'[w].v \in dirs /\ UNCHANGED <<pending, dirs>>
         \/ installs'[w].at = "placing" /\ installs'[w].v \in 1..MaxVersion /\ UNCHANGED <<pending, dirs>>
         \/ /\ installs'[w].at = "naming" /\ installs'[w].v \in 1..MaxVersion /\ dirs' = dirs \cup {installs'[w].v}
            /\ UNCHANGED pending
         \/ /\ installs[w].at = "naming" /\ pending' = installs[w].v /\ UNCHANGED dirs
            /\ IF w = "update" THEN installs'[w].at = "idle"
               ELSE installs'[w].at = "done" /\ installs'[w].v = installs[w].v
      /\ installs[w].at # "idle"
  BY InstallMoves
<1>3. FilesTyped'
  <2>1. installs[w].v \in Versions
    BY DEF RecordsTyped, InstallRecords
  <2>2. pending' \in Versions /\ dirs' \subseteq 1..MaxVersion
    BY <1>2, <2>1 DEF FilesTyped
  <2> QED
    BY <1>1, <2>2 DEF FilesTyped
<1>4. ChildTyped' /\ CallsTyped' /\ RecordsTyped'
  BY <1>1, <1>2 DEF ChildTyped, CallsTyped, RecordsTyped
<1>5. OneOK' /\ StopOK'
  BY <1>1 DEF OneOK, CtlAborted, StopOK
<1>6. SlotsOK'
  <2>1. dirs \subseteq dirs'
    BY <1>2
  <2>2. /\ installs'["start"].at # "idle" => op.at = "installing"
        /\ installs'["start"].at \in {"naming", "done"} => installs'["start"].v \in dirs'
    <3>1. CASE w = "start"
      BY <1>2, <3>1 DEF SlotsOK
    <3>2. CASE w # "start"
      BY <1>2, <2>1, <3>2 DEF SlotsOK
    <3> QED
      BY <3>1, <3>2
  <2>3. \A x \in {"start", "update"} : installs'[x].at = "placing" => installs'[x].v \in 1..MaxVersion
    BY <1>2 DEF SlotsOK
  <2> QED
    BY <1>1, <2>1, <2>2, <2>3 DEF SlotsOK
<1> QED
  BY <1>3, <1>4, <1>5, <1>6

LEMMA CpaDisposeKeeps == ASSUME CpaInv, CpaDispose PROVE CpaInv'
<1> USE CpaAssumption DEF CpaInv, CpaDispose, NoOp, callVars, flightVars, slotVars
<1>2. FilesTyped'
  BY DEF FilesTyped
<1>3. ChildTyped'
  BY DEF ChildTyped
<1>4. CallsTyped'
  BY DEF CallsTyped
<1>5. RecordsTyped'
  <2>1. child \in Nat
    BY DEF ChildTyped
  <2>2. disposal' \in Disposals /\ op' = op /\ installs' = installs
    BY <2>1 DEF Disposals
  <2> QED
    BY <2>2 DEF RecordsTyped
<1>6. OneOK'
  BY DEF OneOK, Launching, Launched, CtlAborted, ChildTyped
<1>7. SlotsOK'
  BY DEF SlotsOK, FilesTyped
<1>8. StopOK'
  BY DEF StopOK, CallsTyped
<1> QED
  BY <1>2, <1>3, <1>4, <1>5, <1>6, <1>7, <1>8

LEMMA DisposeKillsKeeps == ASSUME CpaInv, DisposeKills PROVE CpaInv'
<1> USE CpaAssumption DEF CpaInv, DisposeKills, NoOp, callVars, ctlVars, flightVars, slotVars
<1>2. FilesTyped'
  BY DEF FilesTyped
<1>3. ChildTyped'
  BY DEF ChildTyped
<1>4. CallsTyped'
  BY DEF CallsTyped
<1>5. RecordsTyped'
  <2>1. disposal' \in Disposals /\ op' = op /\ installs' = installs
    BY DEF Disposals
  <2> QED
    BY <2>1 DEF RecordsTyped
<1>6. OneOK'
  BY DEF OneOK, Launching, Launched, CtlAborted, ChildTyped
<1>7. SlotsOK'
  BY DEF SlotsOK, FilesTyped
<1>8. StopOK'
  BY DEF StopOK, CallsTyped
<1> QED
  BY <1>2, <1>3, <1>4, <1>5, <1>6, <1>7, <1>8

LEMMA CpaStutter == ASSUME CpaInv, UNCHANGED cpaVars PROVE CpaInv'
<1> USE DEF CpaInv, cpaVars, slotVars, childVars, ctlVars, callVars, flightVars, goneVars
<1>1. FilesTyped' /\ ChildTyped' /\ CallsTyped' /\ RecordsTyped'
  BY DEF FilesTyped, ChildTyped, CallsTyped, RecordsTyped
<1>2. OneOK' /\ SlotsOK' /\ StopOK'
  BY DEF OneOK, CtlAborted, SlotsOK, StopOK
<1> QED
  BY <1>1, <1>2

LEMMA CpaInvStep == CpaInv /\ [CpaNext]_cpaVars => CpaInv'
<1> SUFFICES ASSUME CpaInv, [CpaNext]_cpaVars PROVE CpaInv'
  OBVIOUS
<1>1. CASE OpStep
  BY <1>1, CpaTakesKeeps, OpKillsKeeps, OpKilledKeeps, StartBeginsKeeps, StartPreparedKeeps, StartInstalledKeeps,
     LaunchBeginsKeeps, LaunchSpawnsKeeps, LaunchAnsweredKeeps, ActivatedKeeps, PendingForgottenKeeps,
     PruneReadsKeeps, VersionsPrunedKeeps DEF OpStep
<1>2. CASE CpaRelease \/ CpaStart \/ CpaStop \/ StageUpdate \/ CpaDispose \/ DisposeKills
  BY <1>2, CpaReleaseKeeps, CpaStartKeeps, CpaStopKeeps, StageUpdateKeeps, CpaDisposeKeeps, DisposeKillsKeeps
<1>3. ASSUME NEW w \in {"start", "update"}, InstallStep(w) PROVE CpaInv'
  BY <1>3, InstallStepKeeps
<1>4. ASSUME NEW n \in alive, ChildExits(n) PROVE CpaInv'
  BY <1>4, ChildExitsKeeps
<1>5. CASE UNCHANGED cpaVars
  BY <1>5, CpaStutter
<1> QED
  BY <1>1, <1>2, <1>3, <1>4, <1>5 DEF CpaNext

\* The relay (cpa/runtime.ts, cpa/installer.ts) has one child at most, of a version that answered, and none
\* after it was disposed of or after the last stop was served.
THEOREM CpaAlwaysSafe == CpaSpec => []CpaSafe
<1>1. CpaInit => CpaInv
  BY CpaInvInit
<1>2. CpaInv /\ [CpaNext]_cpaVars => CpaInv'
  BY CpaInvStep
<1>3. CpaInv => CpaSafe
  <2> SUFFICES ASSUME CpaInv PROVE CpaSafe
    OBVIOUS
  <2> USE CpaAssumption DEF CpaInv
  <2>1. CpaTypeOK
    <3>1. /\ latest \in 1..MaxVersion /\ {current, pending, previous} \subseteq 0..MaxVersion /\ dirs \subseteq 1..MaxVersion
      BY DEF FilesTyped, Versions
    <3>2. /\ spawned \in 0..MaxSpawns /\ child \in 0..spawned /\ told \subseteq alive /\ alive \subseteq 1..spawned
          /\ {running, disposed} \subseteq BOOLEAN
      BY DEF ChildTyped
    <3>3. ctl \in Nat /\ aborted \subseteq 0..ctl /\ {queue[i] : i \in DOMAIN queue} \subseteq {"start", "stop"}
      BY DEF CallsTyped
    <3>4. {op.target, op.back} \subseteq 0..MaxVersion /\ op.at \in OpPlaces
      BY DEF RecordsTyped, OpRecords, Versions
    <3> QED
      BY <3>1, <3>2, <3>3, <3>4 DEF CpaTypeOK, OpPlaces
  <2>2. CpaOneChild
    <3>1. alive \ told \subseteq {child} \cup Ended
      BY DEF OneOK, Ended
    <3>2. Cardinality(alive \ told) <= 1
      <4>1. CASE alive \ told = {}
        BY <4>1, FS_EmptySet
      <4>2. ASSUME NEW n \in alive \ told PROVE Cardinality(alive \ told) <= 1
        <5>1. alive \ told = {n}
          BY DEF OneOK
        <5> QED
          BY <5>1, FS_Singleton
      <4> QED
        BY <4>1, <4>2
    <3> QED
      BY <3>1, <3>2 DEF CpaOneChild
  <2>3. CpaDisposed /\ CpaProven /\ CpaStopped
    BY DEF CpaDisposed, CpaProven, CpaStopped, OneOK, SlotsOK, StopOK, ChildTyped
  <2> QED
    BY <2>1, <2>2, <2>3 DEF CpaSafe
<1> QED
  BY <1>1, <1>2, <1>3, PTL DEF CpaSpec
=============================================================================
