--------------------------- MODULE CompanionDedupe ---------------------------
(***************************************************************************)
(* The replay protection of remote control: CompanionDedupe                *)
(* (src/src/main/companion/dedupe.ts) as CompanionGateway.execute uses it. *)
(*                                                                         *)
(* A delivery is one arrival of a provider event at the gateway; providers *)
(* redeliver, so several deliveries may carry the same event key.  The     *)
(* store keeps receipts of events and of used action tokens in memory and  *)
(* in one file.  Its closures run one at a time through a promise chain    *)
(* (`exclusive`); every await inside a closure (a save of the file) and    *)
(* between closures is a separate step here, and the process may die       *)
(* before any step.                                                        *)
(***************************************************************************)
EXTENDS Integers, Sequences

CONSTANTS
  Deliveries,  \* arrivals of events at the gateway
  Keys,        \* event keys, provider:eventId
  Scopes,      \* what else an event identity fixes: operator, chat, command
  Tokens,      \* jti of signed action tokens
  NoToken,     \* a request without an action token
  Stamp,       \* Stamp[k]: the timestamp the provider gave event k
  TokenExp,    \* TokenExp[t]: the expiry claim of token t
  Ttl,         \* lifetime of an event receipt (24 h in the code)
  MaxAge,      \* requestMaxAgeMs of the gateway (5 min in the code)
  MaxWait,     \* bound: longest wait of a reservation for the promise chain
  MaxTime      \* bound on the clock

ASSUME ConstantsAssumption ==
  /\ NoToken \notin Tokens /\ Scopes # {}
  /\ Stamp \in [Keys -> Nat]
  /\ TokenExp \in [Tokens -> Nat \ {0}]
  /\ {Ttl, MaxAge, MaxWait, MaxTime} \subseteq Nat

\* The window in which the gateway accepts an event, plus the longest wait for
\* the store, is shorter than the life of a receipt (10 minutes against 24 h).
ASSUME WindowAssumption == 2 * MaxAge + MaxWait < Ttl

VARIABLES
  now,      \* the clock
  proc,     \* "up", "down", or "failed" when loading the file was rejected
  mem,      \* events and actions maps
  disk,     \* the file
  queue,    \* the promise chain of exclusive closures, the running one first
  step,     \* progress of the running closure
  pending,  \* pendingEvents: the deliveries whose transaction is in flight
  pc,       \* where each delivery is
  req,      \* what each delivery carries
  since,    \* when the gateway validated it
  reply,    \* the result its caller receives
  ran,      \* history: the deliveries whose operation was started
  outcome,  \* history: what the operation of an event returned
  uses      \* history: the accepted uses of each token and their times

dedupeVars == <<mem, disk, queue, step, pending>>
historyVars == <<ran, outcome, uses>>
vars == <<now, proc, mem, disk, queue, step, pending, pc, req, since, reply,
          ran, outcome, uses>>
-----------------------------------------------------------------------------
Results == {"ok", "denied", "indeterminate"}

\* The null receipt stands for a key the map does not hold.
Receipt ==
  [scope: Scopes, expiresAt: Nat, result: Results \cup {"absent"}]
NoReceipt ==
  [scope |-> CHOOSE s \in Scopes : TRUE, expiresAt |-> 0, result |-> "absent"]
State == [events: [Keys -> Receipt], actions: [Tokens -> Nat]]
EmptyState ==
  [events |-> [k \in Keys |-> NoReceipt], actions |-> [t \in Tokens |-> 0]]
Request == [key: Keys, scope: Scopes, token: Tokens \cup {NoToken}]

Held(m, k) == m.events[k].result # "absent"
Expired(t) == t <= now

\* Deleting from both maps what has expired.
Prune(m) ==
  [events  |-> [k \in Keys |-> IF Expired(m.events[k].expiresAt)
                               THEN NoReceipt ELSE m.events[k]],
   actions |-> [t \in Tokens |-> IF Expired(m.actions[t])
                                 THEN 0 ELSE m.actions[t]]]

Leaders(k) == {d \in pending : req[d].key = k}

\* Mutant: events of any age are accepted.
AnyAge(k) == TRUE

InWindow(k) == now <= Stamp[k] + MaxAge /\ Stamp[k] <= now + MaxAge

\* The closures a delivery can have in the promise chain.
Closures == {"reserve", "consume", "finalize", "repair"}
Running(d, closure, s) ==
  /\ proc = "up"
  /\ queue # <<>> /\ Head(queue) = d
  /\ pc[d] = closure /\ step = s

Saving == step \in {"prune-save", "save"}
Enqueue(d, closure) ==
  /\ queue' = Append(queue, d)
  /\ pc' = [pc EXCEPT ![d] = closure]
Leave(d, to) ==
  /\ queue' = Tail(queue) /\ step' = "start"
  /\ pc' = [pc EXCEPT ![d] = to]
Answer(d, result) == reply' = [reply EXCEPT ![d] = result]
-----------------------------------------------------------------------------
Init ==
  /\ now = 0 /\ proc = "up"
  /\ mem = EmptyState /\ disk = EmptyState
  /\ queue = <<>> /\ step = "start" /\ pending = {}
  /\ pc = [d \in Deliveries |-> "idle"]
  /\ req \in [Deliveries -> Request]
  /\ since = [d \in Deliveries |-> 0]
  /\ reply = [d \in Deliveries |-> "none"]
  /\ ran = {}
  /\ outcome = [k \in Keys |-> "none"]
  /\ uses = [t \in Tokens |-> {}]

(***************************************************************************)
(* runEvent                                                                *)
(***************************************************************************)

\* The gateway validates the age of the request and enters runEvent, which
\* queues its reservation (the result of a rejected validation is not stored).
Deliver(d) ==
  /\ proc = "up" /\ pc[d] = "idle" /\ InWindow(req[d].key)
  /\ since' = [since EXCEPT ![d] = now]
  /\ Enqueue(d, "reserve")
  /\ UNCHANGED <<now, proc, mem, disk, step, pending, req, reply, historyVars>>

\* Both a reservation and the use of a token begin with prune(), which saves
\* the file when it dropped something.
StartClosure(d) ==
  /\ \E c \in {"reserve", "consume"} : Running(d, c, "start")
  /\ mem' = Prune(mem)
  /\ step' = IF mem' # mem THEN "prune-save" ELSE "lookup"
  /\ UNCHANGED <<now, proc, disk, queue, pending, pc, req, since, reply,
                 historyVars>>

PruneSaved(d) ==
  /\ \E c \in {"reserve", "consume"} : Running(d, c, "prune-save")
  /\ disk' = mem /\ step' = "lookup"
  /\ UNCHANGED <<now, proc, mem, queue, pending, pc, req, since, reply,
                 historyVars>>

Collide(d) ==
  LET k == req[d].key IN
  /\ Running(d, "reserve", "lookup")
  /\ Held(mem, k) /\ mem.events[k].scope # req[d].scope
  /\ Leave(d, "replied") /\ Answer(d, "collision")
  /\ UNCHANGED <<now, proc, mem, disk, pending, req, since, historyVars>>

Join(d) ==
  LET k == req[d].key IN
  /\ Running(d, "reserve", "lookup")
  /\ Held(mem, k) => mem.events[k].scope = req[d].scope
  /\ Leaders(k) # {}
  /\ Leave(d, "joined")
  /\ UNCHANGED <<now, proc, mem, disk, pending, req, since, reply, historyVars>>

Replay(d) ==
  LET k == req[d].key IN
  /\ Running(d, "reserve", "lookup")
  /\ Held(mem, k) /\ mem.events[k].scope = req[d].scope /\ Leaders(k) = {}
  /\ Leave(d, "replied") /\ Answer(d, mem.events[k].result)
  /\ UNCHANGED <<now, proc, mem, disk, pending, req, since, historyVars>>

Reserve(d) ==
  LET k == req[d].key IN
  /\ Running(d, "reserve", "lookup")
  /\ ~Held(mem, k) /\ Leaders(k) = {}
  /\ mem' = [mem EXCEPT !.events[k] =
       [scope |-> req[d].scope, expiresAt |-> now + Ttl,
        result |-> "indeterminate"]]
  /\ step' = "save"
  /\ UNCHANGED <<now, proc, disk, queue, pending, pc, req, since, reply,
                 historyVars>>

\* Mutant: the operation starts on a reservation that is only in memory.
StartUnsaved(d) ==
  /\ Running(d, "reserve", "save")
  /\ pending' = pending \cup {d} /\ ran' = ran \cup {d}
  /\ Leave(d, IF req[d].token = NoToken THEN "acting" ELSE "verifying")
  /\ UNCHANGED <<now, proc, mem, disk, req, since, reply, outcome, uses>>

\* Mutant: the closure awaits the operation it started.
StartUnderTheChain(d) ==
  /\ Running(d, "reserve", "save")
  /\ disk' = mem
  /\ pending' = pending \cup {d} /\ ran' = ran \cup {d}
  /\ pc' = [pc EXCEPT ![d] =
              IF req[d].token = NoToken THEN "acting" ELSE "verifying"]
  /\ UNCHANGED <<now, proc, mem, queue, step, req, since, reply, outcome, uses>>

\* The reservation is on disk: the operation starts and the chain is released.
\* The operation is not awaited by the closure.
StartOperation(d) ==
  /\ Running(d, "reserve", "save")
  /\ disk' = mem
  /\ pending' = pending \cup {d}
  /\ ran' = ran \cup {d}
  /\ Leave(d, IF req[d].token = NoToken THEN "acting" ELSE "verifying")
  /\ UNCHANGED <<now, proc, mem, req, since, reply, outcome, uses>>

\* A save of runEvent's reservation fails: the call rejects, and what the
\* closure did in memory stays there.
ReservationFails(d) ==
  /\ \E s \in {"prune-save", "save"} : Running(d, "reserve", s)
  /\ Leave(d, "replied") /\ Answer(d, "failed")
  /\ UNCHANGED <<now, proc, mem, disk, pending, req, since, historyVars>>
-----------------------------------------------------------------------------
(***************************************************************************)
(* The operation: the gateway verifies and consumes the token, then acts.  *)
(***************************************************************************)

VerifyToken(d) ==
  /\ proc = "up" /\ pc[d] = "verifying"
  /\ \/ /\ ~Expired(TokenExp[req[d].token])
        /\ Enqueue(d, "consume")
        /\ UNCHANGED outcome
     \/ /\ Expired(TokenExp[req[d].token])
        /\ outcome' = [outcome EXCEPT ![req[d].key] = "denied"]
        /\ Enqueue(d, "finalize")
  /\ UNCHANGED <<now, proc, mem, disk, step, pending, req, since, reply, ran,
                 uses>>

\* consumeAction, after its prune: an unused jti is recorded and saved.
ConsumeToken(d) ==
  LET t == req[d].token IN
  /\ Running(d, "consume", "lookup") /\ mem.actions[t] = 0
  /\ mem' = [mem EXCEPT !.actions[t] = TokenExp[t]]
  /\ step' = "save"
  /\ UNCHANGED <<now, proc, disk, queue, pending, pc, req, since, reply,
                 historyVars>>

\* Mutant: the use of a token is kept in memory only.
TokenUnsaved(d) ==
  /\ Running(d, "consume", "save")
  /\ uses' = [uses EXCEPT ![req[d].token] = @ \cup {<<d, now>>}]
  /\ Leave(d, "acting")
  /\ UNCHANGED <<now, proc, mem, disk, pending, req, since, reply, ran, outcome>>

TokenSaved(d) ==
  LET t == req[d].token IN
  /\ Running(d, "consume", "save")
  /\ disk' = mem
  /\ uses' = [uses EXCEPT ![t] = @ \cup {<<d, now>>}]
  /\ Leave(d, "acting")
  /\ UNCHANGED <<now, proc, mem, pending, req, since, reply, ran, outcome>>

\* A jti already recorded, or a save that fails, denies the action; the
\* operation returns and its receipt is to be finalised.
TokenRefused(d) ==
  /\ \/ Running(d, "consume", "lookup") /\ mem.actions[req[d].token] # 0
     \/ \E s \in {"prune-save", "save"} : Running(d, "consume", s)
  /\ queue' = Append(Tail(queue), d) /\ step' = "start"
  /\ pc' = [pc EXCEPT ![d] = "finalize"]
  /\ outcome' = [outcome EXCEPT ![req[d].key] = "denied"]
  /\ UNCHANGED <<now, proc, mem, disk, pending, req, since, reply, ran, uses>>

\* The side effect on the terminal, or its refusal.
Act(d) ==
  /\ proc = "up" /\ pc[d] = "acting"
  /\ \E r \in {"ok", "denied"} : outcome' = [outcome EXCEPT ![req[d].key] = r]
  /\ Enqueue(d, "finalize")
  /\ UNCHANGED <<now, proc, mem, disk, step, pending, req, since, reply, ran,
                 uses>>

(***************************************************************************)
(* The end of the transaction                                              *)
(***************************************************************************)

\* Mutant: every finalised receipt is a success.
WithSuccess(m, k, r) ==
  IF Held(m, k) THEN [m EXCEPT !.events[k].result = "ok"] ELSE m

WithResult(m, k, r) ==
  IF Held(m, k) THEN [m EXCEPT !.events[k].result = r] ELSE m

Finalize(d) ==
  /\ Running(d, "finalize", "start")
  /\ mem' = WithResult(mem, req[d].key, outcome[req[d].key])
  /\ step' = "save"
  /\ UNCHANGED <<now, proc, disk, queue, pending, pc, req, since, reply,
                 historyVars>>

FinalSaved(d) ==
  /\ Running(d, "finalize", "save")
  /\ disk' = mem
  /\ Leave(d, "settling") /\ Answer(d, outcome[req[d].key])
  /\ UNCHANGED <<now, proc, mem, pending, req, since, historyVars>>

\* The save failed: a second closure, queued behind whatever waits by now,
\* marks the receipt indeterminate in memory.
FinalFails(d) ==
  /\ Running(d, "finalize", "save")
  /\ queue' = Append(Tail(queue), d) /\ step' = "start"
  /\ pc' = [pc EXCEPT ![d] = "repair"]
  /\ UNCHANGED <<now, proc, mem, disk, pending, req, since, reply, historyVars>>

\* Mutant: the failed save is answered but the receipt keeps the result.
RepairReplyOnly(d) ==
  /\ Running(d, "repair", "start")
  /\ Leave(d, "settling") /\ Answer(d, "indeterminate")
  /\ UNCHANGED <<now, proc, mem, disk, pending, req, since, historyVars>>

Repair(d) ==
  /\ Running(d, "repair", "start")
  /\ mem' = WithResult(mem, req[d].key, "indeterminate")
  /\ Leave(d, "settling") /\ Answer(d, "indeterminate")
  /\ UNCHANGED <<now, proc, disk, pending, req, since, historyVars>>

\* The finally of the transaction, and the callers that shared its promise.
Settle(d) ==
  LET joined == {j \in Deliveries : pc[j] = "joined" /\ req[j].key = req[d].key}
  IN
  /\ proc = "up" /\ pc[d] = "settling"
  /\ pending' = pending \ {d}
  /\ pc' = [j \in Deliveries |-> IF j \in joined \cup {d} THEN "replied" ELSE pc[j]]
  /\ reply' = [j \in Deliveries |-> IF j \in joined THEN reply[d] ELSE reply[j]]
  /\ UNCHANGED <<now, proc, mem, disk, queue, step, req, since, historyVars>>
-----------------------------------------------------------------------------
(***************************************************************************)
(* The process and the clock                                               *)
(***************************************************************************)

\* The process dies.  A save replaces the file by a rename, so a save under
\* way has either happened or not.
Crash ==
  /\ proc # "down"
  /\ proc' = "down"
  /\ disk' \in IF Saving THEN {disk, mem} ELSE {disk}
  /\ mem' = EmptyState /\ queue' = <<>> /\ step' = "start" /\ pending' = {}
  /\ pc' = [d \in Deliveries |-> IF pc[d] = "idle" THEN "idle" ELSE "gone"]
  /\ UNCHANGED <<now, req, since, reply, historyVars>>

\* load() and its prune, before `ready` lets any call pass.  When the save of
\* the prune fails `ready` rejects, and every call with it.
Restart ==
  LET loaded == Prune(disk) IN
  /\ proc = "down"
  /\ mem' = loaded
  /\ \/ proc' = "up" /\ disk' = loaded
     \/ proc' = "failed" /\ loaded # disk /\ disk' = disk
  /\ UNCHANGED <<now, queue, step, pending, pc, req, since, reply, historyVars>>

\* With a rejected `ready` the gateway reports a failure and executes nothing.
RejectedReady(d) ==
  /\ proc = "failed" /\ pc[d] = "idle" /\ InWindow(req[d].key)
  /\ pc' = [pc EXCEPT ![d] = "replied"] /\ Answer(d, "failed")
  /\ UNCHANGED <<now, proc, dedupeVars, req, since, historyVars>>

Tick ==
  /\ now < MaxTime
  /\ \A d \in Deliveries : pc[d] = "reserve" => now < since[d] + MaxWait
  /\ now' = now + 1
  /\ UNCHANGED <<proc, dedupeVars, pc, req, since, reply, historyVars>>

Closure(d) ==
  \/ StartClosure(d) \/ PruneSaved(d)
  \/ Collide(d) \/ Join(d) \/ Replay(d) \/ Reserve(d)
  \/ StartOperation(d) \/ ReservationFails(d)
  \/ ConsumeToken(d) \/ TokenSaved(d) \/ TokenRefused(d)
  \/ Finalize(d) \/ FinalSaved(d) \/ FinalFails(d) \/ Repair(d)
Operation(d) == VerifyToken(d) \/ Act(d)

Next ==
  \/ \E d \in Deliveries :
       Deliver(d) \/ Closure(d) \/ Operation(d) \/ Settle(d) \/ RejectedReady(d)
  \/ Crash \/ Restart \/ Tick

Spec == Init /\ [][Next]_vars

\* The event loop runs what is ready and file operations end; terminals answer.
Fairness ==
  \A d \in Deliveries :
    WF_vars(Closure(d)) /\ WF_vars(Operation(d)) /\ WF_vars(Settle(d))
FairSpec == Spec /\ Fairness
-----------------------------------------------------------------------------
(***************************************************************************)
(* Properties                                                              *)
(***************************************************************************)

PCs == {"idle", "joined", "verifying", "acting", "settling", "replied", "gone"}
         \cup Closures
Replies == Results \cup {"none", "collision", "failed"}

\* Every variable has its type.
TypeOK ==
  /\ now \in Nat /\ proc \in {"up", "down", "failed"}
  /\ mem \in State /\ disk \in State
  /\ queue \in Seq(Deliveries)
  /\ step \in {"start", "prune-save", "lookup", "save"}
  /\ pending \subseteq Deliveries
  /\ pc \in [Deliveries -> PCs]
  /\ req \in [Deliveries -> Request]
  /\ since \in [Deliveries -> Nat]
  /\ reply \in [Deliveries -> Replies]
  /\ ran \subseteq Deliveries
  /\ outcome \in [Keys -> {"none", "ok", "denied"}]
  /\ uses \in [Tokens -> SUBSET (Deliveries \X Nat)]

\* The operation of an event starts at most once, whatever is redelivered,
\* whenever, concurrently or after a restart, and whichever saves fail: a
\* remote follow-up, stop or approval is not typed twice into a terminal.
AtMostOnce ==
  \A d, e \in ran : req[d].key = req[e].key => d = e

\* A caller is told of a success or a refusal only if that is what the one
\* operation of its event returned, and only if that operation belongs to the
\* same identity: a colliding event id never reads another event's result.
HonestReply ==
  \A d \in Deliveries : reply[d] \in {"ok", "denied"} =>
    /\ outcome[req[d].key] = reply[d]
    /\ \E e \in ran : req[e].key = req[d].key /\ req[e].scope = req[d].scope

\* The comment in runEvent: an operation whose receipt could not be finalised,
\* and was answered as indeterminate, is never replayed as a success by this
\* process, although another save may since have put the success on disk.
IndeterminateSticks ==
  \A d \in Deliveries :
    proc = "up" /\ pc[d] = "replied" /\ reply[d] = "indeterminate"
      => mem.events[req[d].key].result \in {"indeterminate", "absent"}

\* What a caller is told is true, whatever is redelivered, saved or lost in between.
RepliesTrue == TypeOK /\ HonestReply /\ IndeterminateSticks

\* An action token that has not expired is accepted once, across events,
\* concurrent operations and restarts.
TokenUsedOnceBeforeExpiry ==
  \A t \in Tokens : \A u, v \in uses[t] :
    u[2] < TokenExp[t] /\ v[2] < TokenExp[t] => u = v

\* Every delivery that entered the store is answered, unless the process dies:
\* the operation that waits for the promise chain is not awaited under it.
Answered ==
  \A d \in Deliveries : pc[d] = "reserve" ~> pc[d] \in {"replied", "gone"}

\* What became of an event's operation, read off the detailed state.
StatusOf(k) ==
  IF \A e \in ran : req[e].key # k THEN "new"
  ELSE IF outcome[k] # "none" THEN outcome[k]
  ELSE IF Leaders(k) # {} THEN "running" ELSE "lost"

Promise == INSTANCE ReplayContract WITH
  Events <- Keys, Callers <- Deliveries,
  eventOf <- [d \in Deliveries |-> req[d].key],
  status <- [k \in Keys |-> StatusOf(k)],
  told <- reply

\* The store with its file, clock and crashes implements the contract.
ImplementsContract == Promise!Contract
=============================================================================
