--------------------------- MODULE CompanionGateway ---------------------------
(***************************************************************************)
(* Remote control of terminals from a chat: CompanionGateway.executeOnce    *)
(* (companion/gateway.ts) between the two records of the audit log          *)
(* (companion/audit-store.ts), with the bindings of chats to terminals      *)
(* (companion/binding-store.ts) and the approval prompts the terminals show *)
(* (companion/session-state.ts, companion/terminal-control.ts).             *)
(*                                                                         *)
(* A request is one validated event; CompanionDedupe has each executed at   *)
(* most once.  Requests interleave at their awaits.  The closures of the    *)
(* binding store run one at a time (`exclusive`): `chain` holds the         *)
(* requests whose closure waits, the running one first.                     *)
(***************************************************************************)
EXTENDS Integers, Sequences

CONSTANTS
  Requests,   \* validated events
  Chats,      \* scopes of bindings
  Terminals,  \* terminals of CLI agents
  None,       \* no binding, no terminal
  Ttl,        \* bindingTtlMs
  MaxTime,    \* bound on the clock
  MaxPrompts  \* bound on the approval prompts of a terminal

ASSUME GatewayAssumption ==
  /\ Ttl \in Nat \ {0} /\ MaxTime \in Nat /\ MaxPrompts \in Nat
  /\ None \notin Terminals

VARIABLES
  now,       \* the clock
  up,        \* the process runs
  mem,       \* bindings
  disk,      \* the file of bindings
  chain,     \* requests with a closure in the promise chain
  saving,    \* the running closure awaits persist()
  undo,      \* the binding it puts back if persist() fails
  live,      \* terminals that run
  approval,  \* pendingApprovals
  pc,        \* where each request is
  req,       \* its chat and command
  target,    \* the terminal it binds, or was resolved to
  expires,   \* the expiry of the binding it makes
  result,    \* what its caller is told
  intents,   \* requests with an intent record in the audit log
  outcomes,  \* the outcome record of each request
  asked,     \* prompts each terminal has shown
  answers,   \* history: keystrokes sent in answer to its prompts
  wrote,     \* history: requests that wrote to their target
  seen       \* history: terminals the chat was bound to during a request

storeVars == <<mem, disk, chain, saving, undo>>
terminalVars == <<live, approval, asked, answers, wrote>>
auditVars == <<intents, outcomes>>
vars == <<now, up, storeVars, terminalVars, auditVars, pc, req, target, expires,
          result, seen>>
-----------------------------------------------------------------------------
Commands == {"bind", "unbind", "status", "send", "answer"}
Binding == [terminal: Terminals, expires: 0..(MaxTime + Ttl)] \cup {None}
NoRequest == [chat |-> None, command |-> "none"]

Active(b) == b # None /\ b.expires > now
BoundTo(c) == IF Active(mem[c]) THEN {mem[c].terminal} ELSE {}
InFlight(r) == pc[r] \notin {"idle", "done", "gone"}
ChatOf(r) == req[r].chat

\* A moment at which no request is in flight: each chat has the binding that an
\* earlier request just made, or none.
Init ==
  /\ now = 0 /\ up = TRUE
  /\ mem \in [Chats -> {b \in Binding : b = None \/ b.expires = Ttl}] /\ disk = mem
  /\ chain = <<>> /\ saving = FALSE /\ undo = None
  /\ live = Terminals /\ approval = {}
  /\ pc = [r \in Requests |-> "idle"] /\ req = [r \in Requests |-> NoRequest]
  /\ target = [r \in Requests |-> None] /\ expires = [r \in Requests |-> 0]
  /\ result = [r \in Requests |-> "none"]
  /\ intents = {} /\ outcomes = [r \in Requests |-> "none"]
  /\ asked = [t \in Terminals |-> 0] /\ answers = [t \in Terminals |-> 0]
  /\ wrote = {} /\ seen = [r \in Requests |-> {}]
-----------------------------------------------------------------------------
Goto(r, p) == pc' = [pc EXCEPT ![r] = p]
Enqueue(r, closure) == Goto(r, closure) /\ chain' = Append(chain, r)

\* executeOnce returns or throws: the outcome is to be recorded.
Conclude(r, how) ==
  Goto(r, "closing") /\ result' = [result EXCEPT ![r] = how]

\* Nothing but the result remains of requests that are over.
Forget(S) ==
  /\ req' = [r \in Requests |-> IF r \in S THEN NoRequest ELSE req[r]]
  /\ target' = [r \in Requests |-> IF r \in S THEN None ELSE target[r]]
  /\ expires' = [r \in Requests |-> IF r \in S THEN 0 ELSE expires[r]]

Arrive(r) ==
  /\ up /\ pc[r] = "idle" /\ Goto(r, "intent")
  /\ \E c \in Chats, m \in Commands :
       /\ req' = [req EXCEPT ![r] = [chat |-> c, command |-> m]]
       /\ \E t \in IF m = "bind" THEN Terminals ELSE {None} :
            target' = [target EXCEPT ![r] = t]
  /\ UNCHANGED <<now, up, storeVars, terminalVars, auditVars, expires, result>>

\* What executeOnce does first: a bind looks its terminal up, any other command
\* has bindings.resolve queued.
Start(r) ==
  IF req[r].command = "bind" THEN Goto(r, "check") /\ UNCHANGED chain
  ELSE Enqueue(r, "resolve")

IntentFrame == <<now, up, mem, disk, saving, undo, terminalVars, outcomes>>

\* audit.begin: without the intent nothing is executed.
Intent(r) ==
  /\ up /\ pc[r] = "intent"
  /\ \/ /\ intents' = intents \cup {r} /\ Start(r)
        /\ UNCHANGED <<req, target, expires, result>>
     \/ /\ Goto(r, "done") /\ result' = [result EXCEPT ![r] = "denied"]
        /\ Forget({r}) /\ UNCHANGED <<intents, chain>>
  /\ UNCHANGED IntentFrame

\* Where a request goes when its target stands, or its token has been accepted.
Execute(r) ==
  CASE req[r].command = "bind" ->
         /\ Enqueue(r, "bind")
         /\ expires' = [expires EXCEPT ![r] = now + Ttl]
    [] req[r].command = "unbind" -> Enqueue(r, "unbind") /\ UNCHANGED expires
    [] OTHER -> Goto(r, "act") /\ UNCHANGED <<chain, expires>>

\* The target is looked up.  A bind to a dead terminal is denied, any other
\* command on one drops the binding of the chat, except an unbind, which needs no
\* live terminal.  The request carries a token or none.
Check(r) ==
  /\ up /\ pc[r] = "check"
  /\ IF target[r] \notin live /\ req[r].command # "unbind"
     THEN /\ IF req[r].command = "bind" THEN Conclude(r, "denied") /\ UNCHANGED chain
             ELSE Enqueue(r, "cleanup") /\ UNCHANGED result
          /\ UNCHANGED expires
     ELSE /\ \/ Goto(r, "token") /\ UNCHANGED <<chain, expires>>
             \/ Execute(r)
          /\ UNCHANGED result
  /\ UNCHANGED <<now, up, mem, disk, saving, undo, terminalVars, auditVars, req,
                 target>>

\* The token is verified and used, or refused.
Token(r) ==
  /\ up /\ pc[r] = "token"
  /\ \/ Execute(r) /\ UNCHANGED result
     \/ Conclude(r, "denied") /\ UNCHANGED <<chain, expires>>
  /\ UNCHANGED <<now, up, mem, disk, saving, undo, terminalVars, auditVars, req,
                 target>>

\* Mutant: the approval stays pending when it has been answered.
RespondAgain(t) ==
  /\ answers' = [answers EXCEPT ![t] = @ + 1]
  /\ UNCHANGED approval

\* respondToApproval: the keystroke, and the prompt is no longer pending.
Respond(t) ==
  /\ answers' = [answers EXCEPT ![t] = @ + 1]
  /\ approval' = approval \ {t}

\* The effect on the terminal: a line or an interrupt, unless the line is not
\* valid; the answer to a pending prompt; or the status of the binding.  A write
\* to a terminal that has died meanwhile does nothing and is reported ok.
Act(r) ==
  LET t == target[r] IN
  /\ up /\ pc[r] = "act"
  /\ \/ /\ req[r].command = "status" /\ Conclude(r, "ok")
        /\ UNCHANGED <<wrote, approval, answers>>
     \/ /\ req[r].command = "send" /\ Conclude(r, "ok")
        /\ wrote' = IF t \in live THEN wrote \cup {r} ELSE wrote
        /\ UNCHANGED <<approval, answers>>
     \/ /\ req[r].command = "answer" /\ t \in approval /\ Conclude(r, "ok")
        /\ Respond(t) /\ wrote' = wrote \cup {r}
     \/ /\ \/ req[r].command = "send"
           \/ req[r].command = "answer" /\ t \notin approval
        /\ Conclude(r, "denied")
        /\ UNCHANGED <<wrote, approval, answers>>
  /\ UNCHANGED <<now, up, storeVars, live, asked, auditVars, req, target, expires>>

\* audit.complete: an outcome that cannot be recorded is reported as a failure.
Outcome(r) ==
  /\ up /\ pc[r] = "closing" /\ Goto(r, "done")
  /\ \/ outcomes' = [outcomes EXCEPT ![r] = result[r]] /\ UNCHANGED result
     \/ result' = [result EXCEPT ![r] = "denied"] /\ UNCHANGED outcomes
  /\ Forget({r})
  /\ UNCHANGED <<now, up, storeVars, terminalVars, intents>>
-----------------------------------------------------------------------------
(***************************************************************************)
(* The closures of the binding store                                       *)
(***************************************************************************)

Running(r, closures) ==
  up /\ chain # <<>> /\ Head(chain) = r /\ pc[r] \in closures

ClosureFrame == <<now, up, live, asked, answers, wrote, auditVars, req, expires>>

\* Mutant: the expiry of the binding is not looked at.
ResolveExpired(r) ==
  LET b == mem[ChatOf(r)] IN
  /\ Running(r, {"resolve"}) /\ ~saving
  /\ chain' = Tail(chain)
  /\ \/ /\ b = None
        /\ Conclude(r, IF req[r].command = "status" THEN "ok" ELSE "denied")
        /\ UNCHANGED target
     \/ /\ b # None
        /\ Goto(r, "check") /\ target' = [target EXCEPT ![r] = b.terminal]
        /\ UNCHANGED result
  /\ UNCHANGED <<mem, disk, saving, undo, approval, ClosureFrame>>

\* resolve finds no binding, or an active one.
Resolve(r) ==
  LET b == mem[ChatOf(r)] IN
  /\ Running(r, {"resolve"}) /\ ~saving
  /\ chain' = Tail(chain)
  /\ \/ /\ b = None
        /\ Conclude(r, IF req[r].command = "status" THEN "ok" ELSE "denied")
        /\ UNCHANGED target
     \/ /\ Active(b)
        /\ Goto(r, "check") /\ target' = [target EXCEPT ![r] = b.terminal]
        /\ UNCHANGED result
  /\ UNCHANGED <<mem, disk, saving, undo, approval, ClosureFrame>>

\* The map is changed in memory, then saved: a bind sets the binding of the chat;
\* a resolve drops one that has expired; an unbind, and the cleanup after a dead
\* terminal, drop whatever the chat is bound to by now.
Change(r) ==
  LET c == ChatOf(r) IN
  /\ ~saving
  /\ \/ /\ Running(r, {"bind"})
        /\ mem' = [mem EXCEPT ![c] = [terminal |-> target[r], expires |-> expires[r]]]
        /\ UNCHANGED target
     \/ /\ Running(r, {"resolve"}) /\ mem[c] # None /\ ~Active(mem[c])
        /\ mem' = [mem EXCEPT ![c] = None]
        /\ target' = [target EXCEPT ![r] = mem[c].terminal]
     \/ /\ Running(r, {"unbind", "cleanup"}) /\ mem[c] # None
        /\ mem' = [mem EXCEPT ![c] = None]
        /\ UNCHANGED target
  /\ saving' = TRUE /\ undo' = mem[c]
  /\ UNCHANGED <<disk, chain, approval, pc, result, ClosureFrame>>

\* What the caller does when its closure has returned: all but a bind forget the
\* prompt of the terminal they were resolved to.
Return(r) ==
  /\ chain' = Tail(chain)
  /\ approval' = IF pc[r] = "bind" THEN approval ELSE approval \ {target[r]}
  /\ Conclude(r, IF pc[r] \in {"bind", "unbind"} THEN "ok" ELSE "denied")

Saved(r) ==
  /\ Running(r, {"bind", "resolve", "unbind", "cleanup"}) /\ saving
  /\ disk' = mem /\ saving' = FALSE /\ undo' = None
  /\ Return(r)
  /\ UNCHANGED <<mem, target, ClosureFrame>>

\* The chat had no binding any more: nothing is saved.
NothingToDrop(r) ==
  /\ Running(r, {"unbind", "cleanup"}) /\ ~saving /\ mem[ChatOf(r)] = None
  /\ Return(r)
  /\ UNCHANGED <<mem, disk, saving, undo, target, ClosureFrame>>

\* Mutant: the change stays in memory when it could not be saved.
SaveFailsKept(r) ==
  /\ Running(r, {"bind", "resolve", "unbind", "cleanup"}) /\ saving
  /\ saving' = FALSE /\ undo' = None /\ chain' = Tail(chain)
  /\ Conclude(r, "denied")
  /\ UNCHANGED <<mem, disk, approval, target, ClosureFrame>>

SaveFails(r) ==
  /\ Running(r, {"bind", "resolve", "unbind", "cleanup"}) /\ saving
  /\ mem' = [mem EXCEPT ![ChatOf(r)] = undo]
  /\ saving' = FALSE /\ undo' = None /\ chain' = Tail(chain)
  /\ Conclude(r, "denied")
  /\ UNCHANGED <<disk, approval, target, ClosureFrame>>
-----------------------------------------------------------------------------
(***************************************************************************)
(* Terminals, the process and the clock                                    *)
(***************************************************************************)

\* A terminal asks for permission; the prompt stays pending until it is answered
\* from a chat, the turn ends or the terminal exits.
Prompt(t) ==
  /\ up /\ t \in live /\ asked[t] < MaxPrompts
  /\ asked' = [asked EXCEPT ![t] = @ + 1]
  /\ approval' = approval \cup {t}
  /\ UNCHANGED <<now, up, storeVars, live, answers, wrote, auditVars, pc, req,
                 target, expires, result>>

TurnEnds(t) ==
  /\ up /\ t \in approval /\ approval' = approval \ {t}
  /\ UNCHANGED <<now, up, storeVars, live, asked, answers, wrote, auditVars, pc, req,
                 target, expires, result>>

TerminalExits(t) ==
  /\ up /\ t \in live
  /\ live' = live \ {t} /\ approval' = approval \ {t}
  /\ UNCHANGED <<now, up, storeVars, asked, answers, wrote, auditVars, pc, req, target,
                 expires, result>>

\* The application dies, and its terminals with it; a save under way replaced
\* the file or did not.
Crash ==
  /\ up /\ up' = FALSE
  /\ disk' \in IF saving THEN {disk, mem} ELSE {disk}
  /\ mem' = [c \in Chats |-> None] /\ chain' = <<>> /\ saving' = FALSE /\ undo' = None
  /\ live' = {} /\ approval' = {}
  /\ pc' = [r \in Requests |-> IF InFlight(r) THEN "gone" ELSE pc[r]]
  /\ Forget({r \in Requests : InFlight(r)})
  /\ result' = [r \in Requests |-> IF InFlight(r) THEN "none" ELSE result[r]]
  /\ UNCHANGED <<now, asked, answers, wrote, auditVars>>

Restart ==
  /\ ~up /\ up' = TRUE /\ mem' = disk
  /\ UNCHANGED <<now, disk, chain, saving, undo, terminalVars, auditVars, pc, req,
                 target, expires, result>>

Tick ==
  /\ now < MaxTime /\ now' = now + 1
  /\ UNCHANGED <<up, storeVars, terminalVars, auditVars, pc, req, target, expires,
                 result>>

RequestStep(r) ==
  Intent(r) \/ Check(r) \/ Token(r) \/ Act(r) \/ Outcome(r)
  \/ Resolve(r) \/ Change(r) \/ Saved(r) \/ NothingToDrop(r) \/ SaveFails(r)

Step ==
  \/ \E r \in Requests : Arrive(r) \/ RequestStep(r)
  \/ \E t \in Terminals : Prompt(t) \/ TurnEnds(t) \/ TerminalExits(t)
  \/ Crash \/ Restart \/ Tick

\* History of bindings: what the chat of each request in flight was bound to.
Observe ==
  seen' = [r \in Requests |->
             IF InFlight(r) /\ pc'[r] \notin {"done", "gone"}
             THEN seen[r] \cup BoundTo(ChatOf(r)) ELSE {}]

Next == Step /\ Observe
Spec == Init /\ [][Next]_vars
-----------------------------------------------------------------------------
(***************************************************************************)
(* Properties                                                              *)
(***************************************************************************)

\* Every variable has its type.
TypeOK ==
  /\ now \in 0..MaxTime /\ up \in BOOLEAN /\ saving \in BOOLEAN
  /\ mem \in [Chats -> Binding] /\ disk \in [Chats -> Binding] /\ undo \in Binding
  /\ chain \in Seq(Requests)
  /\ live \subseteq Terminals /\ approval \subseteq live
  /\ pc \in [Requests -> {"idle", "intent", "resolve", "check", "token", "bind",
                          "unbind", "cleanup", "act", "closing", "done", "gone"}]
  /\ req \in [Requests -> [chat: Chats, command: Commands] \cup {NoRequest}]
  /\ target \in [Requests -> Terminals \cup {None}]
  /\ expires \in [Requests -> 0..(MaxTime + Ttl)]
  /\ result \in [Requests -> {"none", "ok", "denied"}]
  /\ intents \subseteq Requests
  /\ outcomes \in [Requests -> {"none", "ok", "denied"}]
  /\ asked \in [Terminals -> 0..MaxPrompts] /\ answers \in [Terminals -> Nat]
  /\ wrote \subseteq Requests
  /\ seen \in [Requests -> SUBSET Terminals]

\* What a request writes goes to a terminal its chat was actively bound to at
\* some moment while the request was in flight, whatever is bound, unbound or
\* expires under it: the terminal resolved before an await is used after it.
RoutedToBound == [][\A r \in wrote' \ wrote : target[r] \in seen[r]]_vars

\* A prompt is answered at most once, whichever chats are bound to its terminal
\* and however their answers race with its end.
AnsweredOnce == \A t \in Terminals : answers[t] <= asked[t]

\* Nothing is written without a record of the intent, and nobody is told that a
\* command succeeded without a record of the success.
Audited ==
  /\ wrote \subseteq intents
  /\ \A r \in Requests : pc[r] = "done" /\ result[r] = "ok" => outcomes[r] = "ok"

\* Between two closures the bindings in memory are those of the file, though
\* saves fail and the process dies: a restart never brings a binding back, nor
\* loses one that was acknowledged.
MemoryIsFile == up /\ ~saving => mem = disk

\* What was done is on record, in the audit and in the file of bindings.
Recorded == TypeOK /\ Audited /\ MemoryIsFile
=============================================================================
