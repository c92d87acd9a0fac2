----------------------------- MODULE JanusChat -----------------------------
(***************************************************************************)
(* One conversation of the Janus chat between its two halves: the window    *)
(* (src/src/renderer/src/components/janus/useJanusChat.ts over              *)
(* services/llm.ts), which keeps the messages, starts requests and stops    *)
(* waiting when nothing is heard for five minutes, and the main process     *)
(* (src/src/main/llm/chat-orchestrator.ts), which lets one turn of a        *)
(* conversation run at a time.                                              *)
(*                                                                          *)
(* A message written while an answer streams is put into the conversation   *)
(* at once and offered to the running turn ("steering"), which takes it     *)
(* between two steps, or never.  Calls reach the main process in the order  *)
(* they are made; its events and its replies to calls come back on two      *)
(* channels.  Messages are numbered in the order they are written; replies  *)
(* of the model are not kept, as no step depends on them.                   *)
(***************************************************************************)
EXTENDS Integers, Sequences, FiniteSets

CONSTANTS
  MaxMessages,  \* bound: messages written
  MaxRequests,  \* bound: requests started
  MaxCalls,     \* bound: calls and replies on their way when the person makes another call
  MaxSteers     \* MAX_STEER_ENTRIES_PER_REQUEST (10 in the code)

ASSUME ChatAssumption ==
  MaxMessages \in Nat /\ MaxRequests \in Nat /\ MaxCalls \in Nat /\ MaxSteers \in Nat \ {0}

VARIABLES
  thread,     \* the user's messages of the conversation, in their order
  badges,     \* pendingSteerIds: messages shown as waiting for the turn
  resends,    \* the macrotasks that send a refused message again
  request,    \* the request the window is busy with, or the last one
  calls,      \* calls and sends on their way to the main process
  events,     \* events on their way to the window
  replies,    \* replies of steer and cancel calls on their way to the window
  turn,       \* activeSteerTargets and abortControllers: the turn that runs
  written,    \* how many messages were written
  removed,    \* history: messages that the person took away
  prompts,    \* history: what each request was started with
  taken       \* history: what the turn of each request took while it ran

chatHistory == <<written, removed, prompts, taken>>
windowVars == <<thread, badges, resends, request>>
chatVars == <<windowVars, calls, events, replies, turn, chatHistory>>
-----------------------------------------------------------------------------
Messages == 1..MaxMessages
ChatRequests == 1..MaxRequests
Elements(s) == {s[i] : i \in 1..Len(s)}
PlaceOf(s, m) == CHOOSE i \in 1..Len(s) : s[i] = m
\* s without m, which is in it once at most.
Without(s, m) ==
  IF m \notin Elements(s) THEN s
  ELSE SubSeq(s, 1, PlaceOf(s, m) - 1) \o SubSeq(s, PlaceOf(s, m) + 1, Len(s))

NoTurn == [id |-> 0, kind |-> "chat", phase |-> "none", aborted |-> FALSE,
           port |-> <<>>]
Call(kind, r, m) == [kind |-> kind, id |-> r, message |-> m]
Event(kind, r, keys) == [kind |-> kind, id |-> r, keys |-> keys]
Reply(kind, m) == [kind |-> kind, message |-> m]

ChatTypeOK ==
  /\ thread \in Seq(Messages) /\ resends \in Seq(Messages)
  /\ badges \subseteq Messages /\ removed \subseteq Messages
  /\ request \in [id: 0..MaxRequests, kind: {"chat", "compact"}, user: Messages \cup {0},
                  stage: {"idle", "sessions", "provider", "listening"},
                  recovery: BOOLEAN, heard: BOOLEAN]
  /\ written \in 0..MaxMessages
  /\ \A c \in Elements(calls) : c \in
       [kind: {"start", "compact", "abort", "steer", "cancel"},
        id: 0..MaxRequests, message: 0..MaxMessages]
  /\ \A e \in Elements(events) : e \in
       [kind: {"consumed", "state", "end", "error", "busy", "done"},
        id: ChatRequests, keys: SUBSET Messages]
  /\ \A a \in Elements(replies) : a \in
       [kind: {"accepted", "full", "refused", "cancelled", "kept"}, message: Messages]
  /\ turn \in [id: 0..MaxRequests, kind: {"chat", "compact"},
               phase: {"none", "running", "reported", "closing"},
               aborted: BOOLEAN, port: Seq(Messages)]
  /\ prompts \in [ChatRequests -> SUBSET Messages] /\ taken \in [ChatRequests -> SUBSET Messages]

ChatInit ==
  /\ thread = <<>> /\ badges = {} /\ resends = <<>>
  /\ request = [id |-> 0, kind |-> "chat", user |-> 0, stage |-> "idle",
                recovery |-> FALSE, heard |-> FALSE]
  /\ calls = <<>> /\ events = <<>> /\ replies = <<>> /\ turn = NoTurn
  /\ written = 0 /\ removed = {}
  /\ prompts = [r \in ChatRequests |-> {}] /\ taken = [r \in ChatRequests |-> {}]
-----------------------------------------------------------------------------
(* The window: requests. *)

Idle == request.stage = "idle"
Subscribed(r) == request.id = r /\ request.stage \in {"provider", "listening"}

\* startRequest: the new request is told the messages before m, and m.
StartRequest(before, m, kind, recovery) ==
  /\ request.id < MaxRequests
  /\ request' = [id |-> request.id + 1, kind |-> kind, user |-> m, stage |-> "sessions",
                 recovery |-> recovery, heard |-> FALSE]
  /\ prompts' = [prompts EXCEPT ![request.id + 1] = Elements(before) \cup ({m} \ {0})]

\* The request is over: what it streamed is kept, and no message waits for it.
Finished ==
  /\ request' = [request EXCEPT !.stage = "idle"]
  /\ badges' = {}

Write ==
  /\ Idle /\ written < MaxMessages
  /\ written' = written + 1
  /\ thread' = Append(thread, written')
  /\ StartRequest(thread, written', "chat", FALSE)
  /\ UNCHANGED <<badges, resends, calls, events, replies, turn, removed, taken>>

\* A message written while an answer streams is in the conversation at once.
WriteMeanwhile ==
  /\ ~Idle /\ written < MaxMessages
  /\ written' = written + 1
  /\ thread' = Append(thread, written')
  /\ badges' = badges \cup {written'}
  /\ calls' = Append(calls, Call("steer", 0, written'))
  /\ UNCHANGED <<resends, request, events, replies, turn, removed, prompts, taken>>

\* /compact
Compact ==
  /\ Idle /\ thread # <<>>
  /\ StartRequest(thread, 0, "compact", FALSE)
  /\ UNCHANGED <<thread, badges, resends, calls, events, replies, turn, written, removed, taken>>

\* rewrite of the i-th message, or retry, which does so to the last: what was
\* said after it goes.
Again(i) ==
  /\ Idle
  /\ thread' = SubSeq(thread, 1, i)
  /\ removed' = removed \cup Elements(SubSeq(thread, i + 1, Len(thread)))
  /\ StartRequest(SubSeq(thread, 1, i - 1), thread[i], "chat", FALSE)
  /\ UNCHANGED <<badges, resends, calls, events, replies, turn, written, taken>>

SessionsReady ==
  /\ request.stage = "sessions"
  /\ request' = [request EXCEPT !.stage = "provider"]
  /\ UNCHANGED <<thread, badges, resends, calls, events, replies, turn, chatHistory>>

ProviderReady ==
  /\ request.stage = "provider"
  /\ request' = [request EXCEPT !.stage = "listening"]
  /\ calls' = Append(calls, Call(IF request.kind = "chat" THEN "start" ELSE "compact",
                                 request.id, 0))
  /\ UNCHANGED <<thread, badges, resends, events, replies, turn, chatHistory>>

\* No session, no provider, or nothing heard for STREAM_IDLE_TIMEOUT_MS: the
\* window gives up.  The turn of the main process is not told.
GiveUpWaiting ==
  /\ ~Idle /\ Finished
  /\ UNCHANGED <<thread, resends, calls, events, replies, turn, chatHistory>>

AbortRequest ==
  calls' = IF request.stage \in {"provider", "listening"}
           THEN Append(calls, Call("abort", request.id, 0)) ELSE calls

StopAnswer ==
  /\ ~Idle /\ Finished /\ AbortRequest
  /\ UNCHANGED <<thread, resends, events, replies, turn, chatHistory>>

ClearThread ==
  /\ thread # <<>>
  /\ Finished /\ AbortRequest
  /\ thread' = <<>>
  /\ removed' = removed \cup Elements(thread)
  /\ UNCHANGED <<resends, events, replies, turn, written, prompts, taken>>

\* The person takes a waiting message back; one such call of it at a time.
TakeBack(m) ==
  /\ m \in badges
  /\ \A c \in Elements(calls) : c # Call("cancel", 0, m)
  /\ \A a \in Elements(replies) : a.message = m => a.kind \notin {"cancelled", "kept"}
  /\ calls' = Append(calls, Call("cancel", 0, m))
  /\ UNCHANGED <<windowVars, events, replies, turn, chatHistory>>
-----------------------------------------------------------------------------
(* The window: what it receives. *)

Receive == events' = Tail(events) /\ UNCHANGED <<calls, replies, turn, written, removed, taken>>
NextEvent(kinds) == events # <<>> /\ Head(events).kind \in kinds

\* Events of a request nobody waits for any more; and, once an event of the
\* agent was heard, those of the older channels, `done' and `error'.
Ignored(e) == ~Subscribed(e.id) \/ (e.kind \in {"done", "busy"} /\ request.heard)

IgnoreEvent ==
  /\ events # <<>> /\ Ignored(Head(events)) /\ Receive
  /\ UNCHANGED <<windowVars, prompts>>

HearAgent ==
  /\ NextEvent({"consumed", "state"}) /\ Receive
  /\ LET e == Head(events) IN
     /\ ~Ignored(e)
     /\ request' = [request EXCEPT !.heard = TRUE]
     /\ badges' = badges \ e.keys
  /\ UNCHANGED <<thread, resends, prompts>>

HearEnd ==
  /\ NextEvent({"end", "error", "busy", "done"}) /\ ~Ignored(Head(events))
  /\ Receive /\ Finished
  /\ UNCHANGED <<thread, resends, prompts>>

\* An error of the kind a repetition cures, of a turn that changed nothing, is
\* repeated once with what it was told, unless more was written meanwhile.
HearErrorAndRepeat ==
  /\ NextEvent({"error"}) /\ ~Ignored(Head(events)) /\ Receive
  /\ request.kind = "chat" /\ ~request.recovery
  /\ thread # <<>> /\ thread[Len(thread)] = request.user
  /\ request.id < MaxRequests
  /\ request' = [request EXCEPT !.id = @ + 1, !.stage = "sessions", !.recovery = TRUE,
                                !.heard = FALSE]
  /\ prompts' = [prompts EXCEPT ![request.id + 1] = prompts[request.id]]
  /\ badges' = {}
  /\ UNCHANGED <<thread, resends>>

NextAnswer(kinds) ==
  /\ replies # <<>> /\ Head(replies).kind \in kinds
  /\ replies' = Tail(replies)
  /\ badges' = badges \ (IF Head(replies).kind = "accepted" THEN {} ELSE {Head(replies).message})

\* The turn has it, its queue is full, or it is too late to take it back: the
\* message stays where it is.
HearKept ==
  /\ NextAnswer({"accepted", "full", "kept"})
  /\ UNCHANGED <<thread, resends, request, calls, events, turn, chatHistory>>

HearCancelled ==
  /\ NextAnswer({"cancelled"})
  /\ thread' = Without(thread, Head(replies).message)
  /\ removed' = removed \cup {Head(replies).message}
  /\ UNCHANGED <<resends, request, calls, events, turn, written, prompts, taken>>

\* A mutant of HearRefused: the message is not taken out before it is sent again.
HearRefusedKept ==
  /\ NextAnswer({"refused"})
  /\ resends' = Append(resends, Head(replies).message)
  /\ UNCHANGED <<thread, request, calls, events, turn, chatHistory>>

\* No turn was running: the message is taken out and sent again a macrotask later.
HearRefused ==
  /\ NextAnswer({"refused"})
  /\ thread' = Without(thread, Head(replies).message)
  /\ resends' = Append(resends, Head(replies).message)
  /\ UNCHANGED <<request, calls, events, turn, chatHistory>>

Resend ==
  /\ resends # <<>>
  /\ thread' = Append(thread, Head(resends))
  /\ resends' = Tail(resends)
  /\ IF Idle THEN StartRequest(thread, Head(resends), "chat", FALSE)
             ELSE UNCHANGED <<request, prompts>>
  /\ UNCHANGED <<badges, calls, events, replies, turn, written, removed, taken>>
-----------------------------------------------------------------------------
(* The main process. *)

Called(kinds) ==
  /\ calls # <<>> /\ Head(calls).kind \in kinds
  /\ calls' = Tail(calls)
  /\ UNCHANGED <<windowVars, chatHistory>>
TurnRuns == turn.id # 0
Answered(kind) == replies' = Append(replies, Reply(kind, Head(calls).message))

HandleStart ==
  /\ Called({"start", "compact"})
  /\ IF TurnRuns
     THEN events' = Append(events, Event("busy", Head(calls).id, {})) /\ UNCHANGED turn
     ELSE /\ turn' = [NoTurn EXCEPT !.id = Head(calls).id, !.phase = "running",
                        !.kind = IF Head(calls).kind = "start" THEN "chat" ELSE "compact"]
          /\ UNCHANGED events
  /\ UNCHANGED replies

\* abortChatStream
HandleAbort ==
  /\ Called({"abort"})
  /\ turn' = IF turn.id = Head(calls).id THEN [turn EXCEPT !.aborted = TRUE] ELSE turn
  /\ UNCHANGED <<events, replies>>

HandleSteer ==
  /\ Called({"steer"})
  /\ CASE ~TurnRuns -> Answered("refused") /\ UNCHANGED turn
       [] TurnRuns /\ Len(turn.port) >= MaxSteers -> Answered("full") /\ UNCHANGED turn
       [] OTHER -> /\ Answered("accepted")
                   /\ turn' = [turn EXCEPT !.port = Append(@, Head(calls).message)]
  /\ UNCHANGED events

HandleCancel ==
  /\ Called({"cancel"})
  /\ LET m == Head(calls).message IN
     IF m \in Elements(turn.port)
     THEN Answered("cancelled") /\ turn' = [turn EXCEPT !.port = Without(@, m)]
     ELSE Answered("kept") /\ UNCHANGED turn
  /\ UNCHANGED events

Emit(kind, keys) == events' = Append(events, Event(kind, turn.id, keys))
TurnStep == UNCHANGED <<windowVars, calls, replies, written, removed, prompts>>
TurnAt(kind, phases) ==
  /\ TurnRuns /\ turn.kind = kind /\ turn.phase \in phases /\ ~turn.aborted

\* Between two steps the turn takes all that waits.
TakeSteered ==
  /\ TurnAt("chat", {"running"}) /\ turn.port # <<>>
  /\ taken' = [taken EXCEPT ![turn.id] = @ \cup Elements(turn.port)]
  /\ turn' = [turn EXCEPT !.port = <<>>]
  /\ Emit("consumed", Elements(turn.port))
  /\ TurnStep

\* The answer is whole; the episode is recorded before the conversation is free.
AnswerEnds ==
  /\ TurnAt("chat", {"running"})
  /\ turn' = [turn EXCEPT !.phase = "closing"]
  /\ Emit("end", {})
  /\ TurnStep /\ UNCHANGED taken

TurnFails ==
  /\ TurnAt(turn.kind, {"running", "reported"})
  /\ turn' = NoTurn
  /\ Emit("error", {})
  /\ TurnStep /\ UNCHANGED taken

\* The state of the context is reported while it is made smaller, unless there
\* is nothing to do; then only `done' is sent.
CompactReports ==
  /\ TurnAt("compact", {"running"})
  /\ turn' = [turn EXCEPT !.phase = "reported"]
  /\ Emit("state", {})
  /\ TurnStep /\ UNCHANGED taken

CompactEnds ==
  /\ TurnAt("compact", {"running", "reported"})
  /\ turn' = NoTurn
  /\ Emit("done", {})
  /\ TurnStep /\ UNCHANGED taken

\* The end of an aborted turn is reported to a window that no longer listens.
TurnReleased ==
  /\ TurnRuns /\ (turn.aborted \/ turn.phase = "closing")
  /\ turn' = NoTurn
  /\ TurnStep /\ UNCHANGED <<events, taken>>
-----------------------------------------------------------------------------
Person ==
  /\ Len(calls) + Len(replies) < MaxCalls
  /\ \/ Write \/ WriteMeanwhile \/ Compact \/ StopAnswer \/ ClearThread
     \/ \E i \in 1..Len(thread) : Again(i)
     \/ \E m \in badges : TakeBack(m)
Window ==
  \/ SessionsReady \/ ProviderReady
  \/ IgnoreEvent \/ HearAgent \/ HearEnd \/ HearErrorAndRepeat
  \/ HearKept \/ HearCancelled \/ HearRefused \/ Resend
Orchestrator == HandleStart \/ HandleAbort \/ HandleSteer \/ HandleCancel
Turn ==
  TakeSteered \/ AnswerEnds \/ TurnFails \/ CompactReports \/ CompactEnds
ChatNext == Person \/ Window \/ GiveUpWaiting \/ Orchestrator \/ Turn \/ TurnReleased

ChatSpec == ChatInit /\ [][ChatNext]_chatVars
-----------------------------------------------------------------------------
(* Properties. *)

Times(m) == Cardinality({i \in 1..Len(thread) : thread[i] = m})
              + Cardinality({i \in 1..Len(resends) : resends[i] = m})

\* What the person wrote is in the conversation, or about to be sent again, and
\* never twice, however the refusals, the end of the answer and the person's own
\* calls overtake each other (useJanusChat.ts:899-957).
ChatKept ==
  \A m \in 1..written : Times(m) <= 1 /\ (m \notin removed => Times(m) = 1)

\* No turn is told a message twice, as part of its conversation and as steering,
\* whoever takes the messages over that a turn left (chat-orchestrator.ts:225-230).
ToldOnce == \A r \in ChatRequests : prompts[r] \cap taken[r] = {}

\* A message taken back was not told (chat-orchestrator.ts:256-263).
TakenBackUntold ==
  \A a \in Elements(replies) : a.kind = "cancelled" =>
    \A r \in ChatRequests : a.message \notin taken[r]

\* No message is shown as waiting for an answer that does not stream any more.
NoStaleBadge == Idle => badges = {}

\* Something is still to come for whoever waits: its start, its turn, or its end.
Awaiting(r) ==
  \/ \E c \in Elements(calls) : c.id = r /\ c.kind \in {"start", "compact"}
  \/ turn.id = r
  \/ \E e \in Elements(events) : e.id = r /\ e.kind \in {"end", "error", "busy", "done"}

\* The window that waits for an answer is never forgotten: whatever was aborted,
\* refused or repeated, its request has still to start, runs, or has an end under
\* way that it will hear (llm.ts:160-175).
AnswersHeard ==
  request.stage = "listening" /\ request.kind = "chat" => Awaiting(request.id)

\* The conversation between the window and the main process: what is written is
\* kept once, told once, and answered or taken back, never both.
ChatSafe ==
  ChatTypeOK /\ ChatKept /\ ToldOnce /\ TakenBackUntold /\ NoStaleBadge /\ AnswersHeard
=============================================================================
