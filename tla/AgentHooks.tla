------------------------------ MODULE AgentHooks ------------------------------
(***************************************************************************)
(* The turns of the agents in the terminals, as the main process sees them: *)
(* AgentHookCoordinator and AgentTurnSentinel (notifications/) with their   *)
(* wiring in ipc/terminal-handlers.ts.                                      *)
(*                                                                         *)
(* A CLI posts a hook when a turn starts and when it ends, but none when a  *)
(* turn is aborted; then only a record in its transcript says so, and the   *)
(* sentinel reads that file as it grows.  Ctrl+C and the death of the pty   *)
(* are two more sources of an end.  Here are terminals of one engine, the   *)
(* one with a sentinel, in one workspace and folder; the hooks of a CLI     *)
(* arrive in order, late or never.  Left out: approvals and their           *)
(* notifications, the session registry, truncated transcripts, and failures *)
(* of the watcher.                                                          *)
(***************************************************************************)
EXTENDS Naturals, Sequences

CONSTANTS
  Tabs,
  MaxPrompts,   \* bound on the turns of each terminal
  MaxTroubles   \* bound on lost hooks, interrupts, ends of a CLI and idle reminders

ASSUME HookAssumption == MaxPrompts \in [Tabs -> Nat] /\ MaxTroubles \in Nat

VARIABLES
  cli,         \* the CLI of each terminal: its last turn, and whether it works on it
  wire,        \* hooks it has posted and the bridge has not handled
  transcript,  \* its transcript: the number of an aborted turn, or 0 for other records
  known,       \* coordinator.terminals
  active,      \* activeTurns, each with the sentinel that reads for it
  synthetic,   \* syntheticTurnEnds
  tabStatus,   \* hookStatus of each terminal
  troubles,
  told,        \* history: how often the end of each turn was reported
  strayed      \* history: terminals that a hook, or an open turn, of another CLI reached

hookVars ==
  <<cli, wire, transcript, known, active, synthetic, tabStatus, troubles, told,
    strayed>>
cliVars == <<cli, wire, transcript>>
mainVars == <<known, active, synthetic, tabStatus, told, strayed>>
-----------------------------------------------------------------------------
TurnsOf(t) == 1..MaxPrompts[t]
Quiet == [turn |-> 0]
ActiveIn(t) == active[t].turn # 0
Watches(t, u) == ActiveIn(t) /\ active[t].tab = u
HookTrouble == troubles < MaxTroubles /\ troubles' = troubles + 1

\* beginTurn: the sentinel watches the transcript that the start names, and asks for
\* its size; `early' marks one that read before the answer.
Begun(u, n) ==
  [tab |-> u, turn |-> n, probed |-> FALSE, early |-> FALSE, event |-> FALSE,
   off |-> 0, reading |-> "no", from |-> 0, size |-> 0, pending |-> FALSE]

\* scheduleRead: one reader at a time, which reads once more when it was called.
\* Mutant: a call while it reads is dropped.
ScheduleOnce(s) ==
  IF s.reading = "no" THEN [s EXCEPT !.reading = "open", !.early = @ \/ ~s.probed] ELSE s
ScheduleRead(s) ==
  IF s.reading = "no" THEN [s EXCEPT !.reading = "open", !.early = @ \/ ~s.probed]
  ELSE [s EXCEPT !.pending = TRUE]

HookInit ==
  /\ cli = [t \in Tabs |-> [alive |-> TRUE, turn |-> 0, busy |-> FALSE, since |-> 1]]
  /\ wire = [t \in Tabs |-> <<>>] /\ transcript = [t \in Tabs |-> <<>>]
  /\ known = Tabs /\ active = [t \in Tabs |-> Quiet] /\ synthetic = {}
  /\ tabStatus = [t \in Tabs |-> "none"] /\ troubles = 0
  /\ told = [t \in Tabs |-> [n \in UNION {TurnsOf(u) : u \in Tabs} |-> 0]] /\ strayed = {}
-----------------------------------------------------------------------------
\* The CLI.  A record it appends is an event for whoever watches the file.
Post(t, event) == wire' = [wire EXCEPT ![t] = Append(@, [event |-> event, turn |-> cli[t].turn])]
Write(t, record) ==
  /\ transcript' = [transcript EXCEPT ![t] = Append(@, record)]
  /\ active' = [u \in Tabs |-> IF Watches(u, t) THEN [active[u] EXCEPT !.event = TRUE] ELSE active[u]]
  /\ UNCHANGED <<known, synthetic, tabStatus, told, strayed>>
CliPrompt(t) ==
  /\ cli[t].alive /\ ~cli[t].busy /\ cli[t].turn < MaxPrompts[t]
  /\ cli' = [cli EXCEPT ![t].turn = @ + 1, ![t].busy = TRUE]
  /\ wire' = [wire EXCEPT ![t] = Append(@, [event |-> "start", turn |-> cli[t].turn + 1])]
  /\ Write(t, 0) /\ UNCHANGED troubles
CliFinish(t) ==
  /\ cli[t].alive /\ cli[t].busy
  /\ cli' = [cli EXCEPT ![t].busy = FALSE] /\ Post(t, "stop")
  /\ UNCHANGED <<transcript, mainVars, troubles>>
CliAbort(t) ==
  /\ cli[t].alive /\ cli[t].busy
  /\ cli' = [cli EXCEPT ![t].busy = FALSE] /\ Write(t, cli[t].turn)
  /\ UNCHANGED <<wire, troubles>>
CliReminds(t) ==
  /\ cli[t].alive /\ ~cli[t].busy /\ cli[t].turn > 0 /\ HookTrouble
  /\ Post(t, "idle") /\ UNCHANGED <<cli, transcript, mainVars>>
CliLosesHook(t) ==
  /\ wire[t] # <<>> /\ HookTrouble
  /\ wire' = [wire EXCEPT ![t] = Tail(@)] /\ UNCHANGED <<cli, transcript, mainVars>>
-----------------------------------------------------------------------------
\* resolveTerminal: the terminal that the hook names or, when that is gone, the only one left.
Resolved(t, u) == IF t \in known THEN u = t ELSE known = {u}

\* An end is reported on terminal t: of the open turn, or of turn n when none is open.
Tell(t, n) ==
  LET turn == IF ActiveIn(t) THEN active[t].turn ELSE n
  IN told' = [told EXCEPT ![t][turn] = @ + 1]
Status(t, s) == tabStatus' = [tabStatus EXCEPT ![t] = s]
EndActive(t) == active' = [active EXCEPT ![t] = Quiet]

\* startTurn; an open turn is replaced and nothing reported.
StartTurn(t, u, n) ==
  /\ active' = [active EXCEPT ![t] = Begun(u, n)]
  /\ synthetic' = synthetic \ {t} /\ Status(t, "running") /\ UNCHANGED told

\* Stop and StopFailure: ignored when a synthetic end has closed the turn, reported
\* otherwise, even when no turn is open.
\* Mutant: the synthetic end is not remembered.
EndTurnAlways(t, n) ==
  /\ EndActive(t) /\ Tell(t, n) /\ UNCHANGED synthetic
  /\ \E s \in {"wait", "degraded"} : Status(t, s)
AlreadyEnded(t) == ~ActiveIn(t) /\ t \in synthetic
EndTurn(t, n) ==
  IF AlreadyEnded(t) THEN UNCHANGED <<active, synthetic, tabStatus, told>>
  ELSE /\ EndActive(t) /\ Tell(t, n) /\ UNCHANGED synthetic
       /\ \E s \in {"wait", "degraded"} : Status(t, s)

\* SessionEnd and the synthetic ends: they close an open turn only.
CloseTurn(t, s) ==
  /\ Status(t, s)
  /\ IF ActiveIn(t)
       THEN EndActive(t) /\ Tell(t, active[t].turn) /\ synthetic' = synthetic \cup {t}
       ELSE UNCHANGED <<active, told, synthetic>>

\* An idle reminder counts while a turn is open.
Remind(t) ==
  /\ tabStatus' = [tabStatus EXCEPT ![t] = IF ActiveIn(t) THEN "needs-input" ELSE @]
  /\ UNCHANGED <<active, synthetic, told>>

\* handleHookPayload of the oldest hook.
Handle(t, u, h) ==
  \/ h.event = "start" /\ StartTurn(t, u, h.turn)
  \/ h.event = "stop" /\ EndTurn(t, h.turn)
  \/ h.event = "sessionend" /\ CloseTurn(t, "wait")
  \/ h.event = "idle" /\ Remind(t)
HookArrives(u) ==
  /\ wire[u] # <<>> /\ wire' = [wire EXCEPT ![u] = Tail(@)]
  /\ IF \E t \in Tabs : Resolved(u, t)
       THEN \E t \in Tabs :
              /\ Resolved(u, t) /\ Handle(t, u, Head(wire[u]))
              /\ strayed' = IF u # t \/ Head(wire[u]).turn < cli[t].since THEN strayed \cup {t} ELSE strayed
       ELSE UNCHANGED <<active, synthetic, tabStatus, told, strayed>>
  /\ UNCHANGED <<cli, transcript, known, troubles>>

\* Ctrl+C, while a turn is open; whether the CLI stops is its own affair.
CtrlC(t) ==
  /\ ActiveIn(t) /\ cli[t].alive /\ HookTrouble
  /\ CloseTurn(t, "wait")
  /\ UNCHANGED <<cliVars, known, strayed>>

\* The pty exits, perhaps after a SessionEnd: an open turn ends as orphaned, or
\* interrupted, and the terminal is unregistered.
CliExit(t) ==
  /\ cli[t].alive /\ HookTrouble
  /\ cli' = [cli EXCEPT ![t].alive = FALSE, ![t].busy = FALSE]
  /\ wire' = wire \/ Post(t, "sessionend")
  /\ IF ActiveIn(t) THEN Tell(t, active[t].turn) ELSE UNCHANGED told
  /\ EndActive(t) /\ synthetic' = synthetic \ {t}
  /\ Status(t, "none") /\ known' = known \ {t}
  /\ UNCHANGED <<transcript, strayed>>
\* The terminal is created again under its id: after the exit, or in place of a CLI
\* whose exit is then not heard, so a turn stays open.
CliReplace(t) ==
  /\ cli[t].alive /\ HookTrouble
  /\ cli' = [cli EXCEPT ![t].busy = FALSE, ![t].since = cli[t].turn + 1]
  /\ wire' = wire \/ Post(t, "sessionend")
  /\ Status(t, "none")
  /\ strayed' = IF ActiveIn(t) THEN strayed \cup {t} ELSE strayed
  /\ UNCHANGED <<transcript, known, active, synthetic, told>>
CliRestart(t) ==
  /\ ~cli[t].alive /\ known' = known \cup {t}
  /\ cli' = [cli EXCEPT ![t].alive = TRUE, ![t].since = cli[t].turn + 1]
  /\ UNCHANGED <<wire, transcript, active, synthetic, tabStatus, told, strayed, troubles>>
-----------------------------------------------------------------------------
\* The sentinel of terminal t: an event of its watcher, the answer of stat, and the
\* two halves of readNewBytes, the size and then the bytes up to it.  The offset moves
\* by what was read, also when the answer came meanwhile.
SentinelOnly(t, s) ==
  /\ active' = [active EXCEPT ![t] = s]
  /\ UNCHANGED <<cliVars, known, synthetic, tabStatus, told, strayed, troubles>>
Sees(t) == transcript[active[t].tab]
SentinelEvent(t) ==
  /\ ActiveIn(t) /\ active[t].event
  /\ SentinelOnly(t, ScheduleRead([active[t] EXCEPT !.event = FALSE]))
SentinelProbed(t) ==
  /\ ActiveIn(t) /\ ~active[t].probed
  /\ SentinelOnly(t, ScheduleRead([active[t] EXCEPT !.probed = TRUE, !.off = Len(Sees(t))]))
SentinelOpens(t) ==
  /\ ActiveIn(t) /\ active[t].reading = "open"
  /\ LET size == Len(Sees(t))
         from == IF size < active[t].off THEN 0 ELSE active[t].off
     IN SentinelOnly(t, [active[t] EXCEPT !.reading = "bytes", !.size = size, !.from = from, !.off = from])
AbortsIn(t, from, to) == {i \in (from + 1)..to : Sees(t)[i] # 0}
SentinelReads(t) ==
  /\ ActiveIn(t) /\ active[t].reading = "bytes"
  /\ LET s == active[t]
         found == AbortsIn(t, s.from, s.size)
     IN IF found # {}
          THEN /\ \E status \in {"wait", "degraded"} : CloseTurn(t, status)
               /\ UNCHANGED <<cliVars, known, strayed, troubles>>
          ELSE SentinelOnly(t, [s EXCEPT !.off = @ + s.size - s.from,
                 !.reading = IF s.pending THEN "open" ELSE "no", !.pending = FALSE])

SentinelStep(t) == SentinelEvent(t) \/ SentinelProbed(t) \/ SentinelOpens(t) \/ SentinelReads(t)
HookNext == \E t \in Tabs :
  \/ CliPrompt(t) \/ CliFinish(t) \/ CliAbort(t) \/ CliReminds(t) \/ CliLosesHook(t)
  \/ CliExit(t) \/ CliReplace(t) \/ CliRestart(t) \/ HookArrives(t) \/ CtrlC(t)
  \/ SentinelEvent(t) \/ SentinelProbed(t) \/ SentinelOpens(t) \/ SentinelReads(t)

HookSpec == HookInit /\ [][HookNext]_hookVars

\* What the event loop has under way comes to an end.
HookFairness == \A t \in Tabs : WF_hookVars(SentinelStep(t)) /\ WF_hookVars(HookArrives(t))
-----------------------------------------------------------------------------
HookTypeOK ==
  /\ known \subseteq Tabs /\ synthetic \subseteq known
  /\ \A t \in Tabs :
       /\ tabStatus[t] \in {"none", "running", "wait", "degraded", "needs-input"}
       /\ ActiveIn(t) => t \in known /\ active[t].reading \in {"no", "open", "bytes"}

\* The tab of a terminal shows a working agent only while a turn of it is open, and
\* always then, whatever order its sources of an end come in
\* (agent-hook-coordinator.ts:257-310 and terminal-handlers.ts:519-554); unless the CLI
\* was replaced in the middle of a turn.
Working(t) == tabStatus[t] \in {"running", "needs-input"}
HookStatusTrue == \A t \in Tabs :
  /\ Working(t) => ActiveIn(t)
  /\ ActiveIn(t) /\ t \notin strayed => Working(t)

\* The user hears of the end of a turn once at most, though a hook, the transcript,
\* Ctrl+C and the death of the pty may all report it (agent-hook-coordinator.ts:101-110);
\* unless a hook reached a terminal that was not its own (336-379).
HookToldOnce == \A t \in Tabs \ strayed : \A n \in TurnsOf(t) : told[t][n] <= 1

\* What the tabs show and what the user is told of a turn.
HookSafe == HookTypeOK /\ HookStatusTrue /\ HookToldOnce

\* A turn that the CLI aborts while the sentinel watches is closed in the end, however
\* appends and reads fall (agent-turn-sentinel.ts:222-241), unless the sentinel read
\* the file before it knew where to start.
HookAbortsSeen == \A t \in Tabs :
  []<>(~(ActiveIn(t) /\ active[t].probed /\ ~active[t].early
         /\ AbortsIn(t, active[t].off, Len(Sees(t))) # {}))
=============================================================================
