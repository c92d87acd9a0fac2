------------------------------ MODULE TurnChanges ------------------------------
(***************************************************************************)
(* What each turn of an agent changed in its workspace:                     *)
(* TerminalTurnChangeTracker (terminal/turn-change-tracker.ts) for one       *)
(* terminal.  A turn that ends takes a snapshot of the files, after those of *)
(* the turns before it, and publishes what differs from the last snapshot.  *)
(* A snapshot is the number of changes made by then; it is taken while the  *)
(* files may change, and may fail.                                          *)
(***************************************************************************)
EXTENDS Naturals, Sequences

CONSTANTS
  MaxWork,      \* bound on changes of the files
  MaxTurns,     \* bound on turns
  MaxRegisters  \* bound on registrations; each makes a new state for the id

ASSUME TurnAssumption == MaxWork \in Nat /\ MaxTurns \in Nat /\ MaxRegisters \in Nat

VARIABLES
  work,       \* changes made in the workspace
  registers,  \* registrations so far; the last one owns the id, if registered
  tracked,    \* the id is registered
  baseline,   \* state.baseline of each registration, NoSnapshot for undefined
  turnOpen,   \* activeTurn
  turnCount,  \* sequence of each registration
  line,       \* state.queue of each registration: turns that wait for a snapshot
  capturing,  \* registrations whose queue runs a capture, and what it found
  published,  \* history: what the tracker published for each registration
  turns

trackVars ==
  <<work, registers, tracked, baseline, turnOpen, turnCount, line, capturing, published, turns>>
-----------------------------------------------------------------------------
NoSnapshot == 0 - 1
Regs == 1..MaxRegisters
Mine(r) == tracked /\ r = registers
NoCapture == [on |-> FALSE, first |-> FALSE]

TrackInit ==
  /\ work = 0 /\ registers = 0 /\ tracked = FALSE
  /\ baseline = [r \in Regs |-> NoSnapshot] /\ turnOpen = FALSE
  /\ turnCount = [r \in Regs |-> 0] /\ line = [r \in Regs |-> <<>>]
  /\ capturing = [r \in Regs |-> NoCapture]
  /\ published = [r \in Regs |-> <<>>] /\ turns = 0

TrackWork ==
  /\ work < MaxWork /\ work' = work + 1
  /\ UNCHANGED <<registers, tracked, baseline, turnOpen, turnCount, line, capturing, published, turns>>

\* register: a state of its own, whose first snapshot comes before those of its turns.
TrackRegister ==
  /\ registers < MaxRegisters /\ registers' = registers + 1
  /\ tracked' = TRUE /\ turnOpen' = FALSE
  /\ capturing' = [capturing EXCEPT ![registers + 1] = [on |-> TRUE, first |-> TRUE]]
  /\ UNCHANGED <<work, baseline, turnCount, line, published, turns>>
TrackUnregister ==
  /\ tracked /\ tracked' = FALSE /\ turnOpen' = FALSE
  /\ UNCHANGED <<work, registers, baseline, turnCount, line, capturing, published, turns>>

TrackStart ==
  /\ tracked /\ ~turnOpen /\ turns < MaxTurns /\ turns' = turns + 1 /\ turnOpen' = TRUE
  /\ UNCHANGED <<work, registers, tracked, baseline, turnCount, line, capturing, published>>

\* finish: the turn is closed at once, and its snapshot waits for the queue.
TrackFinish ==
  /\ tracked /\ turnOpen /\ turnOpen' = FALSE
  /\ turnCount' = [turnCount EXCEPT ![registers] = @ + 1]
  /\ line' = [line EXCEPT ![registers] = Append(@, turnCount[registers] + 1)]
  /\ UNCHANGED <<work, registers, tracked, baseline, capturing, published, turns>>

\* The queue: a turn of a state that no longer owns the id is dropped, before its
\* capture or after.
TrackBegins(r) ==
  /\ line[r] # <<>> /\ ~capturing[r].on
  /\ IF Mine(r) THEN capturing' = [capturing EXCEPT ![r] = [on |-> TRUE, first |-> FALSE]] /\ UNCHANGED line
     ELSE line' = [line EXCEPT ![r] = Tail(@)] /\ UNCHANGED capturing
  /\ UNCHANGED <<work, registers, tracked, baseline, turnOpen, turnCount, published, turns>>

\* The first capture ends: without a snapshot if it failed.
TrackFirst(r) ==
  /\ capturing[r].first /\ capturing' = [capturing EXCEPT ![r] = NoCapture]
  /\ baseline' \in {baseline, [baseline EXCEPT ![r] = work]}
  /\ UNCHANGED <<work, registers, tracked, turnOpen, turnCount, line, published, turns>>

\* The capture of a turn ends; the turn is published if the state still owns the id.
CaptureOver(r) ==
  /\ capturing[r].on /\ ~capturing[r].first
  /\ capturing' = [capturing EXCEPT ![r] = NoCapture] /\ line' = [line EXCEPT ![r] = Tail(@)]
  /\ UNCHANGED <<work, registers, tracked, turnOpen, turnCount, turns>>
Publish(r, to) ==
  published' = [published EXCEPT ![r] = Append(@, [turn |-> Head(line[r]), from |-> baseline[r], to |-> to])]
TrackCaptured(r) ==
  /\ CaptureOver(r)
  /\ IF Mine(r) THEN Publish(r, work) /\ baseline' = [baseline EXCEPT ![r] = work]
     ELSE UNCHANGED <<published, baseline>>
\* It fails: the turn is published as unavailable, and so will be the next.
\* Mutant: the next turn is compared with the snapshot before the failed one.
TrackFailsKept(r) ==
  /\ CaptureOver(r)
  /\ IF Mine(r) THEN Publish(r, NoSnapshot) /\ UNCHANGED baseline ELSE UNCHANGED <<published, baseline>>
TrackFails(r) ==
  /\ CaptureOver(r)
  /\ IF Mine(r) THEN Publish(r, NoSnapshot) /\ baseline' = [baseline EXCEPT ![r] = NoSnapshot]
     ELSE UNCHANGED <<published, baseline>>

TrackGoes(r) == TrackBegins(r) \/ TrackFirst(r) \/ TrackCaptured(r) \/ TrackFails(r)
TrackNext ==
  \/ TrackWork \/ TrackRegister \/ TrackUnregister \/ TrackStart \/ TrackFinish
  \/ \E r \in Regs : TrackBegins(r) \/ TrackFirst(r) \/ TrackCaptured(r) \/ TrackFails(r)

TrackSpec == TrackInit /\ [][TrackNext]_trackVars

\* Captures end.
TrackFairness == \A r \in Regs : WF_trackVars(TrackGoes(r))
-----------------------------------------------------------------------------
TrackTypeOK ==
  /\ work \in Nat /\ registers \in 0..MaxRegisters /\ turnOpen \in BOOLEAN /\ (turnOpen => tracked)
  /\ baseline \in [Regs -> Nat \cup {NoSnapshot}]
  /\ \A r \in Regs : capturing[r].first => capturing[r].on

\* Turns are published in order, each one with exactly what changed since the one
\* before: no change is shown for two turns, and after a failed snapshot the next turn
\* shows nothing rather than the changes of both (turn-change-tracker.ts:50-67).
TurnDiffsFollow ==
  \A r \in Regs : \A i \in 1..Len(published[r]) :
    /\ published[r][i].turn = i
    /\ i > 1 => published[r][i].from = published[r][i - 1].to

\* What an earlier terminal of the id captured is never published once the id has a new
\* one, or none (turn-change-tracker.ts:51, 53, 64).
TurnDiffsOwned == [][\A r \in Regs : published'[r] # published[r] => Mine(r)]_trackVars

\* A turn is shown what it changed, all of it, nothing else, and in its own terminal.
TurnDiffsTrue == [](TrackTypeOK /\ TurnDiffsFollow) /\ TurnDiffsOwned

\* Every turn that ended is published, or dropped with its terminal; a failure does not
\* stop the queue (turn-change-tracker.ts:63-69).
TurnDiffsEnd == \A r \in Regs : []<>(line[r] = <<>>)
=============================================================================
