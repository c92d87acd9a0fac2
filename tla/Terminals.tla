------------------------------ MODULE Terminals ------------------------------
(***************************************************************************)
(* One terminal id from creation to creation: createTerminalLifecycle, the  *)
(* callbacks of its ptys, the kill handler and the closing of the window    *)
(* (ipc/terminal-handlers.ts), with the instances of TerminalManager         *)
(* (terminal/manager.ts) and the queue of checkpoints of each terminal.     *)
(*                                                                         *)
(* A pty tells of its end later, when the id may already belong to another  *)
(* one.  An entry of terminalStates is an object, which a checkpoint being  *)
(* made keeps hold of when the entry is replaced.  Left out: output, resize, *)
(* sessions and the runs shown for a terminal, and quitting the application. *)
(***************************************************************************)
EXTENDS Naturals, Sequences

CONSTANTS
  MaxPtys,      \* bound on creations; the n-th spawns pty n
  MaxSubmits,   \* bound on submitted prompts
  MaxCloses     \* bound on closings of the window, which the application survives on macOS

ASSUME TermAssumption == MaxPtys \in Nat /\ MaxSubmits \in Nat /\ MaxCloses \in Nat

VARIABLES
  creation,     \* how far each creation is
  initialising, \* creations that wait for checkpointManager.initialize
  pty,          \* each process; `dying' was told to die, `ended' died, both still to be told
  instance,     \* the manager's instance, 0 for none
  current,      \* the object in terminalStates, Nobody for none
  objects,      \* those objects: prompts that wait, and the checkpoint
  registered,   \* the pty for which hooks are registered, 0 for none
  made,         \* the object each checkpoint was made for; checkpoints are numbered
  finalised,    \* those that were finalised
  closing,      \* the closing of the window: the checkpoint it finalises
  submits, closes,
  overlap       \* history: the window was closed while a creation was under way

termVars ==
  <<creation, initialising, pty, instance, current, objects, registered, made,
    finalised, closing, submits, closes, overlap>>
-----------------------------------------------------------------------------
Ptys == 1..MaxPtys
Objects == Ptys \X {"stub", "full"}
Nobody == <<0, "none">>
Blank == [ready |-> FALSE, making |-> FALSE, checkpoint |-> 0, previous |-> 0, queue |-> 0]
TermLocked == current # Nobody /\ current[2] = "stub"
NotClosing == [on |-> FALSE, checkpoint |-> 0]
CheckpointsSame == UNCHANGED <<made, finalised>>
BoundsSame == UNCHANGED <<submits, closes, overlap>>

\* TerminalManager.kill: the instance is told to die and forgotten.
Killed == IF instance = 0 THEN pty ELSE [pty EXCEPT ![instance] = IF @ = "live" THEN "dying" ELSE @]

\* processCheckpointQueue: the next prompt, when no checkpoint is being made.
Processed(r) ==
  IF r.ready /\ ~r.making /\ r.queue > 0
    THEN [r EXCEPT !.making = TRUE, !.queue = @ - 1, !.previous = r.checkpoint, !.checkpoint = 0]
    ELSE r

TermInit ==
  /\ creation = [n \in Ptys |-> "none"] /\ initialising = {}
  /\ pty = [n \in Ptys |-> "none"] /\ instance = 0
  /\ current = Nobody /\ objects = [o \in Objects |-> Blank] /\ registered = 0
  /\ made = <<>> /\ finalised = {} /\ closing = NotClosing
  /\ submits = 0 /\ closes = 0 /\ overlap = FALSE
-----------------------------------------------------------------------------
\* A creation begins, unless the id is locked by another: the old pty is told to die,
\* and a locked stub takes the place of its state.
TermCreate(n) ==
  /\ creation[n] = "none" /\ \A m \in 1..(n - 1) : creation[m] # "none"
  /\ ~TermLocked
  /\ creation' = [creation EXCEPT ![n] = "preparing"]
  /\ pty' = Killed /\ instance' = 0 /\ current' = <<n, "stub">>
  /\ UNCHANGED <<initialising, objects, registered, closing>> /\ CheckpointsSame /\ BoundsSame

\* It succeeds: the manager spawns the pty, after killing what it still has; hooks are
\* registered, and the full state replaces the stub.
TermSpawn(n) ==
  /\ creation[n] = "preparing" /\ creation' = [creation EXCEPT ![n] = "done"]
  /\ pty' = [Killed EXCEPT ![n] = "live"] /\ instance' = n
  /\ current' = <<n, "full">> /\ registered' = n /\ initialising' = initialising \cup {n}
  /\ UNCHANGED <<objects, closing>> /\ CheckpointsSame /\ BoundsSame

\* It fails: before the manager is asked, or in the manager, which has killed what it had;
\* or after the spawn, and then everything is rolled back.
TermFails(n) ==
  /\ creation[n] = "preparing" /\ creation' = [creation EXCEPT ![n] = "failed"]
  /\ \/ UNCHANGED <<pty, instance, registered>>
     \/ pty' = Killed /\ instance' = 0 /\ UNCHANGED registered
     \/ pty' = [Killed EXCEPT ![n] = "dying"] /\ instance' = 0 /\ registered' = 0
  /\ current' = Nobody
  /\ UNCHANGED <<initialising, objects, closing>> /\ CheckpointsSame /\ BoundsSame

\* The process ends by itself; the kill handler; and the closing of the window, which
\* first finalises the checkpoint, if it can, and then tears everything down.
PtyEnds(p) ==
  /\ pty[p] = "live" /\ pty' = [pty EXCEPT ![p] = "ended"]
  /\ UNCHANGED <<creation, initialising, instance, current, objects, registered, closing>>
  /\ CheckpointsSame /\ BoundsSame
TermKill ==
  /\ instance # 0 /\ pty' = Killed /\ instance' = 0
  /\ UNCHANGED <<creation, initialising, current, objects, registered, closing>>
  /\ CheckpointsSame /\ BoundsSame
TermWindowClosed ==
  /\ ~closing.on /\ closes < MaxCloses /\ closes' = closes + 1
  /\ closing' = [on |-> TRUE, checkpoint |-> IF current = Nobody THEN 0 ELSE objects[current].checkpoint]
  /\ UNCHANGED <<creation, initialising, pty, instance, current, objects, registered, submits, overlap>>
  /\ CheckpointsSame
TermCleared ==
  /\ closing.on /\ closing' = NotClosing
  /\ finalised' \in {finalised, finalised \cup ({closing.checkpoint} \ {0})}
  /\ pty' = Killed /\ instance' = 0 /\ current' = Nobody /\ registered' = 0
  /\ overlap' = (overlap \/ \E n \in Ptys : creation[n] = "preparing")
  /\ UNCHANGED <<creation, initialising, objects, made, submits, closes>>

\* The pty tells of its end.  When another one has the id, or is about to, nothing
\* happens; otherwise the terminal is torn down.
\* Mutant: only a creation under way counts.
StaleExitLocked(p) == TermLocked
StaleExit(p) == instance \notin {0, p} \/ TermLocked
PtyExit(p) ==
  /\ pty[p] \in {"dying", "ended"} /\ pty' = [pty EXCEPT ![p] = "gone"]
  /\ IF StaleExit(p) THEN UNCHANGED <<instance, current, registered, finalised>>
     ELSE /\ instance' = 0 /\ current' = Nobody /\ registered' = 0
          /\ finalised' \in {finalised, finalised \cup ({objects[o].checkpoint : o \in Objects \cap {current}} \ {0})}
  /\ UNCHANGED <<creation, initialising, objects, closing, made>> /\ BoundsSame
-----------------------------------------------------------------------------
\* Checkpoints are ready, or never will be: for the state the id has by then.
TermInitialised(n) ==
  /\ n \in initialising /\ initialising' = initialising \ {n}
  /\ \/ UNCHANGED objects
     \/ current # Nobody /\ objects' = [objects EXCEPT ![current] = Processed([@ EXCEPT !.ready = TRUE])]
  /\ UNCHANGED <<creation, pty, instance, current, registered, closing>> /\ CheckpointsSame /\ BoundsSame
TermSubmit ==
  /\ current # Nobody /\ submits < MaxSubmits /\ submits' = submits + 1
  /\ objects' = [objects EXCEPT ![current] = Processed([@ EXCEPT !.queue = objects[current].queue + 1])]
  /\ UNCHANGED <<creation, initialising, pty, instance, current, registered, closing, closes, overlap>>
  /\ CheckpointsSame

\* finalizeAndCreateCheckpoint ends: the last checkpoint is finalised and a new one made,
\* or it fails on the way.  Then the queue goes on, that of the state the id has by then.
Goes(os) == IF current = Nobody THEN os ELSE [os EXCEPT ![current] = Processed(@)]
TermCheckpointMade(o) ==
  /\ objects[o].making /\ made' = Append(made, o)
  /\ finalised' = finalised \cup ({objects[o].previous} \ {0})
  /\ objects' = Goes([objects EXCEPT ![o] = [@ EXCEPT !.making = FALSE, !.previous = 0, !.checkpoint = Len(made) + 1]])
  /\ UNCHANGED <<creation, initialising, pty, instance, current, registered, closing>> /\ BoundsSame
TermCheckpointFails(o) ==
  /\ objects[o].making
  /\ finalised' \in {finalised, finalised \cup ({objects[o].previous} \ {0})}
  /\ objects' = Goes([objects EXCEPT ![o] = [@ EXCEPT !.making = FALSE, !.previous = 0, !.checkpoint = objects[o].previous]])
  /\ UNCHANGED <<creation, initialising, pty, instance, current, registered, closing, made>> /\ BoundsSame

TermCreationEnds(n) == TermSpawn(n) \/ TermFails(n)
TermNext ==
  \/ \E n \in Ptys : TermCreate(n) \/ TermSpawn(n) \/ TermFails(n) \/ PtyEnds(n) \/ PtyExit(n) \/ TermInitialised(n)
  \/ TermKill \/ TermWindowClosed \/ TermCleared \/ TermSubmit
  \/ \E o \in Objects : TermCheckpointMade(o) \/ TermCheckpointFails(o)

TermSpec == TermInit /\ [][TermNext]_termVars

\* What a creation awaits comes to an end, one way or the other.
TermFairness == \A n \in Ptys : WF_termVars(TermCreationEnds(n))
-----------------------------------------------------------------------------
TermTypeOK ==
  /\ instance \in 0..MaxPtys /\ registered \in 0..MaxPtys /\ current \in Objects \cup {Nobody}
  /\ creation \in [Ptys -> {"none", "preparing", "done", "failed"}]
  /\ pty \in [Ptys -> {"none", "live", "dying", "ended", "gone"}]
  /\ initialising \subseteq Ptys /\ finalised \subseteq 1..Len(made)

\* No process is lost: one that runs and was not told to die is the one that the manager
\* knows for the id, so input reaches it and closing the tab ends it
\* (terminal/manager.ts:164-178, 261-274).
TermOneLive == \A p \in Ptys : pty[p] = "live" => instance = p

\* The late end of a pty that was replaced never tears down its successor: a terminal
\* that runs keeps its state and its registrations (terminal-handlers.ts:1092-1108),
\* unless the window was closed in the middle of a creation.
TermKeeps ==
  \A p \in Ptys : pty[p] = "live" /\ ~overlap => current = <<p, "full">> /\ registered = p

\* No checkpoint of a running terminal is lost: each one was finalised, or is the last of
\* its terminal, or is about to be finalised (terminal-handlers.ts:347-397).
TermCheckpointsKept ==
  \A c \in 1..Len(made) : made[c] = current =>
    \/ c \in finalised \/ c = objects[current].checkpoint
    \/ objects[current].making /\ c = objects[current].previous

\* One process for an id, with its state, its registrations and its checkpoints.
TermSafe == TermTypeOK /\ TermOneLive /\ TermKeeps /\ TermCheckpointsKept

\* A creation that failed leaves the id free for the next one
\* (terminal-handlers.ts:962-966).
TermUnlocks == []<>(~TermLocked)
=============================================================================
