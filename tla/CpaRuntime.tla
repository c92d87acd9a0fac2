------------------------------- MODULE CpaRuntime -------------------------------
(***************************************************************************)
(* The local relay to model providers (cpa/runtime.ts, with the files of      *)
(* cpa/installer.ts): one child process, started and stopped in a queue,       *)
(* updated beside the queue, and disposed of past it.  A version that was     *)
(* downloaded waits in `pending' until a start tries it; if it does not       *)
(* answer, the start goes back to the version in `current'.                  *)
(*                                                                         *)
(* Left out: keys, configuration, the proxy in front of the child (its        *)
(* closing is the wait between a child taken and told to end), downloads      *)
(* themselves, and what the status shows beyond whether it runs.             *)
(***************************************************************************)
EXTENDS Naturals, Sequences, FiniteSets

CONSTANTS
  MaxVersion,         \* bound on releases
  MaxCalls, MaxUpdates, MaxSpawns   \* bounds on starts and stops, on updates, and on children

ASSUME CpaAssumption ==
  MaxVersion \in Nat \ {0} /\ MaxCalls \in Nat /\ MaxUpdates \in Nat /\ MaxSpawns \in Nat

VARIABLES
  latest,                           \* the version that is released
  current, pending, previous, dirs, \* the files that name a version, and the versions on disk
  child, alive, told,               \* this.child, processes that live, and those told to end
  spawned, answered,                \* children so far; history: versions that answered
  ctl, aborted,                     \* this.abort, and the controllers that are aborted
  running,                          \* the status says that it runs
  queue, op,                        \* what waits, and what is under way
  lastCall, calls,                  \* history: the last of starts and stops, and how many
  installs, updates,                \* installs by a start and by the shared update flight
  disposal, disposed                \* the terminate of dispose

slotVars == <<current, pending, previous, dirs>>
childVars == <<child, alive, told, spawned, answered>>
ctlVars == <<ctl, aborted>>
callVars == <<queue, lastCall, calls>>
flightVars == <<installs, updates>>
goneVars == <<disposal, disposed>>
cpaVars == <<latest, slotVars, childVars, ctlVars, running, callVars, op, flightVars, goneVars>>

NoOp == [at |-> "idle", target |-> 0, back |-> 0, victim |-> 0, next |-> "idle", keep |-> {}]
NoInstall == [at |-> "idle", ctl |-> 0, v |-> 0]
\* A version was installed before, or none.
CpaInit ==
  /\ latest = 1 /\ current \in {0, 1} /\ pending = 0 /\ previous = 0 /\ dirs = {current} \ {0}
  /\ child = 0 /\ alive = {} /\ told = {} /\ spawned = 0 /\ answered = {current} \ {0}
  /\ ctl = 0 /\ aborted = {} /\ running = FALSE /\ queue = <<>> /\ op = NoOp /\ lastCall = "none" /\ calls = 0
  /\ installs = [w \in {"start", "update"} |-> NoInstall] /\ updates = 0 /\ disposal = NoOp /\ disposed = FALSE
-----------------------------------------------------------------------------
CtlAborted == ctl \in aborted
NewController == ctl' = ctl + 1 /\ UNCHANGED aborted
CpaRelease == latest < MaxVersion /\ latest' = latest + 1 /\ UNCHANGED <<slotVars, childVars, ctlVars, running, callVars, op, flightVars, goneVars>>

Calls(c) == calls < MaxCalls /\ calls' = calls + 1 /\ queue' = Append(queue, c) /\ lastCall' = c
CpaStart == Calls("start") /\ UNCHANGED <<latest, slotVars, childVars, ctlVars, running, op, flightVars, goneVars>>
CpaStop ==
  /\ Calls("stop") /\ aborted' = aborted \cup {ctl}
  /\ UNCHANGED <<latest, slotVars, childVars, ctl, running, op, flightVars, goneVars>>

OpMoves(stage) == op' = [op EXCEPT !.at = stage]
OpEnds == op' = NoOp
\* terminate, up to the wait for the proxy.
OpTerminates(next) == child' = 0 /\ op' = [op EXCEPT !.at = "ending", !.victim = child, !.next = next]
\* Then the child is told to end, and awaited for a while.
OpKills ==
  /\ op.at = "ending" /\ told' = told \cup ({op.victim} \cap alive) /\ OpMoves("dying")
  /\ UNCHANGED <<latest, slotVars, child, alive, spawned, answered, ctlVars, running, callVars, flightVars, goneVars>>
OpKilled ==
  /\ op.at = "dying" /\ UNCHANGED <<latest, slotVars, childVars, ctlVars, callVars, flightVars, goneVars>>
  /\ IF op.next = "idle" THEN OpEnds /\ running' = FALSE ELSE OpMoves(op.next) /\ UNCHANGED running

StopTaken == OpTerminates("idle")
\* The queue goes on: a stop terminates, a start looks whether it is disposed of.
CpaTakes ==
  /\ op.at = "idle" /\ queue # <<>> /\ queue' = Tail(queue)
  /\ UNCHANGED <<latest, slotVars, alive, told, spawned, answered, ctlVars, running, lastCall, calls, flightVars, goneVars>>
  /\ IF Head(queue) = "stop" THEN StopTaken
     ELSE UNCHANGED child /\ IF disposed THEN UNCHANGED op ELSE OpMoves("status")
StartBegins ==
  /\ op.at = "status" /\ UNCHANGED <<latest, slotVars, childVars, running, callVars, flightVars, goneVars>>
  /\ IF child # 0 /\ running THEN OpEnds /\ UNCHANGED ctlVars ELSE OpMoves("preparing") /\ NewController
\* The port, the key or the configuration may fail, and an update under way is awaited.
Named(slot) == IF slot \in dirs THEN slot ELSE 0
Target == IF Named(pending) # 0 THEN pending ELSE Named(current)
StartPrepared ==
  /\ op.at = "preparing" /\ UNCHANGED <<latest, slotVars, alive, told, spawned, answered, ctlVars, running, callVars, updates, goneVars>>
  /\ \/ OpTerminates("idle") /\ UNCHANGED installs
     \/ /\ installs["update"].at = "idle" /\ UNCHANGED child
        /\ IF Target # 0
             THEN op' = [op EXCEPT !.at = "launch", !.target = Target, !.back = Named(current)] /\ UNCHANGED installs
             ELSE OpMoves("installing") /\ installs' = [installs EXCEPT !["start"] = [@ EXCEPT !.at = "asking", !.ctl = ctl]]
StartInstalled ==
  /\ op.at = "installing" /\ installs["start"].at \in {"done", "failed"} /\ installs' = [installs EXCEPT !["start"] = NoInstall]
  /\ UNCHANGED <<latest, slotVars, alive, told, spawned, answered, ctlVars, running, callVars, updates, goneVars>>
  /\ IF installs["start"].at = "failed" THEN OpTerminates("idle")
     ELSE op' = [op EXCEPT !.at = "launch", !.target = installs["start"].v] /\ UNCHANGED child
-----------------------------------------------------------------------------
\* A launch that fails: back to the version before, once.
LaunchFails == OpTerminates(IF op.back \notin {0, op.target} THEN "back" ELSE "idle")
LaunchBegins ==
  /\ op.at \in {"launch", "back"} /\ UNCHANGED <<latest, slotVars, alive, told, spawned, answered, ctlVars, running, callVars, flightVars, goneVars>>
  /\ IF op.at = "back" THEN op' = [op EXCEPT !.at = "launch", !.target = op.back] /\ UNCHANGED child
     ELSE IF CtlAborted \/ disposed THEN LaunchFails ELSE OpMoves("spawning") /\ UNCHANGED child
\* Mutant: it is not looked at again.
SpawnsAnyway == TRUE
MaySpawn == ~CtlAborted
LaunchSpawns ==
  /\ op.at = "spawning" /\ UNCHANGED <<latest, slotVars, told, answered, ctlVars, running, callVars, flightVars, goneVars>>
  /\ \/ LaunchFails /\ UNCHANGED <<alive, spawned>>
     \/ /\ MaySpawn /\ spawned < MaxSpawns /\ spawned' = spawned + 1 /\ child' = spawned' /\ alive' = alive \cup {spawned'}
        /\ OpMoves("polling")
LaunchAnswered ==
  /\ op.at = "polling" /\ UNCHANGED <<latest, slotVars, alive, told, spawned, ctlVars, running, callVars, flightVars, goneVars>>
  /\ \/ LaunchFails /\ UNCHANGED answered
     \/ child = spawned /\ ~CtlAborted /\ answered' = answered \cup {op.target} /\ OpMoves("activating") /\ UNCHANGED child
\* activate: the names, then what they do not name is removed.
Activated ==
  /\ op.at = "activating" /\ OpMoves("forgetting") /\ current' = op.target
  /\ previous' = IF Named(current) \notin {0, op.target} THEN current ELSE previous
  /\ UNCHANGED <<latest, pending, dirs, childVars, ctlVars, running, callVars, flightVars, goneVars>>
PendingForgotten ==
  /\ op.at = "forgetting" /\ OpMoves("reading") /\ pending' = 0
  /\ UNCHANGED <<latest, current, previous, dirs, childVars, ctlVars, running, callVars, flightVars, goneVars>>
Kept == {current, pending, previous} \cap dirs
PruneReads ==
  /\ op.at = "reading" /\ op' = [op EXCEPT !.at = "pruning", !.keep = Kept]
  /\ UNCHANGED <<latest, slotVars, childVars, ctlVars, running, callVars, flightVars, goneVars>>
VersionsPruned ==
  /\ op.at = "pruning" /\ dirs' = dirs \cap op.keep /\ OpEnds /\ running' = TRUE
  /\ UNCHANGED <<latest, current, pending, previous, childVars, ctlVars, callVars, flightVars, goneVars>>

ChildExits(n) ==
  /\ n \in alive /\ alive' = alive \ {n} /\ told' = told \ {n}
  /\ IF child = n THEN child' = 0 /\ running' = FALSE ELSE UNCHANGED <<child, running>>
  /\ UNCHANGED <<latest, slotVars, spawned, answered, ctlVars, callVars, op, flightVars, goneVars>>
-----------------------------------------------------------------------------
\* stageUpdate, by the user or the timer.
StageUpdate ==
  /\ installs["update"].at = "idle" /\ ~disposed /\ updates < MaxUpdates /\ updates' = updates + 1
  /\ IF CtlAborted THEN NewController ELSE UNCHANGED ctlVars
  /\ installs' = [installs EXCEPT !["update"].at = "status"]
  /\ UNCHANGED <<latest, slotVars, childVars, running, callVars, op, goneVars>>
Installs(w, i) == installs' = [installs EXCEPT ![w] = i]
Installed(w, v) == Installs(w, IF w = "update" THEN NoInstall ELSE [NoInstall EXCEPT !.at = "done", !.v = v])
InstallFails(w) == Installs(w, IF w = "update" THEN NoInstall ELSE [NoInstall EXCEPT !.at = "failed"])
\* install: what is released, unless it is installed, is downloaded, placed and named.
InstallStep(w) ==
  LET i == installs[w]
  IN /\ UNCHANGED <<latest, current, previous, childVars, ctlVars, running, callVars, op, updates, goneVars>>
     /\ \/ i.at = "status" /\ Installs(w, [i EXCEPT !.at = "asking", !.ctl = ctl]) /\ UNCHANGED <<pending, dirs>>
        \/ i.at \in {"asking", "placing"} /\ InstallFails(w) /\ UNCHANGED <<pending, dirs>>
        \/ i.at = "asking" /\ i.ctl \notin aborted /\ UNCHANGED <<pending, dirs>>
           /\ IF Named(current) = latest THEN Installed(w, latest) ELSE Installs(w, [i EXCEPT !.at = "placing", !.v = latest])
        \/ i.at = "placing" /\ i.ctl \notin aborted /\ dirs' = dirs \cup {i.v} /\ Installs(w, [i EXCEPT !.at = "naming"]) /\ UNCHANGED pending
        \/ i.at = "naming" /\ pending' = i.v /\ Installed(w, i.v) /\ UNCHANGED dirs

\* dispose: past the queue.
CpaDispose ==
  /\ ~disposed /\ disposed' = TRUE /\ aborted' = aborted \cup {ctl}
  /\ child' = 0 /\ disposal' = [NoOp EXCEPT !.at = "ending", !.victim = child]
  /\ UNCHANGED <<latest, slotVars, alive, told, spawned, answered, ctl, running, callVars, op, flightVars>>
DisposeKills ==
  /\ disposal.at = "ending" /\ told' = told \cup ({disposal.victim} \cap alive) /\ disposal' = NoOp
  /\ UNCHANGED <<latest, slotVars, child, alive, spawned, answered, ctlVars, running, callVars, op, flightVars, disposed>>

OpStep ==
  \/ CpaTakes \/ OpKills \/ OpKilled \/ StartBegins \/ StartPrepared \/ StartInstalled
  \/ LaunchBegins \/ LaunchSpawns \/ LaunchAnswered \/ Activated \/ PendingForgotten \/ PruneReads \/ VersionsPruned
CpaNext ==
  \/ OpStep \/ CpaRelease \/ CpaStart \/ CpaStop \/ StageUpdate
  \/ \E w \in {"start", "update"} : InstallStep(w)
  \/ \E n \in alive : ChildExits(n)
  \/ CpaDispose \/ DisposeKills
CpaSpec == CpaInit /\ [][CpaNext]_cpaVars
-----------------------------------------------------------------------------
CpaTypeOK ==
  /\ latest \in 1..MaxVersion /\ {current, pending, previous} \subseteq 0..MaxVersion /\ dirs \subseteq 1..MaxVersion
  /\ spawned \in 0..MaxSpawns /\ child \in 0..spawned /\ told \subseteq alive /\ alive \subseteq 1..spawned
  /\ ctl \in Nat /\ aborted \subseteq 0..ctl /\ {running, disposed} \subseteq BOOLEAN
  /\ {queue[i] : i \in DOMAIN queue} \subseteq {"start", "stop"} /\ {op.target, op.back} \subseteq 0..MaxVersion
  /\ op.at \in {"idle", "ending", "dying", "status", "preparing", "installing", "launch", "back", "spawning", "polling",
               "activating", "forgetting", "reading", "pruning"}

Ended == {i.victim : i \in {j \in {op, disposal} : j.at = "ending"}}

\* A process that lives and was not told to end is the one in use or about to be told; so
\* two are never left to run beside each other (runtime.ts:97, 119, 262-270, 306-321).
CpaOneChild == alive \ told \subseteq {child} \cup Ended /\ Cardinality(alive \ told) <= 1

\* After dispose nothing is spawned, wherever in a launch it fell, though a start makes its
\* own controller and an update replaces one (runtime.ts:95-98, 148-152, 159, 244, 258).
CpaDisposed == disposed => child = 0

\* Whatever updates are staged, fail or are tried, current.json names a version that has
\* answered and that is on disk (runtime.ts:116-127, installer.ts:147-165).
CpaProven == current = 0 \/ (current \in answered /\ current \in dirs)

\* When the last call was a stop and the queue is empty, nothing runs, though an update
\* replaced the controller that the stop aborted (runtime.ts:140-146, 159).
CpaStopped == lastCall = "stop" /\ queue = <<>> /\ op.at = "idle" => child = 0 /\ ~running

\* One child, of a version that is proven, and none after a stop or a disposal.
CpaSafe == CpaTypeOK /\ CpaOneChild /\ CpaDisposed /\ CpaProven /\ CpaStopped
=============================================================================
