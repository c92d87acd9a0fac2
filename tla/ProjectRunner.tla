---------------------------- MODULE ProjectRunner ----------------------------
(***************************************************************************)
(* ProjectRunner (project/runner/runner.ts): dev servers started from a    *)
(* saved configuration and one-off background commands (adhoc), their      *)
(* limit, their timeouts, stop, and the snapshots kept of background       *)
(* commands that have exited.                                              *)
(*                                                                         *)
(* A job is one call of run or runAdhoc and the process it spawns.  The    *)
(* calls are cut at their awaits: run reads the configuration before it    *)
(* looks at the limit, runAdhoc creates the log directory after.           *)
(***************************************************************************)
EXTENDS Integers, SequencesExt, Functions

CONSTANTS
  Dev,         \* jobs started by run
  Adhoc,       \* jobs started by runAdhoc
  Project,     \* Project[d]: path and configuration of a dev job
  Stubborn,    \* jobs whose process survives SIGTERM
  Limit,       \* maxConcurrent
  Kept,        \* MAX_EXITED_ADHOC
  MaxTime,     \* bound on the clock
  NoJob         \* no job

Jobs == Dev \cup Adhoc

\* A dev id is its project, configuration and millisecond; the id of a
\* background command is random, so the command itself stands for it.
Ids == (Range(Project) \X (0..MaxTime)) \cup Adhoc

ASSUME RunnerAssumption ==
  /\ Dev \cap Adhoc = {} /\ Stubborn \subseteq Jobs /\ NoJob \notin Jobs \cup Ids
  /\ DOMAIN Project = Dev
  /\ Limit \in Nat \ {0} /\ Kept \in Nat \ {0} /\ MaxTime \in Nat

VARIABLES
  now,         \* Date.now()
  phase,       \* idle, reading, making, live, gone or refused
  id,          \* the process id a job was given
  entry,       \* runningProjects: job registered under each id
  active,      \* activeCount
  terminated,  \* entries that a stop has marked
  signalled,   \* signals sent to each process
  armed,       \* adhoc jobs with an armed timeout
  killTimer,   \* jobs with an armed SIGKILL timer
  timedOut,    \* adhoc jobs stopped by their timeout
  stopping,    \* jobs whose stop() is waiting for the exit
  logless,     \* adhoc jobs whose log directory could not be made
  exited       \* exitedAdhoc, oldest first

registryVars == <<id, entry, active, logless, exited>>
stopVars == <<terminated, signalled, killTimer, stopping>>
runnerVars == <<now, phase, id, entry, active, terminated, signalled, armed, killTimer,
          timedOut, logless, stopping, exited>>
-----------------------------------------------------------------------------
NewId(j) == IF j \in Dev THEN <<Project[j], now>> ELSE j

Registered(j) == id[j] # NoJob /\ entry[id[j]] # NoJob
Live == {j \in Jobs : phase[j] = "live"}

Retain(snapshots, j) ==
  LET s == Append(snapshots, j) IN IF Len(s) > Kept THEN Tail(s) ELSE s

\* A snapshot is kept of a background command that has a log.
Keep(j) == IF j \in Adhoc \ logless THEN Retain(exited, j) ELSE exited

\* handleExit, from the exit or the error event: the entry under the id of the
\* job is dropped, whoever it belongs to.
HandleExit(j) ==
  IF ~Registered(j) THEN UNCHANGED <<entry, active, armed, exited>>
  ELSE /\ entry' = [entry EXCEPT ![id[j]] = NoJob]
       /\ active' = active - 1
       /\ armed' = armed \ {j}
       /\ exited' = Keep(j)

RunnerInit ==
  /\ now = 0
  /\ phase = [j \in Jobs |-> "idle"]
  /\ id = [j \in Jobs |-> NoJob]
  /\ entry = [i \in Ids |-> NoJob]
  /\ active = 0
  /\ terminated = {} /\ signalled = [j \in Jobs |-> {}]
  /\ armed = {} /\ killTimer = {} /\ timedOut = {}
  /\ stopping = {} /\ logless = {} /\ exited = <<>>
-----------------------------------------------------------------------------
Goto(j, p) == phase' = [phase EXCEPT ![j] = p]

\* run: the configuration is read.
Run(d) ==
  /\ phase[d] = "idle" /\ Goto(d, "reading")
  /\ UNCHANGED <<now, registryVars, stopVars, armed, timedOut>>

\* runAdhoc: the limit is checked, then the log directory is created, or not.
RunAdhoc(a) ==
  /\ phase[a] = "idle"
  /\ Goto(a, IF active >= Limit THEN "refused" ELSE "making")
  /\ logless' \in {logless, logless \cup {a}}
  /\ UNCHANGED <<now, id, entry, active, exited, stopVars, armed, timedOut>>

\* The rest of run refuses: no configuration, or the limit is reached.
Refuse(d) ==
  /\ phase[d] = "reading" /\ Goto(d, "refused")
  /\ UNCHANGED <<now, registryVars, stopVars, armed, timedOut>>

MaySpawn(j) ==
  phase[j] = "making" \/ (phase[j] = "reading" /\ active < Limit)

\* The process is spawned and registered; a background command may have a
\* timeout.
SpawnJob(j) ==
  /\ MaySpawn(j) /\ Goto(j, "live")
  /\ id' = [id EXCEPT ![j] = NewId(j)]
  /\ entry' = [entry EXCEPT ![NewId(j)] = j]
  /\ active' = active + 1
  /\ armed' \in {armed} \cup {armed \cup {a} : a \in {j} \cap Adhoc}
  /\ UNCHANGED <<now, logless, exited, stopVars, timedOut>>

\* Mutant: the error event of a failed spawn leaves the entry.
SpawnFailsLeaking(j) ==
  /\ MaySpawn(j) /\ Goto(j, "gone")
  /\ id' = [id EXCEPT ![j] = NewId(j)]
  /\ entry' = [entry EXCEPT ![NewId(j)] = j]
  /\ active' = active + 1
  /\ UNCHANGED <<now, logless, exited, stopVars, armed, timedOut>>

\* spawn fails: the error event follows at once and drops the entry again.
SpawnFails(j) ==
  /\ MaySpawn(j) /\ Goto(j, "gone")
  /\ id' = [id EXCEPT ![j] = NewId(j)]
  /\ entry' = [entry EXCEPT ![NewId(j)] = NoJob]
  /\ exited' = Keep(j)
  /\ UNCHANGED <<now, active, logless, stopVars, armed, timedOut>>

\* The process exits: by itself, or of a signal.
ExitJob(j) ==
  /\ phase[j] = "live" /\ Goto(j, "gone")
  /\ HandleExit(j)
  /\ stopping' = stopping \ {j}
  /\ killTimer' = IF j \in stopping THEN killTimer \ {j} ELSE killTimer
  /\ UNCHANGED <<now, id, logless, terminated, signalled, timedOut>>
-----------------------------------------------------------------------------
\* The part of stop() that ends processes: mark, disarm the timeout, SIGTERM,
\* arm the SIGKILL timer and wait for the exit.
Terminate(S) ==
  /\ terminated' = terminated \cup S
  /\ armed' = armed \ S
  /\ signalled' = [j \in Jobs |-> IF j \in S THEN signalled[j] \cup {"TERM"}
                                  ELSE signalled[j]]
  /\ killTimer' = killTimer \cup S
  /\ stopping' = stopping \cup S

\* stop(id): the first stop of an entry ends it; a later one returns at once,
\* without waiting for the exit.
Stop(i) ==
  /\ entry[i] # NoJob /\ entry[i] \notin terminated
  /\ Terminate({entry[i]})
  /\ UNCHANGED <<now, phase, registryVars, timedOut>>

\* stopAll, at the end of the application.
StopAll ==
  LET running == {entry[i] : i \in Ids} \ {NoJob} IN
  /\ running # {}
  /\ Terminate(running \ terminated)
  /\ UNCHANGED <<now, phase, registryVars, timedOut>>

\* Mutant: the timeout takes an entry that was stopped by hand for its own.
TimeOutAnyway(a) ==
  /\ a \in armed
  /\ timedOut' = timedOut \cup {a} /\ armed' = armed \ {a}
  /\ UNCHANGED <<now, phase, registryVars, stopVars>>

\* The timeout of a background command stops it, unless it was stopped before.
TimeOutJob(a) ==
  /\ a \in armed
  /\ IF Registered(a) /\ a \notin terminated
     THEN Terminate({a}) /\ timedOut' = timedOut \cup {a}
     ELSE /\ armed' = armed \ {a}
          /\ UNCHANGED <<terminated, signalled, killTimer, stopping, timedOut>>
  /\ UNCHANGED <<now, phase, registryVars>>

\* The SIGKILL timer kills unless process.killed, which node has set when it
\* could send the SIGTERM.
ForceKill(j) ==
  /\ j \in killTimer
  /\ killTimer' = killTimer \ {j}
  /\ signalled' = IF signalled[j] = {} THEN [signalled EXCEPT ![j] = {"KILL"}]
                  ELSE signalled
  /\ UNCHANGED <<now, phase, registryVars, terminated, stopping, armed, timedOut>>

Tick ==
  /\ now < MaxTime /\ now' = now + 1
  /\ UNCHANGED <<phase, registryVars, stopVars, armed, timedOut>>

\* A signalled process dies, but one that ignores SIGTERM only of SIGKILL.
MustDie(j) ==
  \/ "KILL" \in signalled[j]
  \/ "TERM" \in signalled[j] /\ j \notin Stubborn
Die(j) == MustDie(j) /\ ExitJob(j)

RunnerNext ==
  \/ \E d \in Dev : Run(d) \/ Refuse(d)
  \/ \E a \in Adhoc : RunAdhoc(a) \/ TimeOutJob(a)
  \/ \E j \in Jobs : SpawnJob(j) \/ SpawnFails(j) \/ ExitJob(j) \/ ForceKill(j)
  \/ \E i \in Ids : Stop(i)
  \/ StopAll \/ Tick

RunnerSpec == RunnerInit /\ [][RunnerNext]_runnerVars

\* Timers fire and signals are delivered; nothing makes a process end by itself.
RunnerFairness ==
  \A j \in Jobs : WF_runnerVars(Die(j)) /\ WF_runnerVars(ForceKill(j))
                  /\ (j \in Adhoc => WF_runnerVars(TimeOutJob(j)))
-----------------------------------------------------------------------------
(***************************************************************************)
(* Properties                                                              *)
(***************************************************************************)

\* Every variable has its type.
RunnerTypeOK ==
  /\ now \in 0..MaxTime /\ active \in Nat
  /\ phase \in [Jobs -> {"idle", "reading", "making", "live", "gone", "refused"}]
  /\ id \in [Jobs -> Ids \cup {NoJob}]
  /\ entry \in [Ids -> Jobs \cup {NoJob}]
  /\ signalled \in [Jobs -> SUBSET {"TERM", "KILL"}]
  /\ armed \subseteq Adhoc /\ timedOut \subseteq Adhoc
  /\ UNION {terminated, killTimer, stopping} \subseteq Jobs
  /\ logless \subseteq Adhoc
  /\ exited \in Seq(Adhoc)

\* While ids are unique, the counter that enforces the limit is the number of
\* live processes: a job occupies no slot after its exit, its failed spawn or
\* its stop, and never runs without one.
CountIsLive ==
  active = Cardinality(Live) /\ \A j \in Live : entry[id[j]] = j

\* The timeout of a background command is armed only while it runs unstopped,
\* and a command that exits or is stopped by hand is never reported timed out:
\* natural exit, stop and timeout exclude each other.
TimeoutExclusive ==
  /\ \A a \in armed : phase[a] = "live" /\ a \notin terminated
  /\ \A a \in timedOut : a \in terminated /\ "TERM" \in signalled[a]

Readable(a) == Registered(a) \/ \E i \in DOMAIN exited : exited[i] = a

\* The output of a background command with a log stays readable across its
\* exit, until it is the oldest of Kept snapshots and one more is taken.
OutputReadable ==
  [][\A a \in Adhoc \ logless : Readable(a) /\ ~Readable(a)' =>
       Len(exited) = Kept /\ Head(exited) = a]_runnerVars

\* The slots, the timeouts and the output of the processes the runner keeps.
RunnerSound == [](RunnerTypeOK /\ CountIsLive /\ TimeoutExclusive) /\ OutputReadable

\* A command with a timeout ends.
TimeoutEnds == \A a \in Adhoc : a \in armed ~> phase[a] = "gone"
=============================================================================
