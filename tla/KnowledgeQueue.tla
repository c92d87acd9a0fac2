---------------------------- MODULE KnowledgeQueue ----------------------------
(***************************************************************************)
(* From captured observations to candidates: KnowledgeProcessingQueue       *)
(* (knowledge/processing-queue.ts) with the captures that feed it           *)
(* (knowledge/observation-service.ts).                                      *)
(*                                                                         *)
(* Each workspace has a cursor: the last observation, by time of creation   *)
(* and then by id, that has passed both stages.  Runs are jobs of one       *)
(* serial queue.  A run reads the store and the cursors, hands each         *)
(* workspace what lies beyond its cursor to the deterministic stage and to  *)
(* the planning of refinements, and writes all cursors once at its end.     *)
(* Captures go on meanwhile, and arm a debounce timer.                      *)
(*                                                                         *)
(* Left out: the other jobs of the queue (refinement ticks, candidate       *)
(* actions), which touch no cursor, and the removal of old observations.    *)
(***************************************************************************)
EXTENDS Integers, Sequences, FiniteSets

CONSTANTS
  Observations,  \* ids, in the order that breaks ties
  Workspaces,    \* in the order in which a run takes them
  Of,            \* the workspace of each observation
  None,
  All,           \* the job that takes every workspace
  Threshold,     \* captures that start a run at once
  CreatedAt,     \* the time each is given before it is stored
  MaxQueue,      \* bound on the jobs that wait when another is asked for
  MaxCrashes     \* bound on crashes

ASSUME KnowledgeAssumption ==
  /\ Observations \subseteq Nat /\ Workspaces \subseteq Nat
  /\ CreatedAt \in [Observations -> Nat]
  /\ Of \in [Observations -> Workspaces]
  /\ None \notin Observations /\ All \notin Workspaces
  /\ Threshold \in Nat \ {0} /\ MaxQueue \in Nat /\ MaxCrashes \in Nat

VARIABLES
  stored,    \* observations in the store
  unannounced, \* those whose capture has yet to schedule a run
  cursor,    \* the cursor file: the last observation passed in each workspace
  planned,   \* observations that have passed both stages
  up,        \* the process runs
  crashes,   \* how often it has died
  count,     \* pendingCounts
  timers,    \* workspaces with a debounce timer
  queue,     \* jobs that wait
  run,       \* the running job
  excused    \* history: observations a run failed, denied or died with

timerVars == <<count, timers>>
processVars == <<up, crashes>>
vars == <<stored, unannounced, cursor, planned, processVars, timerVars, queue, run,
          excused>>
-----------------------------------------------------------------------------
Jobs == Workspaces \cup {All}
Cursors == [Workspaces -> Observations \cup {None}]

\* A run: where it is, the observations it has still to hand out, the cursors it
\* has read and moved, and (history) what was beyond its cursor when it read them.
Runs == [at: {"idle", "deterministic", "llm", "write", "refine"},
         todo: SUBSET Observations, next: Cursors, seen: SUBSET Observations]
Idle == [at |-> "idle", todo |-> {}, next |-> [w \in Workspaces |-> None], seen |-> {}]

Later(o, p) ==
  CreatedAt[o] > CreatedAt[p] \/ (CreatedAt[o] = CreatedAt[p] /\ o > p)
IsAfterCursor(o, c) == c = None \/ Later(o, c)
Last(S) == CHOOSE o \in S : \A p \in S : p = o \/ Later(o, p)

\* The workspace whose turn it is, and its batch.
Turn == CHOOSE w \in Workspaces :
          /\ \E o \in run.todo : Of[o] = w
          /\ \A o \in run.todo : w <= Of[o]
Batch == {o \in run.todo : Of[o] = Turn}

Init ==
  /\ stored = {} /\ unannounced = {}
  /\ cursor = [w \in Workspaces |-> None]
  /\ planned = {}
  /\ up = TRUE /\ crashes = 0
  /\ count = [w \in Workspaces |-> 0] /\ timers = {}
  /\ queue = <<>> /\ run = Idle
  /\ excused = {}
-----------------------------------------------------------------------------
(***************************************************************************)
(* What starts a run                                                       *)
(***************************************************************************)

\* Mutant: no run is queued while one is going on.
EnqueueUnlessBusy(job) ==
  queue' = IF run.at = "idle" THEN Append(queue, job) ELSE queue

Enqueue(job) == queue' = Append(queue, job)

\* The pending captures of w are counted from zero, and its timer is off.
Disarm(w) == count' = [count EXCEPT ![w] = 0] /\ timers' = timers \ {w}

\* schedule(w)
Schedule(w) ==
  IF count[w] + 1 >= Threshold
  THEN Disarm(w) /\ Enqueue(w)
  ELSE /\ count' = [count EXCEPT ![w] = @ + 1] /\ timers' = timers \cup {w}
       /\ UNCHANGED queue

\* capture: the observation is appended to the store.  Its createdAt was read before
\* that, or given by the caller: observations are stored in any order.
Capture(o) ==
  /\ up /\ o \notin stored
  /\ stored' = stored \cup {o} /\ unannounced' = unannounced \cup {o}
  /\ UNCHANGED <<cursor, planned, processVars, timerVars, queue, run, excused>>

\* The capture, past its audit and its import, schedules the workspace.
Announce(o) ==
  /\ up /\ o \in unannounced
  /\ unannounced' = unannounced \ {o}
  /\ Schedule(Of[o])
  /\ UNCHANGED <<stored, cursor, planned, processVars, run, excused>>

TimerFires(w) ==
  /\ up /\ w \in timers
  /\ Disarm(w) /\ Enqueue(w)
  /\ UNCHANGED <<stored, unannounced, cursor, planned, processVars, run, excused>>

\* scheduleImmediate and processNow.
Ask(job) ==
  /\ up /\ Len(queue) < MaxQueue
  /\ IF job = All THEN UNCHANGED timerVars ELSE Disarm(job)
  /\ Enqueue(job)
  /\ UNCHANGED <<stored, unannounced, cursor, planned, processVars, run, excused>>
-----------------------------------------------------------------------------
(***************************************************************************)
(* processLocked                                                           *)
(***************************************************************************)

RunFrame == <<stored, unannounced, processVars, timerVars>>

\* The run that has the observations S left goes on with the next workspace, or
\* with the cursors.
Proceed(S, next) ==
  run' = [run EXCEPT !.todo = S, !.next = next,
                     !.at = IF S = {} THEN "write" ELSE "deterministic"]

\* Mutant: only the workspaces of the job are read from the cursor file.
ReadOwnCursors(job) == [w \in Workspaces |-> IF job \in {w, All} THEN cursor[w] ELSE None]

ReadCursors(job) == cursor

Pending(o) == IsAfterCursor(o, cursor[Of[o]])

\* The store and the cursors are read.
StartRun ==
  /\ up /\ run.at = "idle" /\ queue # <<>>
  /\ queue' = Tail(queue)
  /\ LET job == Head(queue)
         S == {o \in stored : job \in {Of[o], All} /\ Pending(o)}
     IN  run' = [at |-> IF S = {} THEN "write" ELSE "deterministic", todo |-> S,
                 next |-> ReadCursors(job), seen |-> {o \in stored : Pending(o)}]
  /\ UNCHANGED <<RunFrame, cursor, planned, excused>>

\* The domain of the workspace is closed.
Denied ==
  /\ up /\ run.at = "deterministic"
  /\ Proceed(run.todo \ Batch, run.next) /\ excused' = excused \cup Batch
  /\ UNCHANGED <<RunFrame, cursor, planned, queue>>

DeterministicStage ==
  /\ up /\ run.at = "deterministic"
  /\ run' = [run EXCEPT !.at = "llm"]
  /\ UNCHANGED <<RunFrame, cursor, planned, queue, excused>>

\* recordBatchFailures: nothing reads the ledger back; the run goes on with the next
\* workspace.
StageFails(stage) ==
  /\ up /\ run.at = stage
  /\ excused' = excused \cup Batch
  /\ Proceed(run.todo \ Batch, run.next)
  /\ UNCHANGED <<RunFrame, cursor, planned, queue>>

\* The refinements of the batch are planned, and its cursor moves.
LlmStage ==
  /\ up /\ run.at = "llm"
  /\ planned' = planned \cup Batch
  /\ Proceed(run.todo \ Batch, [run.next EXCEPT ![Turn] = Last(Batch)])
  /\ UNCHANGED <<RunFrame, cursor, queue, excused>>

DeterministicFails == StageFails("deterministic")
LlmFails == StageFails("llm")

\* All cursors are written, if one has moved.
WriteCursors ==
  /\ up /\ run.at = "write"
  /\ cursor' = run.next /\ run' = [Idle EXCEPT !.at = "refine"]
  /\ UNCHANGED <<RunFrame, planned, queue, excused>>

\* The refinements that are due have run, or have thrown.
EndRun ==
  /\ up /\ run.at = "refine" /\ run' = Idle
  /\ UNCHANGED <<RunFrame, cursor, planned, queue, excused>>

\* Observations that the run has yet to hand out, or whose new cursor is not written.
InRun == run.todo \cup {o \in run.seen : run.next[Of[o]] # cursor[Of[o]]}

\* Mutant: the jobs behind one that threw are rejected with it.
AbortBlocks ==
  /\ up /\ run.at \in {"deterministic", "llm", "write"}
  /\ excused' = excused \cup InRun
  /\ run' = Idle /\ queue' = <<>>
  /\ UNCHANGED <<RunFrame, cursor, planned>>

\* A policy, the ledger of failures or the cursors cannot be read or written: the
\* run rejects, and the cursors it has moved are not written.
Abort ==
  /\ up /\ run.at \in {"deterministic", "llm", "write"}
  /\ excused' = excused \cup InRun
  /\ run' = Idle
  /\ UNCHANGED <<RunFrame, cursor, planned, queue>>
-----------------------------------------------------------------------------
\* The application dies or quits: timers, counts and jobs are gone.
Crash ==
  /\ up /\ crashes < MaxCrashes
  /\ up' = FALSE /\ crashes' = crashes + 1
  /\ count' = [w \in Workspaces |-> 0] /\ timers' = {}
  /\ queue' = <<>> /\ run' = Idle /\ unannounced' = {}
  /\ excused' = excused \cup stored
  /\ UNCHANGED <<stored, cursor, planned>>

\* startupRestore counts what is pending, and starts nothing.
Restart ==
  /\ ~up /\ up' = TRUE
  /\ UNCHANGED <<stored, unannounced, cursor, planned, crashes, timerVars, queue, run, excused>>

RunStep ==
  \/ StartRun \/ Denied \/ DeterministicStage \/ DeterministicFails
  \/ LlmStage \/ LlmFails \/ WriteCursors \/ EndRun \/ Abort

Next ==
  \/ \E o \in Observations : Capture(o) \/ Announce(o)
  \/ \E w \in Workspaces : TimerFires(w)
  \/ \E job \in Jobs : Ask(job)
  \/ RunStep
  \/ Crash \/ Restart

Spec == Init /\ [][Next]_vars

\* Captures end, timers fire, and a job at the head of the queue is executed to its
\* end.
Fairness ==
  /\ WF_vars(RunStep)
  /\ \A o \in Observations : WF_vars(Announce(o))
  /\ \A w \in Workspaces : WF_vars(TimerFires(w))
FairSpec == Spec /\ Fairness
-----------------------------------------------------------------------------
(***************************************************************************)
(* Properties                                                              *)
(***************************************************************************)

\* Every variable has its type.
TypeOK ==
  /\ stored \subseteq Observations /\ unannounced \subseteq stored
  /\ cursor \in Cursors
  /\ planned \subseteq stored /\ excused \subseteq stored
  /\ up \in BOOLEAN /\ crashes \in 0..MaxCrashes
  /\ count \in [Workspaces -> 0..(Threshold - 1)]
  /\ timers = {w \in Workspaces : count[w] > 0}
  /\ queue \in Seq(Jobs)
  /\ run \in Runs

\* When a cursor moves, every observation it passes that was in the store when the
\* run read it has been through both stages.
CursorCovers ==
  [][\A o \in run.seen :
       IsAfterCursor(o, cursor[Of[o]]) /\ ~IsAfterCursor(o, cursor'[Of[o]])
       => o \in planned]_vars

\* No cursor moves backwards or is lost, whatever runs, aborts, crashes and late
\* captures happen.
CursorNeverBack ==
  [][\A w \in Workspaces :
       cursor[w] # None /\ cursor'[w] # cursor[w]
       => cursor'[w] # None /\ Later(cursor'[w], cursor[w])]_vars

Beyond(o) == IsAfterCursor(o, cursor[Of[o]])

\* No wakeup is lost: an observation beyond its cursor has a capture to announce it, a
\* timer, a waiting job or a run that holds it, or a run has failed it.
Awaited ==
  \A o \in stored :
    up /\ Beyond(o) /\ o \notin excused =>
      \/ o \in unannounced \/ Of[o] \in timers
      \/ \E i \in DOMAIN queue : queue[i] \in {Of[o], All}
      \/ o \in run.todo
      \/ /\ run.at \in {"deterministic", "llm", "write"}
         /\ ~IsAfterCursor(o, run.next[Of[o]])

\* An observation that has passed both stages is handed to them again only after a
\* failure, a denial, an abort or a crash.
NoRework ==
  [][\A o \in run.todo :
       run.at = "deterministic" /\ run'.at = "llm" /\ Of[o] = Turn /\ o \in planned
       => o \in excused]_vars

\* Cursors move forward over what was processed, and over nothing twice.
CursorsTrue == []TypeOK /\ CursorCovers /\ CursorNeverBack /\ NoRework

\* Again and again every observation in the store is behind its cursor, or a run has
\* failed it, or the process is down.
Settles ==
  []<>(up => \A o \in stored : ~Beyond(o) \/ o \in excused)

\* Every observation its workspace's cursor has passed has been through both stages:
\* `The queue advances the deterministic cursor only when the deterministic-stage
\* handler succeeds' (processing-queue.ts), for every observation.
NoneSkipped == \A o \in stored : ~Beyond(o) => o \in planned
=============================================================================
