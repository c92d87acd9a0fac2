---------------------------- MODULE AgentStreams ----------------------------
(***************************************************************************)
(* Headless agent runs: AgentStreamManager (janus-runner/stream-manager.ts) *)
(* with the IPC handlers that start and cancel runs                        *)
(* (ipc/janus-runner-handlers.ts) and the status each run has in           *)
(* SubAgentRunRegistry (janus-runner/subagent-run-registry.ts).            *)
(*                                                                         *)
(* A run takes one of MaxConcurrency slots, resolves the path of its CLI,  *)
(* spawns it and reads its output until it closes.  A handler runs to its  *)
(* end, and then the promise reactions it caused, before the next event:   *)
(* `micro` holds those reactions.  Run ids are random UUIDs, so each run   *)
(* is started once.                                                        *)
(***************************************************************************)
EXTENDS Integers, SequencesExt

CONSTANTS Runs, MaxConcurrency

ASSUME SlotsAssumption == MaxConcurrency \in Nat \ {0} /\ IsFiniteSet(Runs)

VARIABLES
  pc,         \* idle, queued, resolving, live, closed or rejected
  queue,      \* runs waiting for a slot
  running,    \* the counter of slots in use
  session,    \* the sessions map: none, running or cancelled
  timer,      \* runs with an armed timeout
  aborted,    \* runs whose abort signal was raised
  listening,  \* runs with an event listener
  status,     \* status in the registry, none before the run exists
  micro       \* promise reactions not run yet: <<run, status it reports>>

vars == <<pc, queue, running, session, timer, aborted, listening, status, micro>>
-----------------------------------------------------------------------------
Finished == {"done", "failed", "cancelled"}

\* The registry's answer to an event of the agent.  A parser reports the end of
\* a turn as done, so output alone can finish a run and take it up again.
Report(r, s) ==
  status' = IF r \in listening THEN [status EXCEPT ![r] = s] ELSE status

\* How many queued runs drainQueue admits when `used` slots are taken.
Admitted(used) ==
  IF MaxConcurrency - used >= Len(queue) THEN Len(queue) ELSE MaxConcurrency - used

\* Mutant: the close handler and the catch of startWithId both give the slot back.
ReleaseTwice(r, how) ==
  LET n == Admitted(running - 2) IN
  /\ running' = running - 2 + n
  /\ queue' = SubSeq(queue, n + 1, Len(queue))
  /\ session' = [session EXCEPT ![r] = "none"]
  /\ listening' = listening \ {r}
  /\ pc' = [x \in Runs |-> IF x = r THEN how
                           ELSE IF \E i \in 1..n : queue[i] = x
                                THEN "resolving" ELSE pc[x]]

\* Mutant: a run that ends does not drain the queue.
ReleaseOnly(r, how) ==
  /\ running' = running - 1
  /\ session' = [session EXCEPT ![r] = "none"]
  /\ listening' = listening \ {r}
  /\ pc' = [pc EXCEPT ![r] = how]
  /\ UNCHANGED queue

\* A run gives its slot back and is forgotten, and drainQueue starts the next
\* ones.  The drain in the finally of a queued run finds nothing left to do.
Release(r, how) ==
  LET n == Admitted(running - 1) IN
  /\ running' = running - 1 + n
  /\ queue' = SubSeq(queue, n + 1, Len(queue))
  /\ session' = [session EXCEPT ![r] = "none"]
  /\ listening' = listening \ {r}
  /\ pc' = [x \in Runs |-> IF x = r THEN how
                           ELSE IF \E i \in 1..n : queue[i] = x
                                THEN "resolving" ELSE pc[x]]

Quiet == micro = <<>>
Later(r, s) == micro' = Append(micro, <<r, s>>)
-----------------------------------------------------------------------------
Init ==
  /\ pc = [r \in Runs |-> "idle"]
  /\ queue = <<>> /\ running = 0
  /\ session = [r \in Runs |-> "none"]
  /\ timer = {} /\ aborted = {} /\ listening = {}
  /\ status = [r \in Runs |-> "none"]
  /\ micro = <<>>

\* agent:start registers the run and its listener and asks for a slot.
Start(r) ==
  /\ Quiet /\ pc[r] = "idle"
  /\ status' = [status EXCEPT ![r] = "queued"]
  /\ listening' = listening \cup {r}
  /\ \/ /\ running >= MaxConcurrency
        /\ pc' = [pc EXCEPT ![r] = "queued"]
        /\ queue' = Append(queue, r)
        /\ UNCHANGED running
     \/ /\ running < MaxConcurrency
        /\ pc' = [pc EXCEPT ![r] = "resolving"]
        /\ running' = running + 1
        /\ UNCHANGED queue
  /\ UNCHANGED <<session, timer, aborted, micro>>

\* The CLI path resolves and the process is spawned.
Spawn(r) ==
  /\ Quiet /\ pc[r] = "resolving"
  /\ pc' = [pc EXCEPT ![r] = "live"]
  /\ session' = [session EXCEPT ![r] = "running"]
  /\ timer' = timer \cup {r}
  /\ Later(r, "running")
  /\ UNCHANGED <<queue, running, aborted, listening, status>>

\* No CLI for the engine, an unsupported engine, or spawn throws.
FailToSpawn(r) ==
  /\ Quiet /\ pc[r] = "resolving"
  /\ Release(r, "rejected")
  /\ Later(r, "failed")
  /\ UNCHANGED <<timer, aborted, status>>

\* The then and catch of the start handler.
React ==
  /\ ~Quiet
  /\ status' = [status EXCEPT ![Head(micro)[1]] = Head(micro)[2]]
  /\ micro' = Tail(micro)
  /\ UNCHANGED <<pc, queue, running, session, timer, aborted, listening>>

\* A line of output, unless the run was aborted; or the process reports an
\* error, its own abort excepted.
Output(r) ==
  /\ Quiet /\ pc[r] = "live"
  /\ \E s \in {"running", "done", "failed"} :
       (s # "failed" => r \notin aborted) /\ Report(r, s)
  /\ UNCHANGED <<pc, queue, running, session, timer, aborted, listening, micro>>

\* The timeout reports an error and kills the process; the session stays.
TimeOut(r) ==
  /\ Quiet /\ r \in timer
  /\ Report(r, "failed")
  /\ aborted' = aborted \cup {r}
  /\ timer' = timer \ {r}
  /\ UNCHANGED <<pc, queue, running, session, listening, micro>>

\* Mutant: the listeners are dropped before the last event is emitted.
CloseUnheard(r) ==
  /\ Quiet /\ pc[r] = "live"
  /\ timer' = timer \ {r}
  /\ Release(r, "closed")
  /\ UNCHANGED <<aborted, status, micro>>

\* The process closes.  Exit code 0 and a death by signal are both reported as
\* done, any other code as failed.
Close(r) ==
  /\ Quiet /\ pc[r] = "live"
  /\ timer' = timer \ {r}
  /\ \E s \in {"done", "failed"} : Report(r, s)
  /\ Release(r, "closed")
  /\ UNCHANGED <<aborted, micro>>
-----------------------------------------------------------------------------
Abortable == {r \in Runs : session[r] = "running"}

\* agent:cancel: a queued run leaves the queue and its start is rejected, a
\* session is aborted and its process killed, anything else is left alone; in
\* each case the registry then has the run cancelled.
Cancel(r) ==
  /\ Quiet /\ pc[r] # "idle"
  /\ \/ /\ pc[r] = "queued"
        /\ \E i \in DOMAIN queue : queue[i] = r /\ queue' = RemoveAt(queue, i)
        /\ pc' = [pc EXCEPT ![r] = "rejected"]
        /\ listening' = listening \ {r}
        /\ Later(r, "failed")
        /\ UNCHANGED <<session, timer, aborted>>
     \/ /\ r \in Abortable
        /\ aborted' = aborted \cup {r} /\ timer' = timer \ {r}
        /\ session' = [session EXCEPT ![r] = "cancelled"]
        /\ UNCHANGED <<pc, queue, listening, micro>>
     \/ /\ pc[r] # "queued" /\ r \notin Abortable
        /\ UNCHANGED <<pc, queue, session, timer, aborted, listening, micro>>
  /\ status' = [status EXCEPT ![r] = "cancelled"]
  /\ UNCHANGED running

\* cancelAll empties the queue, rejecting in order, and aborts every session.
DropAll ==
  /\ queue' = <<>>
  /\ pc' = [r \in Runs |-> IF pc[r] = "queued" THEN "rejected" ELSE pc[r]]
  /\ micro' = micro \o [i \in DOMAIN queue |-> <<queue[i], "failed">>]
  /\ aborted' = aborted \cup Abortable /\ timer' = timer \ Abortable
  /\ session' = [r \in Runs |-> IF r \in Abortable THEN "cancelled" ELSE session[r]]
  /\ listening' = listening \ {queue[i] : i \in DOMAIN queue}

\* agent:cancelAll marks every unfinished run of the registry; the shutdown of
\* the application (killAll) only drops.
CancelAll ==
  /\ Quiet /\ DropAll
  /\ status' = [r \in Runs |-> IF status[r] \in {"queued", "running"}
                               THEN "cancelled" ELSE status[r]]
  /\ UNCHANGED running

KillAll ==
  /\ Quiet /\ DropAll
  /\ UNCHANGED <<running, status>>

Next ==
  \/ React \/ CancelAll \/ KillAll
  \/ \E r \in Runs :
       \/ Start(r) \/ Spawn(r) \/ FailToSpawn(r)
       \/ Output(r) \/ TimeOut(r) \/ Close(r) \/ Cancel(r)

Spec == Init /\ [][Next]_vars

\* The event loop runs promise reactions, paths resolve, and a process ends by
\* itself or is killed by its timeout.
Fairness ==
  /\ WF_vars(React)
  /\ \A r \in Runs : SF_vars(Spawn(r) \/ FailToSpawn(r)) /\ SF_vars(Close(r))
-----------------------------------------------------------------------------
(***************************************************************************)
(* Properties                                                              *)
(***************************************************************************)

\* Every variable has its type.
TypeOK ==
  /\ pc \in [Runs -> {"idle", "queued", "resolving", "live", "closed", "rejected"}]
  /\ queue \in Seq(Runs) /\ running \in Nat
  /\ session \in [Runs -> {"none", "running", "cancelled"}]
  /\ timer \subseteq Runs /\ aborted \subseteq Runs /\ listening \subseteq Runs
  /\ status \in [Runs -> {"none", "queued", "running"} \cup Finished]
  /\ micro \in Seq(Runs \X {"running", "failed"})

\* The counter of slots is the number of runs that hold one, at most MaxConcurrency, over
\* every order of starts, failures, closes and cancellations: the decrements of
\* the catch in startWithId and of the close handler never both happen.
HoldsSlot(r) == pc[r] \in {"resolving", "live"}
SlotAccounting ==
  /\ running = Cardinality({r \in Runs : HoldsSlot(r)})
  /\ running <= MaxConcurrency

\* A run waits only while every slot is taken.
NoIdleSlot == queue # <<>> => running = MaxConcurrency

\* The manager holds a handle on exactly the live processes, and a timeout is
\* armed only for one of them: it never kills a process it does not own.
HandlesAreLive ==
  /\ \A r \in Runs : session[r] # "none" <=> pc[r] = "live"
  /\ \A r \in timer : pc[r] = "live" /\ session[r] = "running"

\* When a run has ended and its promise has been handled, the registry has it
\* finished: nobody is left watching a queued or running agent that is gone.
EndIsReported ==
  \A r \in Runs :
    pc[r] \in {"closed", "rejected"} /\ Quiet => status[r] \in Finished

\* Every run is watched from its start to its end, and killed only while it lives.
AgentsWatched == TypeOK /\ HandlesAreLive /\ EndIsReported

\* A queued run gets a slot, or is cancelled.
QueueMoves ==
  \A r \in Runs : pc[r] = "queued" ~> pc[r] \in {"resolving", "rejected"}
=============================================================================
