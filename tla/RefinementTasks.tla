--------------------------- MODULE RefinementTasks ---------------------------
(***************************************************************************)
(* The durable tasks that let a model refine candidate facts:               *)
(* RefinementTaskService (knowledge/refinement-tasks.ts), with what a        *)
(* refinement does to the candidate (knowledge/extract-service.ts).          *)
(*                                                                         *)
(* A task is named by the hash of everything it was planned from, so one id *)
(* is one snapshot of a candidate, its evidence and its context.  Enqueuing *)
(* and running exclude each other (taskLock); what is in memory is what is  *)
(* in the file whenever another step can look.                              *)
(***************************************************************************)
EXTENDS Naturals, FiniteSets

CONSTANTS
  Tasks,          \* task ids
  NoTask,
  RefineAttempts, \* MAX_ATTEMPTS, 3 in the code
  RefineCalls,    \* model calls of one run (20 in the code)
  RefineFaults    \* bound on crashes and on changes of the world

ASSUME RefinementAssumption ==
  /\ NoTask \notin Tasks
  /\ RefineAttempts \in Nat \ {0} /\ RefineCalls \in Nat \ {0} /\ RefineFaults \in Nat

VARIABLES
  tasks,       \* refinement-tasks.json
  candidate,   \* the candidate of each task, as the task finds it
  holds,       \* tasks whose evidence and context are as planned
  forgotten,   \* tasks that the user's forgetting blocks
  permitted,   \* domain policy and settings let a model refine
  refining,    \* the run that holds the lock
  refineFaults,
  called       \* history: model calls for each task

refineVars ==
  <<tasks, candidate, holds, forgotten, permitted, refining, refineFaults, called>>
-----------------------------------------------------------------------------
Absent == [status |-> "absent", attempts |-> 0, left |-> 0]
Ended == {"succeeded", "cancelled", "failed"}
Open(t) == tasks[t].status \in {"pending", "running"}

\* A run: the tasks it has still to look at, the one under way, its calls so far.
NoRun == [on |-> FALSE, todo |-> {}, task |-> NoTask, at |-> "take", calls |-> 0]

\* A saved task, as every read and write of the file corrects it.
Corrected(t, row) == IF t \in forgotten /\ row # Absent THEN [row EXCEPT !.status = "cancelled"] ELSE row
Saved(t, row) == [u \in Tasks |-> Corrected(u, IF u = t THEN row ELSE tasks[u])]
As(t, status) == [tasks[t] EXCEPT !.status = status]

\* The candidate is untouched: what `obsolete' and eligibleForRefinement ask.
Untouched(t) == candidate[t] = "proposed"
\* validate: nothing the task was planned from has changed, and it may go on.
Valid(t) == permitted /\ t \notin forgotten /\ t \in holds

Done == refining' = [refining EXCEPT !.task = NoTask, !.at = "take"]
WorldSame == UNCHANGED <<candidate, holds, forgotten, permitted, refineFaults>>
Upset == refineFaults < RefineFaults /\ refineFaults' = refineFaults + 1

RefineInit ==
  /\ tasks = [t \in Tasks |-> Absent] /\ candidate = [t \in Tasks |-> "proposed"]
  /\ holds = Tasks /\ forgotten = {} /\ permitted = TRUE
  /\ refining = NoRun /\ refineFaults = 0 /\ called = [t \in Tasks |-> 0]

\* enqueue and enqueueManual: a task whose snapshot still stands and whose id the
\* ledger has never had.
RefineEnqueue(t) ==
  /\ ~refining.on /\ Untouched(t) /\ t \in holds
  /\ tasks[t] = Absent
  /\ tasks' = Saved(t, As(t, "pending"))
  /\ UNCHANGED <<refining, called>> /\ WorldSame

\* runDue begins: the tasks that the ledger has open.
RefineStart ==
  /\ ~refining.on /\ \E t \in Tasks : Open(t)
  /\ tasks' = [t \in Tasks |-> Corrected(t, tasks[t])]
  /\ refining' = [NoRun EXCEPT !.on = TRUE, !.todo = {t \in Tasks : Open(t) /\ t \notin forgotten}]
  /\ UNCHANGED called /\ WorldSame

\* A task comes to its end in the run.
RefineClose(t, status) ==
  /\ tasks' = Saved(t, As(t, status))
  /\ refining' = [refining EXCEPT !.todo = @ \ {t}]
  /\ UNCHANGED called /\ WorldSame

Taking(t) == refining.on /\ refining.task = NoTask /\ t \in refining.todo

\* The checks before the call, in their order.
RefineCancel(t) == Taking(t) /\ ~(Untouched(t) /\ t \in holds) /\ RefineClose(t, "cancelled")
RefineExhaust(t) ==
  /\ Taking(t) /\ Untouched(t) /\ t \in holds /\ tasks[t].attempts >= RefineAttempts
  /\ RefineClose(t, "failed")
RefineMayCall(t) ==
  /\ Taking(t) /\ Untouched(t) /\ t \in holds /\ tasks[t].attempts < RefineAttempts
RefineDefer(t) ==
  /\ RefineMayCall(t)
  /\ ~permitted \/ tasks[t].left > 0 \/ refining.calls >= RefineCalls
  /\ refining' = [refining EXCEPT !.todo = @ \ {t}]
  /\ UNCHANGED <<tasks, called>> /\ WorldSame

\* Mutant: the attempt is not saved before the call.
RefineBeginUnsaved(t) ==
  /\ RefineMayCall(t)
  /\ permitted /\ tasks[t].left = 0 /\ refining.calls < RefineCalls
  /\ tasks' = Saved(t, As(t, "running"))
  /\ refining' = [refining EXCEPT !.todo = @ \ {t}, !.task = t, !.calls = @ + 1, !.at = "barrier"]
  /\ UNCHANGED called /\ WorldSame

\* The attempt is saved, then the model is called, unless the task was forgotten.
RefineBegin(t) ==
  /\ RefineMayCall(t)
  /\ permitted /\ tasks[t].left = 0 /\ refining.calls < RefineCalls
  /\ tasks' = Saved(t, [As(t, "running") EXCEPT !.attempts = @ + 1])
  /\ refining' = [refining EXCEPT !.todo = @ \ {t}, !.task = t, !.calls = @ + 1, !.at = "barrier"]
  /\ UNCHANGED called /\ WorldSame
RefineCall ==
  LET t == refining.task IN
  /\ refining.on /\ t # NoTask /\ refining.at = "barrier"
  /\ IF t \in forgotten
       THEN tasks' = Saved(t, As(t, "cancelled")) /\ Done /\ UNCHANGED called
       ELSE /\ refining' = [refining EXCEPT !.at = "called"]
            /\ called' = [called EXCEPT ![t] = @ + 1] /\ UNCHANGED tasks
  /\ WorldSame

\* Mutant: the merge relies on the checks before the call.
RefineApplyUnchecked ==
  LET t == refining.task IN
  /\ refining.at = "called"
  /\ \/ candidate' = [candidate EXCEPT ![t] = "merged"]
     \/ UNCHANGED candidate
  /\ refining' = [refining EXCEPT !.at = "answered"]
  /\ UNCHANGED <<tasks, holds, forgotten, permitted, refineFaults, called>>

\* The model answers: the candidate is merged with what it said, if they match and
\* if the task is still valid under the lock of the candidates.
RefineApply ==
  LET t == refining.task IN
  /\ refining.at = "called"
  /\ \/ Untouched(t) /\ Valid(t) /\ candidate' = [candidate EXCEPT ![t] = "merged"]
     \/ UNCHANGED candidate
  /\ refining' = [refining EXCEPT !.at = "answered"]
  /\ UNCHANGED <<tasks, holds, forgotten, permitted, refineFaults, called>>

\* The call fails: the task waits, twice as long each time in the code and one
\* longer here, or has failed.
RefineFails ==
  LET t == refining.task
      status == IF t \in forgotten THEN "cancelled"
                ELSE IF tasks[t].attempts >= RefineAttempts THEN "failed" ELSE "pending" IN
  /\ refining.at = "called"
  /\ tasks' = Saved(t, [As(t, status) EXCEPT !.left = tasks[t].attempts])
  /\ Done /\ UNCHANGED called /\ WorldSame

\* The checks after the answer.
RefineJudge ==
  LET t == refining.task IN
  /\ refining.at = "answered"
  /\ tasks' = Saved(t, As(t, IF candidate[t] = "settled" \/ ~Valid(t) THEN "cancelled" ELSE "succeeded"))
  /\ Done /\ UNCHANGED called /\ WorldSame

RefineEnd ==
  /\ refining.on /\ refining.task = NoTask /\ refining.todo = {}
  /\ refining' = NoRun /\ UNCHANGED <<tasks, called>> /\ WorldSame

\* The world: the user edits or settles a candidate, evidence or context changes,
\* something is forgotten, the settings change, the process dies, time passes.
RefineEdit(t) ==
  /\ Upset /\ \E s \in {"edited", "settled"} : candidate' = [candidate EXCEPT ![t] = s]
  /\ UNCHANGED <<tasks, holds, forgotten, permitted, refining, called>>
RefineDrift(t) ==
  /\ Upset /\ holds' = holds \ {t}
  /\ UNCHANGED <<tasks, candidate, forgotten, permitted, refining, called>>
RefineForget(t) ==
  /\ Upset /\ forgotten' = forgotten \cup {t}
  /\ UNCHANGED <<tasks, candidate, holds, permitted, refining, called>>
RefinePermit ==
  /\ Upset /\ permitted' = ~permitted
  /\ UNCHANGED <<tasks, candidate, holds, forgotten, refining, called>>
RefineCrash ==
  /\ Upset /\ refining' = NoRun
  /\ UNCHANGED <<tasks, candidate, holds, forgotten, permitted, called>>
RefineTick ==
  /\ tasks' = [t \in Tasks |-> [tasks[t] EXCEPT !.left = IF @ = 0 THEN 0 ELSE @ - 1]]
  /\ UNCHANGED <<refining, called>> /\ WorldSame

RefineRunStep ==
  \/ \E t \in Tasks : RefineCancel(t) \/ RefineExhaust(t) \/ RefineDefer(t) \/ RefineBegin(t)
  \/ RefineCall \/ RefineApply \/ RefineFails \/ RefineJudge \/ RefineEnd

RefineNext ==
  \/ \E t \in Tasks : RefineEnqueue(t) \/ RefineEdit(t) \/ RefineDrift(t) \/ RefineForget(t)
  \/ RefineStart \/ RefineRunStep \/ RefinePermit \/ RefineCrash \/ RefineTick

\* The processing queue runs what is due again and again; a call returns or fails.
RefineFairness == WF_refineVars(RefineStart) /\ WF_refineVars(RefineRunStep) /\ WF_refineVars(RefineTick)
-----------------------------------------------------------------------------
RefineTypeOK ==
  /\ tasks \in [Tasks -> [status : {"absent", "pending", "running"} \cup Ended,
                          attempts : 0..RefineAttempts, left : 0..RefineAttempts]]
  /\ candidate \in [Tasks -> {"proposed", "edited", "merged", "settled"}]
  /\ holds \subseteq Tasks /\ forgotten \subseteq Tasks /\ permitted \in BOOLEAN
  /\ refining.todo \subseteq Tasks /\ refining.task \in Tasks \cup {NoTask}
  /\ refining.task # NoTask => tasks[refining.task].status \in {"running", "cancelled"}

\* The model is paid at most three times for a task, however often the process dies
\* between the attempt and its outcome (refinement-tasks.ts:253, 265-267).
RefineCallsBounded == \A t \in Tasks : called[t] <= RefineAttempts

\* A candidate is merged only for a task that is running and valid at that moment,
\* though a whole model call lies between the checks of the run and the merge
\* (refinement-tasks.ts:270-290, extract-service.ts:571-585).
RefineMergesValid ==
  [][\A t \in Tasks : candidate'[t] = "merged" /\ candidate[t] # "merged" =>
       /\ Valid(t) /\ candidate[t] = "proposed" /\ tasks[t].status = "running"]_refineVars

\* What has ended stays ended, but that forgetting cancels it; a task is never
\* enqueued again (refinement-tasks.ts: enqueue 205, applyForgetting 93-97).
RefineEndsOnce ==
  [][\A t \in Tasks : tasks[t].status \in Ended /\ tasks'[t].status # tasks[t].status =>
       tasks'[t].status = "cancelled" /\ t \in forgotten]_refineVars

\* A task does not stay open for ever unless the settings forbid it: crashes leave it
\* `running' and the next run takes it up (refinement-tasks.ts:220).
RefineSettles == \A t \in Tasks : []<>(~Open(t) \/ ~permitted)
=============================================================================
