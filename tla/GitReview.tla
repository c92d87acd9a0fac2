------------------------------- MODULE GitReview -------------------------------
(***************************************************************************)
(* Automatic review of the notes that commits change: GitReviewScheduler    *)
(* (blueprint/review/git-scheduler.ts) for one branch of one checkout, with  *)
(* the manual reviews that BlueprintReviewRuntime (runtime.ts) runs beside   *)
(* it.                                                                      *)
(*                                                                         *)
(* A tick turns the notes changed since the checkpoint into jobs, moves the *)
(* checkpoint and the jobs to disk together, and then reviews the jobs one  *)
(* by one.  Ticks, settings changes and the results of manual reviews are   *)
(* jobs of one serial queue; a tick holds it while models run.  Left out:   *)
(* the grouping of results in rounds, the summary of the last run and the   *)
(* activity shown in the window; notes that disappear; other branches; a    *)
(* tick that finds conflicts, rewritten history or no branch, which changes *)
(* nothing here.                                                            *)
(***************************************************************************)
EXTENDS Naturals, FiniteSets

CONSTANTS
  Notes,
  NoNote,
  Threshold,    \* settings.automatic.commits
  MaxCommits,   \* bound on commits
  MaxUpsets     \* bound on crashes, changes of the settings and transient errors

ASSUME GitAssumption ==
  /\ NoNote \notin Notes /\ Threshold \in Nat \ {0}
  /\ MaxCommits \in Nat /\ MaxUpsets \in Nat

VARIABLES
  head,        \* the last commit; commits are numbered
  changedAt,   \* the last commit that changed each note
  lastMerge,   \* the last commit that is a merge
  auto,        \* the setting, as saved
  branch,      \* git-review-state.json: checkpoint, seen and enabled
  jobs,        \* its jobs, one a note at most
  targets,     \* its targets: reviewed or incomplete, and at which commit
  retries,     \* its retries: notes without a job that a manual review left unfinished
  tick,        \* the operation that holds the queue
  manual,      \* notes under manual review
  settling,    \* a settings change: saved, or waiting for the queue
  upsets,
  anchored,    \* history: the checkpoint of the last anchoring
  paid         \* history: model calls for each job that were not called off

fileVars == <<branch, jobs, targets, retries>>
gitVars == <<head, changedAt, lastMerge>>
reviewVars ==
  <<gitVars, auto, fileVars, tick, manual, settling, upsets, anchored, paid>>
-----------------------------------------------------------------------------
NoJob == [state |-> "none", commit |-> 0, attempts |-> 0]
Job(commit, attempts, state) == [state |-> state, commit |-> commit, attempts |-> attempts]
NoTarget == [state |-> "none", commit |-> 0]
GitIdle == [at |-> "idle", todo |-> {}, note |-> NoNote, aborted |-> FALSE]
GitFree == tick.at = "idle"
Pending(n) == jobs[n].state = "pending"
GitUpset == upsets < MaxUpsets /\ upsets' = upsets + 1

GitInit ==
  /\ head = 0 /\ changedAt = [n \in Notes |-> 0] /\ lastMerge = 0
  /\ auto = TRUE /\ branch = [checkpoint |-> 0, seen |-> 0, enabled |-> TRUE]
  /\ jobs = [n \in Notes |-> NoJob] /\ targets = [n \in Notes |-> NoTarget]
  /\ retries = {} /\ tick = GitIdle /\ manual = {} /\ settling = "no" /\ upsets = 0
  /\ anchored = 0 /\ paid = [n \in Notes |-> 0]

\* The user commits, with or without a merge.
GitCommit(ns, isMerge) ==
  /\ head < MaxCommits /\ head' = head + 1
  /\ changedAt' = [n \in Notes |-> IF n \in ns THEN head + 1 ELSE changedAt[n]]
  /\ lastMerge' = IF isMerge THEN head + 1 ELSE lastMerge
  /\ UNCHANGED <<auto, fileVars, tick, manual, settling, upsets, anchored, paid>>

Anchor ==
  /\ branch' = [checkpoint |-> head, seen |-> head, enabled |-> auto]
  /\ anchored' = head

\* A tick that finds the review switched on or off since the last: what was committed
\* meanwhile is not reviewed, and jobs stay as they are.
GitReanchor ==
  /\ GitFree /\ ~(branch.enabled /\ auto)
  /\ Anchor
  /\ UNCHANGED <<gitVars, auto, jobs, targets, retries, tick, manual, settling, upsets, paid>>

\* A tick takes the notes changed since the checkpoint when there are commits enough
\* or a merge that no tick has seen; then it goes through the pending jobs.
DueForCheck == head - branch.checkpoint >= Threshold \/ lastMerge > branch.seen
\* Mutant: what was committed before the last tick does not count.
ChangedSinceSeen == {n \in Notes : changedAt[n] > branch.seen}
Changed == {n \in Notes : changedAt[n] > branch.checkpoint}
GitTick ==
  /\ GitFree /\ branch.enabled /\ auto
  /\ branch.seen < head \/ DueForCheck \/ \E n \in Notes : Pending(n)
  /\ IF DueForCheck
       THEN /\ jobs' = [n \in Notes |-> IF n \in Changed THEN Job(head, 0, "pending") ELSE jobs[n]]
            /\ paid' = [n \in Notes |-> IF n \in Changed THEN 0 ELSE paid[n]]
            /\ branch' = [branch EXCEPT !.checkpoint = head, !.seen = head]
       ELSE branch' = [branch EXCEPT !.seen = head] /\ UNCHANGED <<jobs, paid>>
  /\ tick' = [GitIdle EXCEPT !.at = "jobs", !.todo = {n \in Notes : jobs'[n].state = "pending"}]
  /\ UNCHANGED <<gitVars, auto, targets, retries, manual, settling, upsets, anchored>>

\* The next job, unless the tick was aborted or the review switched off: one that
\* was interrupted twice has failed.  The attempt is saved before the model runs.
TickGoesOn == tick.at = "jobs" /\ tick.todo # {} /\ ~tick.aborted /\ auto
StartAttempt(n) ==
  /\ jobs' = [jobs EXCEPT ![n].attempts = @ + 1]
  /\ paid' = [paid EXCEPT ![n] = @ + 1]
GitTakeJob(n) ==
  /\ TickGoesOn /\ n \in tick.todo
  /\ IF jobs[n].attempts >= 2
       THEN /\ jobs' = [jobs EXCEPT ![n].state = "failed"]
            /\ tick' = [tick EXCEPT !.todo = @ \ {n}] /\ UNCHANGED paid
       ELSE /\ StartAttempt(n)
            /\ tick' = [tick EXCEPT !.todo = @ \ {n}, !.at = "review", !.note = n]
  /\ UNCHANGED <<gitVars, auto, branch, targets, retries, manual, settling, upsets, anchored>>
GitEndTick ==
  /\ tick.at = "jobs" /\ ~TickGoesOn
  /\ tick' = GitIdle
  /\ UNCHANGED <<gitVars, auto, fileVars, manual, settling, upsets, anchored, paid>>

Reviewing(n) == tick.at = "review" /\ tick.note = n
NextJob == tick' = [tick EXCEPT !.at = "jobs", !.note = NoNote]
Settled == UNCHANGED <<gitVars, auto, branch, manual, settling, upsets, anchored>>

\* The review of the job ends: with a report, by an abort, which gives the attempt
\* back, by an error that is tried once more, or by any other.
GitReported(n) ==
  /\ Reviewing(n) /\ ~tick.aborted /\ n \notin manual
  /\ \E s \in {"reviewed", "incomplete"} :
       targets' = [targets EXCEPT ![n] = [state |-> s, commit |-> jobs[n].commit]]
  /\ jobs' = [jobs EXCEPT ![n] = NoJob] /\ retries' = retries \ {n}
  /\ NextJob /\ UNCHANGED paid /\ Settled
GitCalledOff(n) ==
  /\ Reviewing(n) /\ tick.aborted
  /\ jobs' = [jobs EXCEPT ![n].attempts = @ - 1] /\ paid' = [paid EXCEPT ![n] = @ - 1]
  /\ NextJob /\ UNCHANGED <<targets, retries>> /\ Settled
GitTransient(n) ==
  /\ Reviewing(n) /\ ~tick.aborted /\ n \notin manual /\ jobs[n].attempts < 2 /\ GitUpset
  /\ StartAttempt(n)
  /\ UNCHANGED <<gitVars, auto, branch, manual, settling, anchored, targets, retries, tick>>
GitFailed(n) ==
  /\ Reviewing(n) /\ ~tick.aborted
  /\ jobs' = [jobs EXCEPT ![n].state = "failed"]
  /\ NextJob /\ UNCHANGED <<targets, retries, paid>> /\ Settled

\* A manual review begins, of a note that nobody reviews; its result waits for the
\* queue, and the note counts as under review until then.
GitManual(n) ==
  /\ n \notin manual /\ ~Reviewing(n)
  /\ manual' = manual \cup {n}
  /\ UNCHANGED <<gitVars, auto, fileVars, tick, settling, upsets, anchored, paid>>
CommitOf(n) == IF jobs[n] # NoJob THEN jobs[n].commit ELSE targets[n].commit
Tracked(n) == jobs[n] # NoJob \/ targets[n] # NoTarget
ManualEnds(n) ==
  /\ GitFree /\ n \in manual /\ manual' = manual \ {n}
  /\ UNCHANGED <<gitVars, auto, branch, tick, settling, upsets, anchored, paid>>
GitManualSucceeded(n) ==
  /\ ManualEnds(n)
  /\ \E s \in {"reviewed", "incomplete"} :
       /\ targets' = [targets EXCEPT ![n] =
            IF Tracked(n) THEN [state |-> s, commit |-> CommitOf(n)] ELSE NoTarget]
       /\ retries' = IF ~Tracked(n) /\ s = "incomplete" THEN retries \cup {n} ELSE retries \ {n}
  /\ jobs' = [jobs EXCEPT ![n] = NoJob]
GitManualFailed(n) ==
  /\ ManualEnds(n)
  /\ jobs' = [jobs EXCEPT ![n] = IF Tracked(n) THEN Job(CommitOf(n), 2, "failed") ELSE NoJob]
  /\ targets' = [targets EXCEPT ![n] = NoTarget]
  /\ retries' = IF Tracked(n) THEN retries \ {n} ELSE retries \cup {n}

\* The settings are saved; then the running tick is aborted and a change of the
\* branch waits for the queue, where it finds what the setting is by then.
GitSettings ==
  /\ settling = "no" /\ GitUpset
  /\ settling' = "saved" /\ auto' \in BOOLEAN
  /\ UNCHANGED <<gitVars, fileVars, tick, manual, anchored, paid>>
GitSettingsCalled ==
  /\ settling = "saved"
  /\ settling' = "queued" /\ tick' = [tick EXCEPT !.aborted = ~GitFree]
  /\ UNCHANGED <<gitVars, auto, fileVars, manual, upsets, anchored, paid>>
GitSettingsChanged ==
  /\ settling = "queued" /\ GitFree /\ settling' = "no"
  /\ IF branch.enabled = auto THEN UNCHANGED <<branch, jobs, anchored>>
     ELSE /\ Anchor
          /\ jobs' = [n \in Notes |-> IF jobs[n] = NoJob THEN NoJob ELSE [jobs[n] EXCEPT !.state = "failed"]]
  /\ UNCHANGED <<gitVars, auto, targets, retries, tick, manual, upsets, paid>>

\* The process dies: what was saved is what is left.
GitCrash ==
  /\ GitUpset
  /\ tick' = GitIdle /\ manual' = {} /\ settling' = "no"
  /\ UNCHANGED <<gitVars, auto, fileVars, anchored, paid>>

GitTickStep ==
  \/ GitReanchor \/ GitTick \/ GitEndTick
  \/ \E n \in Notes : GitTakeJob(n) \/ GitReported(n) \/ GitCalledOff(n) \/ GitFailed(n)
GitManualEnd == \E n \in Notes : GitManualSucceeded(n) \/ GitManualFailed(n)

GitNext ==
  \/ \E ns \in SUBSET Notes, isMerge \in BOOLEAN : GitCommit(ns, isMerge)
  \/ GitTickStep \/ GitManualEnd \/ GitSettings \/ GitSettingsCalled \/ GitSettingsChanged
  \/ \E n \in Notes : GitTransient(n) \/ GitManual(n)
  \/ GitCrash

GitSpec == GitInit /\ [][GitNext]_reviewVars
-----------------------------------------------------------------------------
GitTypeOK ==
  /\ head \in 0..MaxCommits /\ changedAt \in [Notes -> 0..MaxCommits]
  /\ branch.checkpoint <= branch.seen /\ branch.seen <= head
  /\ jobs \in [Notes -> [state : {"none", "pending", "failed"}, commit : 0..MaxCommits, attempts : 0..2]]
  /\ targets \in [Notes -> [state : {"none", "reviewed", "incomplete"}, commit : 0..MaxCommits]]
  /\ settling \in {"no", "saved", "queued"} /\ retries \subseteq Notes /\ manual \subseteq Notes /\ tick.todo \subseteq Notes
  /\ tick.at = "review" => Pending(tick.note)

\* No change of a note is lost: what was committed since the last anchoring lies
\* beyond the checkpoint, or has a job or a result at a commit no older
\* (git-scheduler.ts:306-307, and every other change of jobs and targets).
GitAccounted ==
  \A n \in Notes : changedAt[n] > anchored =>
    \/ changedAt[n] > branch.checkpoint
    \/ jobs[n].commit >= changedAt[n] \/ targets[n].commit >= changedAt[n]

\* At most two model calls are paid for a job, crashes included; only an abort gives
\* one back (git-scheduler.ts:330, 340-341, 353).
GitPaidTwice == \A n \in Notes : paid[n] <= 2

\* No change of a note goes unreviewed, and none is paid for again and again.
GitSafe == GitTypeOK /\ GitAccounted /\ GitPaidTwice
=============================================================================
