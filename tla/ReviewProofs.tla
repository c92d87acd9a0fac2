------------------------------ MODULE ReviewProofs ------------------------------
(***************************************************************************)
(* Theorems about work that counts when it was reviewed.  GitReview, for any  *)
(* notes, commits, thresholds, crashes and changes of the settings: no change *)
(* of a note is lost, and no job is paid for more than twice.  TaskExecution, *)
(* for any runs, calls, edits, aborts and crashes: what is done was proven,   *)
(* nobody wrote meanwhile, and who was told to stop begins nothing.          *)
(***************************************************************************)
EXTENDS GitReview, TaskExecution, FiniteSetTheorems, TLAPS

-----------------------------------------------------------------------------
(* GitReview *)
Commits == 0..MaxCommits
JobRecord == [state : {"none", "pending", "failed"}, commit : Commits, attempts : 0..2]
TargetRecord == [state : {"none", "reviewed", "incomplete"}, commit : Commits]
Branch == [checkpoint : Commits, seen : Commits, enabled : BOOLEAN]
Tick == [at : {"idle", "jobs", "review"}, todo : SUBSET Notes, note : Notes \cup {NoNote},
         aborted : BOOLEAN]

GitTyped ==
  /\ head \in Commits /\ changedAt \in [Notes -> Commits] /\ lastMerge \in Nat /\ auto \in BOOLEAN
  /\ branch \in Branch /\ jobs \in [Notes -> JobRecord] /\ targets \in [Notes -> TargetRecord]
  /\ retries \subseteq Notes /\ manual \subseteq Notes /\ tick \in Tick
  /\ settling \in {"no", "saved", "queued"} /\ upsets \in Nat
  /\ anchored \in Commits /\ paid \in [Notes -> Nat]

\* Commits are seen in order.
InOrder ==
  /\ branch.checkpoint <= branch.seen /\ branch.seen <= head /\ anchored <= head
  /\ \A n \in Notes : changedAt[n] <= head /\ jobs[n].commit <= head /\ targets[n].commit <= head

\* A job is of a commit no older than that of the result before it.
JobsNewer ==
  \A n \in Notes :
    /\ jobs[n].state = "none" => jobs[n] = NoJob
    /\ jobs[n].state # "none" => jobs[n].commit >= targets[n].commit
    /\ targets[n].state = "none" => targets[n] = NoTarget

\* Nobody takes a job away from the tick that goes through the pending ones.
TickOwns ==
  /\ tick.at = "idle" => tick.todo = {}
  /\ \A n \in tick.todo : Pending(n) /\ tick.note # n
  /\ tick.at = "review" =>
       tick.note \in Notes /\ Pending(tick.note) /\ jobs[tick.note].attempts >= 1

\* What is paid for a job that is not done is what it was attempted.
PaidAttempts ==
  \A n \in Notes : paid[n] <= 2 /\ (Pending(n) => paid[n] = jobs[n].attempts)

GitInv == GitTyped /\ InOrder /\ JobsNewer /\ TickOwns /\ PaidAttempts /\ GitAccounted
-----------------------------------------------------------------------------
LEMMA GitInvInit == GitInit => GitInv
<1> SUFFICES ASSUME GitInit PROVE GitInv
  OBVIOUS
<1> USE GitAssumption DEF GitInit
<1>1. GitTyped
  BY DEF GitTyped, Commits, JobRecord, TargetRecord, Branch, Tick, NoJob, NoTarget, GitIdle
<1>2. InOrder /\ JobsNewer /\ GitAccounted
  BY DEF InOrder, JobsNewer, GitAccounted, NoJob, NoTarget
<1>3. TickOwns /\ PaidAttempts
  BY DEF TickOwns, PaidAttempts, GitIdle, Pending, NoJob
<1> QED
  BY <1>1, <1>2, <1>3 DEF GitInv

LEMMA GitTypes ==
  ASSUME GitInv
  PROVE /\ head \in Nat /\ anchored \in Nat
        /\ branch.checkpoint \in Nat /\ branch.seen \in Nat /\ branch.enabled \in BOOLEAN
        /\ \A n \in Notes :
             /\ changedAt[n] \in Nat /\ paid[n] \in Nat
             /\ jobs[n].commit \in Nat /\ jobs[n].attempts \in 0..2
             /\ targets[n].commit \in Nat
BY GitAssumption DEF GitInv, GitTyped, Commits, JobRecord, TargetRecord, Branch

\* The notes of a tick.
LEMMA TickNotes ==
  ASSUME GitInv
  PROVE /\ tick \in Tick /\ tick.todo \subseteq Notes
        /\ \A m \in tick.todo : m # NoNote /\ Pending(m) /\ tick.note # m
<1>1. tick \in Tick /\ tick.todo \subseteq Notes
  BY DEF GitInv, GitTyped, Tick
<1>2. \A m \in tick.todo : m # NoNote
  BY <1>1, GitAssumption
<1>3. \A m \in tick.todo : Pending(m) /\ tick.note # m
  BY DEF GitInv, TickOwns
<1> QED
  BY <1>1, <1>2, <1>3

LEMMA GitCommitStep ==
  ASSUME GitInv, NEW ns \in SUBSET Notes, NEW isMerge \in BOOLEAN, GitCommit(ns, isMerge)
  PROVE GitInv'
<1>1. /\ head' = head + 1 /\ head' \in Commits
      /\ \A n \in Notes : changedAt'[n] = IF n \in ns THEN head + 1 ELSE changedAt[n]
      /\ UNCHANGED <<auto, fileVars, tick, manual, settling, upsets, anchored, paid>>
  BY GitAssumption DEF GitCommit, GitInv, GitTyped, Commits
<1>2. GitTyped'
  BY <1>1, GitAssumption DEF GitCommit, GitInv, GitTyped, Commits, fileVars
<1>3. InOrder'
  BY <1>1, GitTypes DEF GitInv, InOrder, fileVars
<1>4. JobsNewer' /\ TickOwns' /\ PaidAttempts'
  BY <1>1 DEF GitInv, JobsNewer, TickOwns, PaidAttempts, Pending, fileVars
<1>5. GitAccounted'
  BY <1>1, GitTypes DEF GitInv, GitAccounted, InOrder, fileVars
<1> QED
  BY <1>2, <1>3, <1>4, <1>5 DEF GitInv

\* An anchoring: nothing is owed any more.
LEMMA AnchorStep ==
  ASSUME GitInv, Anchor, UNCHANGED <<gitVars, auto, targets, retries, tick, manual, upsets, paid>>,
         settling' \in {"no", "saved", "queued"},
         UNCHANGED jobs \/
           (/\ tick.at = "idle"
            /\ jobs' = [n \in Notes |-> IF jobs[n] = NoJob THEN NoJob ELSE [jobs[n] EXCEPT !.state = "failed"]])
  PROVE GitInv'
<1>1. /\ branch' \in Branch /\ branch'.checkpoint = head /\ branch'.seen = head /\ anchored' = head
      /\ UNCHANGED <<head, changedAt, lastMerge>>
  BY DEF Anchor, GitInv, GitTyped, Branch, gitVars
<1>2. /\ jobs' \in [Notes -> JobRecord]
      /\ \A n \in Notes : /\ jobs'[n].commit = jobs[n].commit
                          /\ jobs'[n].state = "none" <=> jobs[n].state = "none"
                          /\ jobs'[n].state = "none" => jobs'[n] = NoJob
                          /\ Pending(n)' => jobs'[n] = jobs[n]
  <2>1. CASE UNCHANGED jobs
    BY <2>1 DEF GitInv, GitTyped, JobsNewer, Pending
  <2>2. CASE jobs' = [n \in Notes |-> IF jobs[n] = NoJob THEN NoJob ELSE [jobs[n] EXCEPT !.state = "failed"]]
    <3>1. ASSUME NEW n \in Notes
          PROVE /\ jobs'[n] \in JobRecord /\ jobs'[n].commit = jobs[n].commit
                /\ jobs'[n].state = "none" <=> jobs[n].state = "none"
                /\ jobs'[n].state = "none" => jobs'[n] = NoJob
                /\ jobs'[n].state # "pending"
      <4>1. jobs[n] \in JobRecord /\ (jobs[n].state = "none" <=> jobs[n] = NoJob)
        BY DEF GitInv, GitTyped, JobsNewer, NoJob
      <4> QED
        BY <2>2, <4>1 DEF JobRecord, NoJob
    <3> QED
      BY <2>2, <3>1 DEF Pending
  <2> QED
    BY <2>1, <2>2
<1>3. GitTyped'
  BY <1>1, <1>2 DEF GitInv, GitTyped
<1>4. InOrder'
  BY <1>1, <1>2, GitTypes DEF GitInv, InOrder
<1>5. JobsNewer'
  BY <1>2 DEF GitInv, JobsNewer
<1>6. TickOwns'
  <2>1. CASE UNCHANGED jobs
    BY <2>1 DEF GitInv, TickOwns, Pending
  <2>2. CASE tick.at = "idle"
    BY <2>2 DEF GitInv, TickOwns
  <2> QED
    BY <2>1, <2>2
<1>7. PaidAttempts'
  BY <1>2 DEF GitInv, PaidAttempts, Pending
<1>8. GitAccounted'
  BY <1>1, GitTypes DEF GitInv, GitAccounted, InOrder
<1> QED
  BY <1>3, <1>4, <1>5, <1>6, <1>7, <1>8 DEF GitInv

LEMMA GitReanchorStep == ASSUME GitInv, GitReanchor PROVE GitInv'
BY AnchorStep DEF GitReanchor, GitInv, GitTyped

LEMMA GitSettingsChangedStep == ASSUME GitInv, GitSettingsChanged PROVE GitInv'
<1>1. CASE branch.enabled = auto
  <2>1. UNCHANGED <<gitVars, auto, fileVars, tick, manual, upsets, anchored, paid>> /\ settling' = "no"
    BY <1>1 DEF GitSettingsChanged, fileVars
  <2> QED
    BY <2>1 DEF GitInv, GitTyped, InOrder, JobsNewer, TickOwns, PaidAttempts, GitAccounted, Pending,
                fileVars, gitVars
<1>2. CASE branch.enabled # auto
  BY <1>2, AnchorStep DEF GitSettingsChanged, GitFree
<1> QED
  BY <1>1, <1>2

\* A tick that is due makes new jobs of what changed since the checkpoint.
LEMMA GitTickStepKeeps == ASSUME GitInv, GitTick PROVE GitInv'
<1>1. /\ tick' = [GitIdle EXCEPT !.at = "jobs", !.todo = {n \in Notes : jobs'[n].state = "pending"}]
      /\ UNCHANGED <<gitVars, auto, targets, retries, manual, settling, upsets, anchored>>
  BY DEF GitTick
<1>2. tick' \in Tick /\ tick'.at = "jobs" /\ tick'.note = NoNote /\ \A n \in tick'.todo : Pending(n)'
  BY <1>1 DEF GitIdle, Tick, Pending
<1>3. TickOwns'
  BY <1>2, GitAssumption DEF TickOwns, Tick
<1>4. CASE DueForCheck
  <2>1. /\ jobs' = [n \in Notes |-> IF n \in Changed THEN Job(head, 0, "pending") ELSE jobs[n]]
        /\ paid' = [n \in Notes |-> IF n \in Changed THEN 0 ELSE paid[n]]
        /\ branch' = [branch EXCEPT !.checkpoint = head, !.seen = head]
    BY <1>4 DEF GitTick
  <2>2. branch' \in Branch /\ branch'.checkpoint = head /\ branch'.seen = head
    BY <2>1 DEF GitInv, GitTyped, Branch
  <2>3. jobs' \in [Notes -> JobRecord] /\ paid' \in [Notes -> Nat]
    BY <2>1 DEF GitInv, GitTyped, JobRecord, Job
  <2>4. GitTyped'
    BY <1>1, <1>2, <2>2, <2>3 DEF GitInv, GitTyped, gitVars
  <2>5. InOrder'
    BY <1>1, <2>1, <2>2, GitTypes DEF GitInv, InOrder, Job, gitVars
  <2>6. JobsNewer'
    <3> SUFFICES ASSUME NEW n \in Notes
                 PROVE /\ jobs'[n].state = "none" => jobs'[n] = NoJob
                       /\ jobs'[n].state # "none" => jobs'[n].commit >= targets[n].commit
      BY <1>1 DEF GitInv, JobsNewer
    <3>1. CASE n \in Changed
      BY <2>1, <3>1 DEF Job, GitInv, InOrder
    <3>2. CASE n \notin Changed
      BY <2>1, <3>2 DEF GitInv, JobsNewer
    <3> QED
      BY <3>1, <3>2
  <2>7. PaidAttempts'
    BY <2>1, GitTypes DEF GitInv, PaidAttempts, Pending, Job
  <2>8. GitAccounted'
    <3> SUFFICES ASSUME NEW n \in Notes, changedAt[n] > anchored
                 PROVE jobs'[n].commit >= changedAt[n] \/ targets[n].commit >= changedAt[n]
      BY <1>1, <2>2 DEF GitAccounted, gitVars
    <3>1. CASE n \in Changed
      BY <2>1, <3>1, GitTypes DEF Job, GitInv, InOrder
    <3>2. CASE n \notin Changed
      BY <2>1, <3>2, GitTypes DEF GitInv, GitAccounted, Changed
    <3> QED
      BY <3>1, <3>2
  <2> QED
    BY <1>3, <2>4, <2>5, <2>6, <2>7, <2>8 DEF GitInv
<1>5. CASE ~DueForCheck
  <2>1. branch' = [branch EXCEPT !.seen = head] /\ UNCHANGED <<jobs, paid>>
    BY <1>5 DEF GitTick
  <2>2. branch' \in Branch /\ branch'.checkpoint = branch.checkpoint /\ branch'.seen = head
    BY <2>1 DEF GitInv, GitTyped, Branch
  <2>3. GitTyped'
    BY <1>1, <1>2, <2>1, <2>2 DEF GitInv, GitTyped, gitVars
  <2>4. InOrder'
    BY <1>1, <2>1, <2>2, GitTypes DEF GitInv, InOrder, gitVars
  <2>5. JobsNewer' /\ PaidAttempts' /\ GitAccounted'
    BY <1>1, <2>1, <2>2 DEF GitInv, JobsNewer, PaidAttempts, GitAccounted, Pending, gitVars
  <2> QED
    BY <1>3, <2>3, <2>4, <2>5 DEF GitInv
<1> QED
  BY <1>4, <1>5

\* What changes the job of one note, its result and its cost, and nothing of another note;
\* the job or the result that comes is no older than those that were.
OneJobStep(n) ==
  /\ jobs' \in [Notes -> JobRecord] /\ targets' \in [Notes -> TargetRecord]
  /\ paid' \in [Notes -> Nat] /\ paid'[n] <= 2
  /\ \A m \in Notes :
       m # n => jobs'[m] = jobs[m] /\ targets'[m] = targets[m] /\ paid'[m] = paid[m]
  /\ UNCHANGED <<gitVars, branch, anchored>>
  /\ jobs'[n].commit <= head /\ targets'[n].commit <= head
  /\ jobs'[n].state = "none" => jobs'[n] = NoJob
  /\ targets'[n].state = "none" => targets'[n] = NoTarget
  /\ jobs'[n].state # "none" => jobs'[n].commit >= targets'[n].commit
  /\ jobs'[n].state = "pending" => paid'[n] = jobs'[n].attempts
  /\ \/ jobs'[n].commit >= jobs[n].commit /\ jobs'[n].commit >= targets[n].commit
     \/ targets'[n].commit >= jobs[n].commit /\ targets'[n].commit >= targets[n].commit

LEMMA OneJob ==
  ASSUME GitInv, NEW n \in Notes, OneJobStep(n)
  PROVE InOrder' /\ JobsNewer' /\ PaidAttempts' /\ GitAccounted'
<1>1. /\ \A m \in Notes : m # n => jobs'[m] = jobs[m] /\ targets'[m] = targets[m] /\ paid'[m] = paid[m]
      /\ jobs'[n] \in JobRecord /\ targets'[n] \in TargetRecord /\ paid'[n] \in Nat /\ paid'[n] <= 2
      /\ jobs'[n].commit <= head /\ targets'[n].commit <= head
      /\ jobs'[n].state = "none" => jobs'[n] = NoJob
      /\ targets'[n].state = "none" => targets'[n] = NoTarget
      /\ jobs'[n].state # "none" => jobs'[n].commit >= targets'[n].commit
      /\ jobs'[n].state = "pending" => paid'[n] = jobs'[n].attempts
      /\ \/ jobs'[n].commit >= jobs[n].commit /\ jobs'[n].commit >= targets[n].commit
         \/ targets'[n].commit >= jobs[n].commit /\ targets'[n].commit >= targets[n].commit
  BY DEF OneJobStep
<1>2. UNCHANGED <<head, changedAt, branch, anchored>>
  BY DEF OneJobStep, gitVars
<1>3. InOrder'
  BY <1>1, <1>2 DEF GitInv, InOrder
<1>4. JobsNewer'
  BY <1>1 DEF GitInv, JobsNewer
<1>5. PaidAttempts'
  BY <1>1 DEF GitInv, PaidAttempts, Pending
<1>6. GitAccounted'
  <2>1. jobs'[n].commit \in Nat /\ targets'[n].commit \in Nat
    BY <1>1, GitAssumption DEF JobRecord, TargetRecord, Commits
  <2> SUFFICES ASSUME NEW m \in Notes, changedAt[m] > anchored, ~(changedAt[m] > branch.checkpoint)
               PROVE jobs'[m].commit >= changedAt[m] \/ targets'[m].commit >= changedAt[m]
    BY <1>2 DEF GitAccounted
  <2>2. jobs[m].commit >= changedAt[m] \/ targets[m].commit >= changedAt[m]
    BY DEF GitInv, GitAccounted
  <2>3. CASE m = n
    BY <1>1, <2>1, <2>2, <2>3, GitTypes
  <2>4. CASE m # n
    BY <1>1, <2>2, <2>4
  <2> QED
    BY <2>3, <2>4
<1> QED
  BY <1>3, <1>4, <1>5, <1>6
-----------------------------------------------------------------------------
LEMMA Attempted ==
  ASSUME GitInv, NEW n \in Notes, Pending(n), jobs[n].attempts < 2, StartAttempt(n),
         UNCHANGED <<gitVars, branch, targets, anchored>>
  PROVE /\ jobs' \in [Notes -> JobRecord] /\ paid' \in [Notes -> Nat]
        /\ InOrder' /\ JobsNewer' /\ PaidAttempts' /\ GitAccounted'
        /\ \A m \in Notes : Pending(m) => Pending(m)'
        /\ jobs'[n].attempts >= 1
<1> DEFINE j == [jobs[n] EXCEPT !.attempts = @ + 1]
<1>1. jobs[n] \in JobRecord /\ jobs[n].state = "pending" /\ paid[n] = jobs[n].attempts
  BY DEF GitInv, GitTyped, PaidAttempts, Pending
<1>2. /\ j \in JobRecord /\ j.commit = jobs[n].commit /\ j.state = "pending"
      /\ j.attempts = jobs[n].attempts + 1 /\ j.attempts \in 0..2 /\ j.attempts >= 1
  BY <1>1 DEF JobRecord
<1>3. jobs' = [jobs EXCEPT ![n] = j] /\ paid' = [paid EXCEPT ![n] = j.attempts]
  BY <1>1, <1>2 DEF StartAttempt, GitInv, GitTyped
<1>4. targets[n] \in TargetRecord
  BY DEF GitInv, GitTyped
<1>5. /\ jobs[n].commit <= head /\ targets[n].commit <= head
      /\ jobs[n].commit >= targets[n].commit /\ (targets[n].state = "none" => targets[n] = NoTarget)
  BY <1>1 DEF GitInv, InOrder, JobsNewer
<1>6. jobs[n].commit \in Nat /\ targets[n].commit \in Nat
  BY GitTypes
<1> HIDE DEF j
<1>7. /\ jobs' \in [Notes -> JobRecord] /\ paid' \in [Notes -> Nat]
      /\ \A m \in Notes : m # n => jobs'[m] = jobs[m] /\ paid'[m] = paid[m]
      /\ jobs'[n] = j /\ paid'[n] = j.attempts
  BY <1>2, <1>3 DEF GitInv, GitTyped
<1>8. OneJobStep(n)
  BY <1>2, <1>4, <1>5, <1>6, <1>7 DEF OneJobStep, GitInv, GitTyped
<1>9. \A m \in Notes : Pending(m) => Pending(m)'
  BY <1>2, <1>7 DEF Pending
<1>10. jobs'[n].attempts >= 1
  BY <1>2, <1>7
<1> QED
  BY <1>7, <1>8, <1>9, <1>10, OneJob

\* The tick turns away from a note whose job is over, or not yet begun.
LEMMA GitTakeJobStep ==
  ASSUME GitInv, NEW n \in Notes, GitTakeJob(n) PROVE GitInv'
<1>1. /\ tick \in Tick /\ tick.at = "jobs" /\ n \in tick.todo /\ Pending(n)
      /\ jobs[n] \in JobRecord /\ jobs[n].state = "pending"
  BY DEF GitTakeJob, TickGoesOn, GitInv, GitTyped, TickOwns, Pending
<1>2. UNCHANGED <<gitVars, auto, branch, targets, retries, manual, settling, upsets, anchored>>
  BY DEF GitTakeJob
<1>3. CASE jobs[n].attempts >= 2
  <2> DEFINE j == [jobs[n] EXCEPT !.state = "failed"]
  <2>1. j \in JobRecord /\ j.commit = jobs[n].commit /\ j.state = "failed"
    BY <1>1 DEF JobRecord
  <2>2. /\ jobs' = [jobs EXCEPT ![n] = j] /\ UNCHANGED paid
        /\ tick' = [tick EXCEPT !.todo = @ \ {n}]
    BY <1>2, <1>3 DEF GitTakeJob
  <2>3. targets[n] \in TargetRecord /\ paid[n] \in 0..2
    <3>1. paid[n] \in Nat /\ paid[n] <= 2
      BY GitTypes DEF GitInv, PaidAttempts
    <3> QED
      BY <3>1 DEF GitInv, GitTyped
  <2>4. /\ jobs[n].commit <= head /\ targets[n].commit <= head
        /\ jobs[n].commit >= targets[n].commit /\ (targets[n].state = "none" => targets[n] = NoTarget)
    BY <1>1 DEF GitInv, InOrder, JobsNewer
  <2>5. jobs[n].commit \in Nat
    BY GitTypes
  <2> HIDE DEF j
  <2>10. /\ jobs' \in [Notes -> JobRecord] /\ jobs'[n] = j
         /\ \A m \in Notes : m # n => jobs'[m] = jobs[m]
    BY <2>1, <2>2 DEF GitInv, GitTyped
  <2>11. OneJobStep(n)
    BY <1>2, <2>1, <2>2, <2>3, <2>4, <2>5, <2>10 DEF OneJobStep, GitInv, GitTyped
  <2>6. InOrder' /\ JobsNewer' /\ PaidAttempts' /\ GitAccounted'
    BY <2>11, OneJob
  <2>7. tick' \in Tick /\ tick'.at = "jobs" /\ tick'.todo = tick.todo \ {n} /\ tick'.note = tick.note
    BY <1>1, <2>2 DEF Tick
  <2>8. TickOwns'
    <3>1. \A m \in tick'.todo : Pending(m)' /\ tick'.note # m
      BY <2>7, <2>10, TickNotes DEF Pending
    <3> QED
      BY <2>7, <3>1 DEF TickOwns
  <2>9. GitTyped'
    BY <1>2, <2>2, <2>7, <2>10 DEF GitInv, GitTyped, gitVars
  <2> QED
    BY <2>6, <2>8, <2>9 DEF GitInv
<1>4. CASE ~(jobs[n].attempts >= 2)
  <2>1. /\ StartAttempt(n) /\ jobs[n].attempts < 2
        /\ tick' = [tick EXCEPT !.todo = @ \ {n}, !.at = "review", !.note = n]
    BY <1>4, GitTypes DEF GitTakeJob
  <2>2. /\ jobs' \in [Notes -> JobRecord] /\ paid' \in [Notes -> Nat]
        /\ InOrder' /\ JobsNewer' /\ PaidAttempts' /\ GitAccounted'
        /\ \A m \in Notes : Pending(m) => Pending(m)'
        /\ jobs'[n].attempts >= 1
    BY <1>1, <1>2, <2>1, Attempted
  <2>3. tick' \in Tick /\ tick'.at = "review" /\ tick'.todo = tick.todo \ {n} /\ tick'.note = n
    BY <1>1, <2>1 DEF Tick
  <2>4. TickOwns'
    <3>1. \A m \in tick'.todo : Pending(m)' /\ tick'.note # m
      BY <2>2, <2>3, TickNotes
    <3> QED
      BY <1>1, <2>2, <2>3, <3>1 DEF TickOwns
  <2>5. GitTyped'
    BY <1>2, <2>2, <2>3 DEF GitInv, GitTyped, gitVars
  <2> QED
    BY <2>2, <2>4, <2>5 DEF GitInv
<1> QED
  BY <1>3, <1>4

LEMMA GitTransientStep ==
  ASSUME GitInv, NEW n \in Notes, GitTransient(n) PROVE GitInv'
<1>1. /\ Pending(n) /\ jobs[n].attempts < 2 /\ tick.note = n /\ StartAttempt(n)
      /\ UNCHANGED <<gitVars, auto, branch, manual, settling, anchored, targets, retries, tick>>
      /\ upsets' = upsets + 1
  BY DEF GitTransient, Reviewing, GitUpset, GitInv, TickOwns
<1>2. /\ jobs' \in [Notes -> JobRecord] /\ paid' \in [Notes -> Nat]
      /\ InOrder' /\ JobsNewer' /\ PaidAttempts' /\ GitAccounted'
      /\ \A m \in Notes : Pending(m) => Pending(m)'
      /\ jobs'[n].attempts >= 1
  BY <1>1, Attempted
<1>3. TickOwns'
  BY <1>1, <1>2 DEF GitInv, GitTyped, TickOwns, Tick
<1>4. GitTyped'
  BY <1>1, <1>2 DEF GitInv, GitTyped, gitVars
<1> QED
  BY <1>2, <1>3, <1>4 DEF GitInv

\* A review that ends gives the queue of the tick back.
LEMMA NextJobOwns ==
  ASSUME GitInv, NEW n \in Notes, Reviewing(n), NextJob,
         \A m \in Notes : m # n => jobs'[m] = jobs[m]
  PROVE tick' \in Tick /\ TickOwns'
<1>1. tick \in Tick /\ tick.note = n /\ tick.at = "review"
  BY DEF Reviewing, GitInv, GitTyped
<1>2. tick' \in Tick /\ tick'.at = "jobs" /\ tick'.todo = tick.todo /\ tick'.note = NoNote
  BY <1>1 DEF NextJob, Tick
<1>3. n \notin tick.todo
  BY <1>1 DEF GitInv, TickOwns
<1>4. \A m \in tick'.todo : Pending(m)' /\ tick'.note # m
  BY <1>2, <1>3, TickNotes DEF Pending
<1> QED
  BY <1>2, <1>4 DEF TickOwns

LEMMA GitReportedStep ==
  ASSUME GitInv, NEW n \in Notes, GitReported(n) PROVE GitInv'
<1>1. PICK s \in {"reviewed", "incomplete"} :
        targets' = [targets EXCEPT ![n] = [state |-> s, commit |-> jobs[n].commit]]
  BY DEF GitReported
<1>2. /\ jobs' = [jobs EXCEPT ![n] = NoJob] /\ retries' = retries \ {n}
      /\ Reviewing(n) /\ NextJob /\ UNCHANGED paid /\ Settled
  BY DEF GitReported
<1>3. /\ Pending(n) /\ jobs[n] \in JobRecord /\ NoJob \in JobRecord /\ NoJob.state = "none" /\ NoJob.commit = 0
  BY <1>2, GitAssumption DEF GitInv, GitTyped, TickOwns, Reviewing, JobRecord, NoJob, Commits
<1> DEFINE t == [state |-> s, commit |-> jobs[n].commit]
<1>4. t \in TargetRecord /\ t.state # "none" /\ t.commit = jobs[n].commit
  BY <1>3 DEF TargetRecord, JobRecord
<1>5. /\ jobs[n].commit <= head /\ jobs[n].commit >= targets[n].commit
      /\ jobs[n].commit \in Nat /\ head \in Nat
  BY <1>3, GitTypes DEF GitInv, InOrder, JobsNewer, Pending
<1>6. UNCHANGED paid /\ paid[n] \in 0..2
  BY <1>2, GitTypes DEF GitInv, PaidAttempts
<1>7. UNCHANGED <<gitVars, branch, anchored, auto, manual, settling, upsets>>
  BY <1>2 DEF Settled
<1>8. /\ jobs' \in [Notes -> JobRecord] /\ targets' \in [Notes -> TargetRecord]
      /\ jobs'[n] = NoJob /\ targets'[n] = t
      /\ \A m \in Notes : m # n => jobs'[m] = jobs[m] /\ targets'[m] = targets[m]
  BY <1>1, <1>2, <1>3, <1>4 DEF GitInv, GitTyped
<1> HIDE DEF t
<1>11. OneJobStep(n)
  BY <1>3, <1>4, <1>5, <1>6, <1>7, <1>8 DEF OneJobStep, GitInv, GitTyped
<1>12. InOrder' /\ JobsNewer' /\ PaidAttempts' /\ GitAccounted'
  BY <1>11, OneJob
<1>9. tick' \in Tick /\ TickOwns'
  BY <1>2, <1>8, NextJobOwns
<1>10. GitTyped'
  BY <1>2, <1>6, <1>7, <1>8, <1>9 DEF GitInv, GitTyped, gitVars
<1> QED
  BY <1>9, <1>10, <1>12 DEF GitInv

LEMMA GitFailedStep ==
  ASSUME GitInv, NEW n \in Notes, GitFailed(n) PROVE GitInv'
<1> DEFINE j == [jobs[n] EXCEPT !.state = "failed"]
<1>1. /\ jobs' = [jobs EXCEPT ![n] = j] /\ Reviewing(n) /\ NextJob
  BY DEF GitFailed, Settled
<1>2. Pending(n) /\ jobs[n] \in JobRecord
  BY <1>1 DEF GitInv, GitTyped, TickOwns, Reviewing
<1>3. j \in JobRecord /\ j.commit = jobs[n].commit /\ j.state = "failed"
  BY <1>2 DEF JobRecord
<1>4. /\ jobs[n].commit <= head /\ targets[n].commit <= head /\ jobs[n].commit \in Nat
      /\ jobs[n].commit >= targets[n].commit /\ (targets[n].state = "none" => targets[n] = NoTarget)
      /\ paid[n] \in Nat /\ paid[n] <= 2
  BY <1>2, GitTypes DEF GitInv, InOrder, JobsNewer, PaidAttempts, Pending
<1> HIDE DEF j
<1>5. /\ jobs' \in [Notes -> JobRecord] /\ jobs'[n] = j
      /\ \A m \in Notes : m # n => jobs'[m] = jobs[m]
  BY <1>1, <1>3 DEF GitInv, GitTyped
<1>6. UNCHANGED <<gitVars, auto, branch, targets, retries, manual, settling, upsets, anchored, paid>>
  BY DEF GitFailed, Settled
<1>7. OneJobStep(n)
  BY <1>3, <1>4, <1>5, <1>6 DEF OneJobStep, GitInv, GitTyped
<1>8. tick' \in Tick /\ TickOwns'
  BY <1>1, <1>5, NextJobOwns
<1>9. GitTyped'
  BY <1>5, <1>6, <1>8 DEF GitInv, GitTyped, gitVars
<1> QED
  BY <1>7, <1>8, <1>9, OneJob DEF GitInv

\* The abort gives the attempt back.
LEMMA GitCalledOffStep ==
  ASSUME GitInv, NEW n \in Notes, GitCalledOff(n) PROVE GitInv'
<1> DEFINE j == [jobs[n] EXCEPT !.attempts = @ - 1]
<1>1. /\ jobs' = [jobs EXCEPT ![n] = j] /\ paid' = [paid EXCEPT ![n] = @ - 1]
      /\ Reviewing(n) /\ NextJob
  BY DEF GitCalledOff
<1>2. UNCHANGED <<gitVars, auto, branch, targets, retries, manual, settling, upsets, anchored>>
  BY DEF GitCalledOff, Settled
<1>3. Pending(n) /\ jobs[n] \in JobRecord /\ jobs[n].attempts >= 1
  BY <1>1 DEF GitInv, GitTyped, TickOwns, Reviewing
<1>4. paid[n] = jobs[n].attempts
  BY <1>3 DEF GitInv, PaidAttempts
<1>5. /\ j \in JobRecord /\ j.commit = jobs[n].commit /\ j.state = "pending"
      /\ j.attempts = jobs[n].attempts - 1 /\ j.attempts \in 0..2
  BY <1>3 DEF JobRecord, Pending
<1>6. /\ jobs[n].commit <= head /\ targets[n].commit <= head /\ jobs[n].commit \in Nat
      /\ jobs[n].commit >= targets[n].commit /\ (targets[n].state = "none" => targets[n] = NoTarget)
  BY <1>3, GitTypes DEF GitInv, InOrder, JobsNewer, Pending
<1> HIDE DEF j
<1>7. /\ jobs' \in [Notes -> JobRecord] /\ jobs'[n] = j
      /\ \A m \in Notes : m # n => jobs'[m] = jobs[m]
  BY <1>1, <1>5 DEF GitInv, GitTyped
<1>8. /\ paid' \in [Notes -> Nat] /\ paid'[n] = j.attempts
      /\ \A m \in Notes : m # n => paid'[m] = paid[m]
  BY <1>1, <1>3, <1>4, <1>5, GitTypes DEF GitInv, GitTyped
<1>9. OneJobStep(n)
  BY <1>2, <1>5, <1>6, <1>7, <1>8 DEF OneJobStep, GitInv, GitTyped
<1>10. tick' \in Tick /\ TickOwns'
  BY <1>1, <1>7, NextJobOwns
<1>11. GitTyped'
  BY <1>2, <1>7, <1>8, <1>10 DEF GitInv, GitTyped, gitVars
<1> QED
  BY <1>9, <1>10, <1>11, OneJob DEF GitInv
-----------------------------------------------------------------------------
\* Steps that leave the file alone.
LEMMA FileKept ==
  ASSUME GitInv, UNCHANGED <<gitVars, fileVars, anchored, paid>>, auto' \in BOOLEAN,
         tick' \in Tick, tick'.todo \subseteq tick.todo, tick'.note = tick.note \/ tick'.note = NoNote,
         tick'.at = "idle" => tick'.todo = {}, tick'.at = "review" => tick.at = "review" /\ tick'.note = tick.note,
         manual' \subseteq Notes, settling' \in {"no", "saved", "queued"}, upsets' \in Nat
  PROVE GitInv'
<1>1. /\ UNCHANGED <<head, changedAt, lastMerge, branch, jobs, targets, retries>>
  BY DEF gitVars, fileVars
<1>2. GitTyped'
  BY <1>1 DEF GitInv, GitTyped
<1>3. InOrder' /\ JobsNewer' /\ PaidAttempts' /\ GitAccounted'
  BY <1>1 DEF GitInv, InOrder, JobsNewer, PaidAttempts, GitAccounted, Pending
<1>4. \A m \in tick'.todo : Pending(m)' /\ tick'.note # m
  BY <1>1, TickNotes DEF Pending
<1>5. TickOwns'
  BY <1>1, <1>4 DEF GitInv, TickOwns, Pending
<1> QED
  BY <1>2, <1>3, <1>5 DEF GitInv

LEMMA GitEndTickStep == ASSUME GitInv, GitEndTick PROVE GitInv'
<1>1. GitIdle \in Tick /\ GitIdle.todo = {} /\ GitIdle.note = NoNote /\ GitIdle.at = "idle"
  BY DEF GitIdle, Tick
<1> QED
  BY <1>1, FileKept DEF GitEndTick, GitInv, GitTyped

LEMMA GitCrashStep == ASSUME GitInv, GitCrash PROVE GitInv'
<1>1. GitIdle \in Tick /\ GitIdle.todo = {} /\ GitIdle.note = NoNote /\ GitIdle.at = "idle"
  BY DEF GitIdle, Tick
<1>2. upsets' \in Nat
  BY DEF GitCrash, GitUpset, GitInv, GitTyped
<1> QED
  BY <1>1, <1>2, FileKept DEF GitCrash, GitInv, GitTyped

LEMMA GitSettingsStep == ASSUME GitInv, GitSettings PROVE GitInv'
<1>1. upsets' \in Nat
  BY DEF GitSettings, GitUpset, GitInv, GitTyped
<1> QED
  BY <1>1, FileKept DEF GitSettings, GitInv, GitTyped, TickOwns

LEMMA GitSettingsCalledStep == ASSUME GitInv, GitSettingsCalled PROVE GitInv'
<1>1. tick \in Tick
  BY DEF GitInv, GitTyped
<1>2. tick' \in Tick /\ tick'.todo = tick.todo /\ tick'.at = tick.at /\ tick'.note = tick.note
  BY <1>1 DEF GitSettingsCalled, GitFree, Tick
<1> QED
  BY <1>2, FileKept DEF GitSettingsCalled, GitInv, GitTyped, TickOwns

LEMMA GitManualStep == ASSUME GitInv, NEW n \in Notes, GitManual(n) PROVE GitInv'
<1>1. manual' \subseteq Notes
  BY DEF GitManual, GitInv, GitTyped
<1> QED
  BY <1>1, FileKept DEF GitManual, GitInv, GitTyped, TickOwns
-----------------------------------------------------------------------------
\* A manual review of a note that has a job or a result keeps its commit.
LEMMA CommitKept ==
  ASSUME GitInv, NEW n \in Notes
  PROVE /\ Tracked(n) => /\ CommitOf(n) \in Commits /\ CommitOf(n) <= head
                        /\ CommitOf(n) >= jobs[n].commit /\ CommitOf(n) >= targets[n].commit
        /\ ~Tracked(n) => jobs[n].commit = 0 /\ targets[n].commit = 0
<1>1. /\ jobs[n].commit \in Commits /\ targets[n].commit \in Commits
      /\ jobs[n].commit <= head /\ targets[n].commit <= head
      /\ jobs[n].commit \in Nat /\ targets[n].commit \in Nat
  BY GitTypes DEF GitInv, GitTyped, InOrder, JobRecord, TargetRecord
<1>2. jobs[n] # NoJob => jobs[n].commit >= targets[n].commit
  BY DEF GitInv, JobsNewer
<1>3. (jobs[n] = NoJob => jobs[n].commit = 0) /\ (targets[n] = NoTarget => targets[n].commit = 0)
  BY DEF NoJob, NoTarget
<1> QED
  BY <1>1, <1>2, <1>3 DEF Tracked, CommitOf

LEMMA GitManualSucceededStep ==
  ASSUME GitInv, NEW n \in Notes, GitManualSucceeded(n) PROVE GitInv'
<1>1. /\ GitFree /\ manual' \subseteq Notes /\ jobs' = [jobs EXCEPT ![n] = NoJob]
      /\ UNCHANGED <<gitVars, auto, branch, tick, settling, upsets, anchored, paid>>
  BY DEF GitManualSucceeded, ManualEnds, GitInv, GitTyped
<1>2. PICK s \in {"reviewed", "incomplete"} :
        /\ targets' = [targets EXCEPT ![n] =
             IF Tracked(n) THEN [state |-> s, commit |-> CommitOf(n)] ELSE NoTarget]
        /\ retries' \subseteq Notes
  BY DEF GitManualSucceeded, GitInv, GitTyped
<1> DEFINE t == IF Tracked(n) THEN [state |-> s, commit |-> CommitOf(n)] ELSE NoTarget
<1>3. /\ NoJob \in JobRecord /\ NoJob.state = "none" /\ NoJob.commit = 0
      /\ NoTarget \in TargetRecord /\ NoTarget.state = "none" /\ NoTarget.commit = 0
  BY GitAssumption DEF NoJob, NoTarget, JobRecord, TargetRecord, Commits
<1>4. /\ t \in TargetRecord /\ t.commit <= head /\ (t.state = "none" => t = NoTarget)
      /\ t.commit >= jobs[n].commit /\ t.commit >= targets[n].commit
  <2>1. CASE Tracked(n)
    <3>1. t = [state |-> s, commit |-> CommitOf(n)] /\ CommitOf(n) \in Commits
      BY <2>1, CommitKept
    <3>2. t \in TargetRecord /\ t.commit = CommitOf(n) /\ t.state # "none"
      BY <3>1 DEF TargetRecord
    <3> QED
      BY <2>1, <3>2, CommitKept
  <2>2. CASE ~Tracked(n)
    BY <1>3, <2>2, CommitKept, GitTypes
  <2> QED
    BY <2>1, <2>2
<1>5. /\ jobs' \in [Notes -> JobRecord] /\ targets' \in [Notes -> TargetRecord]
      /\ jobs'[n] = NoJob /\ targets'[n] = t
      /\ \A m \in Notes : m # n => jobs'[m] = jobs[m] /\ targets'[m] = targets[m]
  BY <1>1, <1>2, <1>3, <1>4 DEF GitInv, GitTyped
<1> HIDE DEF t
<1>6. paid[n] <= 2 /\ 0 <= head
  BY GitTypes DEF GitInv, PaidAttempts
<1>7. OneJobStep(n)
  BY <1>1, <1>3, <1>4, <1>5, <1>6 DEF OneJobStep, GitInv, GitTyped
<1>8. TickOwns'
  BY <1>1 DEF GitFree, GitInv, TickOwns
<1>9. GitTyped'
  BY <1>1, <1>2, <1>5 DEF GitInv, GitTyped, gitVars
<1> QED
  BY <1>7, <1>8, <1>9, OneJob DEF GitInv

LEMMA GitManualFailedStep ==
  ASSUME GitInv, NEW n \in Notes, GitManualFailed(n) PROVE GitInv'
<1> DEFINE j == IF Tracked(n) THEN Job(CommitOf(n), 2, "failed") ELSE NoJob
<1>1. /\ GitFree /\ manual' \subseteq Notes /\ retries' \subseteq Notes
      /\ jobs' = [jobs EXCEPT ![n] = j] /\ targets' = [targets EXCEPT ![n] = NoTarget]
      /\ UNCHANGED <<gitVars, auto, branch, tick, settling, upsets, anchored, paid>>
  BY DEF GitManualFailed, ManualEnds, GitInv, GitTyped
<1>3. /\ NoJob \in JobRecord /\ NoJob.state = "none" /\ NoJob.commit = 0
      /\ NoTarget \in TargetRecord /\ NoTarget.state = "none" /\ NoTarget.commit = 0
  BY GitAssumption DEF NoJob, NoTarget, JobRecord, TargetRecord, Commits
<1>4. /\ j \in JobRecord /\ j.commit <= head /\ (j.state = "none" => j = NoJob) /\ j.state # "pending"
      /\ j.commit >= jobs[n].commit /\ j.commit >= targets[n].commit /\ j.commit >= 0
  <2>1. CASE Tracked(n)
    <3>1. j = [state |-> "failed", commit |-> CommitOf(n), attempts |-> 2] /\ CommitOf(n) \in Commits
      BY <2>1, CommitKept DEF Job
    <3>2. j \in JobRecord /\ j.commit = CommitOf(n) /\ j.state = "failed"
      BY <3>1 DEF JobRecord
    <3>3. CommitOf(n) \in Nat
      BY <3>1, GitAssumption DEF Commits
    <3> QED
      BY <2>1, <3>2, <3>3, CommitKept
  <2>2. CASE ~Tracked(n)
    BY <1>3, <2>2, CommitKept, GitTypes
  <2> QED
    BY <2>1, <2>2
<1>5. /\ jobs' \in [Notes -> JobRecord] /\ targets' \in [Notes -> TargetRecord]
      /\ jobs'[n] = j /\ targets'[n] = NoTarget
      /\ \A m \in Notes : m # n => jobs'[m] = jobs[m] /\ targets'[m] = targets[m]
  BY <1>1, <1>3, <1>4 DEF GitInv, GitTyped
<1> HIDE DEF j
<1>6. paid[n] <= 2 /\ 0 <= head
  BY GitTypes DEF GitInv, PaidAttempts
<1>7. OneJobStep(n)
  BY <1>1, <1>3, <1>4, <1>5, <1>6 DEF OneJobStep, GitInv, GitTyped
<1>8. TickOwns'
  BY <1>1 DEF GitFree, GitInv, TickOwns
<1>9. GitTyped'
  BY <1>1, <1>5 DEF GitInv, GitTyped, gitVars
<1> QED
  BY <1>7, <1>8, <1>9, OneJob DEF GitInv
-----------------------------------------------------------------------------
\* Every step keeps the invariant.
LEMMA GitInvNext == GitInv /\ [GitNext]_reviewVars => GitInv'
<1> SUFFICES ASSUME GitInv, [GitNext]_reviewVars PROVE GitInv'
  OBVIOUS
<1>1. ASSUME NEW ns \in SUBSET Notes, NEW isMerge \in BOOLEAN, GitCommit(ns, isMerge) PROVE GitInv'
  BY <1>1, GitCommitStep
<1>2. CASE GitTickStep
  BY <1>2, GitReanchorStep, GitTickStepKeeps, GitEndTickStep, GitTakeJobStep, GitReportedStep,
     GitCalledOffStep, GitFailedStep DEF GitTickStep
<1>3. CASE GitManualEnd
  BY <1>3, GitManualSucceededStep, GitManualFailedStep DEF GitManualEnd
<1>4. CASE GitSettings \/ GitSettingsCalled \/ GitSettingsChanged \/ GitCrash
  BY <1>4, GitSettingsStep, GitSettingsCalledStep, GitSettingsChangedStep, GitCrashStep
<1>5. ASSUME NEW n \in Notes, GitTransient(n) \/ GitManual(n) PROVE GitInv'
  BY <1>5, GitTransientStep, GitManualStep
<1>6. CASE UNCHANGED reviewVars
  BY <1>6, FileKept DEF reviewVars, GitInv, GitTyped, TickOwns
<1> QED
  BY <1>1, <1>2, <1>3, <1>4, <1>5, <1>6 DEF GitNext

LEMMA GitInvSafe == GitInv => GitSafe
<1> SUFFICES ASSUME GitInv PROVE GitSafe
  OBVIOUS
<1>1. GitTypeOK
  BY TickNotes DEF GitInv, GitTyped, TickOwns, InOrder, GitTypeOK, Commits, JobRecord, TargetRecord
<1>2. GitAccounted /\ GitPaidTwice
  BY DEF GitInv, PaidAttempts, GitPaidTwice
<1> QED
  BY <1>1, <1>2 DEF GitSafe

\* Whatever commits, crashes and changes of the settings come between the steps of a tick:
\* no change of a note since the review was switched on is lost, and no job is paid for
\* more than twice (git-scheduler.ts:306-353).
THEOREM GitAlwaysSafe == GitSpec => []GitSafe
<1> QED
  BY GitInvInit, GitInvNext, GitInvSafe, PTL DEF GitSpec
-----------------------------------------------------------------------------
(* TaskExecution *)
Verdicts == {"none", "approved", "needs-fix", "blocked"}
Receipt == [kind : {"none", "self", "independent"}, verdict : Verdicts, attempt : Nat, base : Nat, code : Nat]
RunRecord ==
  [mode : {"xdo", "xdel"}, state : {"queued", "running", "verifying", "paused", "done", "cancelled"},
   before : {"queued", "running", "verifying"}, attempt : Nat, base : Nat, lease : Nat, pinned : Nat,
   last : Receipt, used : Nat, proof : Receipt, disk : Nat]
CallRecord ==
  [run : Runs \cup {NoRun},
   at : {"idle", "budget", "load", "top", "implement", "verify", "pin", "check", "review", "drift",
         "record", "live", "finish", "repair"},
   token : Nat, attempt : Nat, base : Nat, code : Nat, verdict : Verdicts, rec : Receipt, disk : Nat,
   tool : BOOLEAN, aborted : BOOLEAN]
DeskType ==
  [run : Runs \cup {NoRun}, op : {"none", "takeover", "repair", "review", "finish"},
   at : {"idle", "asked", "loaded", "record"}, token : Nat, attempt : Nat, base : Nat, rec : Receipt, code : Nat]

TaskTyped ==
  /\ run \in [Runs -> RunRecord] /\ exec \in [Execs -> CallRecord]
  /\ code \in [Runs -> Nat] /\ contract \in [Runs -> Nat] /\ inFlight \subseteq Runs
  /\ desk \in DeskType /\ (desk.at # "idle" => desk.run \in Runs) /\ mishaps \in Nat

\* A call that has passed the budget.
Works(c) == exec[c].at \notin {"idle", "budget"}

\* What is in flight has one call at work, and only a call that implements has a tool.
TaskCalls ==
  /\ \A c \in Execs :
       /\ exec[c].at = "idle" => exec[c] = NoExec
       /\ exec[c].at # "idle" => R(c) \in Runs
       /\ Works(c) => R(c) \in inFlight
       /\ exec[c].tool => exec[c].at = "implement"
       /\ exec[c].at \in {"record", "live", "finish"} => exec[c].disk = exec[c].code
  /\ \A r \in inFlight : \E c \in Execs : Works(c) /\ R(c) = r
  /\ \A c, d \in Execs : Works(c) /\ Works(d) /\ R(c) = R(d) => c = d

\* A run that a tool may write to: it is not verified, nor will it be when it is resumed.
Unverified(record) ==
  /\ record.state \notin {"verifying", "done"}
  /\ record.state = "paused" => record.before # "verifying"
Proven(record) == record.state = "done" => record.proof.code = record.disk
TaskRuns ==
  /\ \A c \in Execs : exec[c].tool => Unverified(run[R(c)])
  /\ \A r \in Runs : Proven(run[r])

TaskInv == TaskTyped /\ TaskCalls /\ TaskRuns
-----------------------------------------------------------------------------
LEMMA TaskInvInit == ASSUME ExecInit PROVE TaskInv
<1> USE ExecAssumption DEF ExecInit
<1>1. NoReceipt \in Receipt /\ NoExec \in CallRecord /\ NoDesk \in DeskType
  BY DEF NoReceipt, Receipt, NoExec, CallRecord, NoDesk, DeskType, Verdicts
<1>2. PICK mode \in [Runs -> {"xdo", "xdel"}] : run = [r \in Runs |-> NewRun(mode[r])]
  OBVIOUS
<1>3. \A r \in Runs : NewRun(mode[r]) \in RunRecord /\ NewRun(mode[r]).state = "queued"
  BY <1>1 DEF NewRun, RunRecord
<1>4. run \in [Runs -> RunRecord] /\ \A r \in Runs : run[r].state = "queued"
  BY <1>2, <1>3
<1>5. TaskTyped
  BY <1>1, <1>4 DEF TaskTyped, NoDesk
<1>6. TaskCalls
  BY <1>1 DEF TaskCalls, Works, NoExec, R
<1>7. TaskRuns
  BY <1>4 DEF TaskRuns, NoExec, Proven
<1> QED
  BY <1>5, <1>6, <1>7 DEF TaskInv

\* What the user, or the desk, does to a run.
LEMMA RunChanged ==
  ASSUME TaskInv, NEW r \in Runs, NEW new \in RunRecord, Sets(r, new),
         UNCHANGED <<exec, inFlight>>,
         \A c \in Execs : exec[c].tool /\ R(c) = r => Unverified(new),
         Proven(new),
         code' \in [Runs -> Nat], contract' \in [Runs -> Nat], mishaps' \in Nat,
         desk' \in DeskType, desk'.at # "idle" => desk'.run \in Runs
  PROVE  TaskInv'
<1>1. /\ run' \in [Runs -> RunRecord] /\ run'[r] = new
      /\ \A s \in Runs : s # r => run'[s] = run[s]
  BY DEF Sets, TaskInv, TaskTyped
<1>2. TaskTyped'
  BY <1>1 DEF TaskInv, TaskTyped
<1>3. TaskCalls'
  BY DEF TaskInv, TaskCalls, Works, R
<1>4. TaskRuns'
  <2>1. ASSUME NEW c \in Execs, exec'[c].tool PROVE Unverified(run'[exec'[c].run])
    <3>1. exec[c].tool /\ R(c) \in Runs /\ Unverified(run[R(c)])
      BY <2>1 DEF TaskInv, TaskCalls, TaskRuns
    <3>2. CASE R(c) = r
      BY <1>1, <3>1, <3>2 DEF R
    <3>3. CASE R(c) # r
      BY <1>1, <3>1, <3>3 DEF R
    <3> QED
      BY <3>2, <3>3
  <2>2. \A s \in Runs : Proven(run'[s])
    BY <1>1 DEF TaskInv, TaskRuns
  <2> QED
    BY <2>1, <2>2 DEF TaskRuns, R, Unverified, Proven
<1> QED
  BY <1>2, <1>3, <1>4 DEF TaskInv

LEMMA RunKept ==
  ASSUME TaskInv, UNCHANGED <<run, exec, inFlight>>,
         code' \in [Runs -> Nat], contract' \in [Runs -> Nat], mishaps' \in Nat,
         desk' \in DeskType, desk'.at # "idle" => desk'.run \in Runs
  PROVE  TaskInv'
BY DEF TaskInv, TaskTyped, TaskCalls, Works, R, TaskRuns, Unverified, Proven

\* A step of a call at work: it goes on, or it is over, and its run may change.
LEMMA CallStepped ==
  ASSUME TaskInv, NEW c \in Execs, Works(c), NEW new \in CallRecord, exec' = [exec EXCEPT ![c] = new],
         \/ new = NoExec /\ inFlight' = inFlight \ {R(c)}
         \/ new.run = R(c) /\ new.at \notin {"idle", "budget"} /\ UNCHANGED inFlight,
         NEW record \in RunRecord, run' = [run EXCEPT ![R(c)] = record],
         new.tool => new.at = "implement" /\ Unverified(record), Proven(record),
         new.at \in {"record", "live", "finish"} => new.disk = new.code,
         code' \in [Runs -> Nat], UNCHANGED <<contract, desk>>, mishaps' \in Nat
  PROVE  TaskInv'
<1>1. R(c) \in Runs /\ R(c) \in inFlight
  BY DEF TaskInv, TaskCalls, Works
<1>2. /\ run' \in [Runs -> RunRecord] /\ run'[R(c)] = record
      /\ \A s \in Runs : s # R(c) => run'[s] = run[s]
  BY <1>1 DEF TaskInv, TaskTyped
<1>3. /\ exec' \in [Execs -> CallRecord] /\ exec'[c] = new
      /\ \A d \in Execs : d # c => exec'[d] = exec[d]
  BY DEF TaskInv, TaskTyped
<1>4. TaskTyped'
  BY <1>2, <1>3 DEF TaskInv, TaskTyped
<1>5. \A d \in Execs : d # c /\ Works(d) => R(d) # R(c)
  BY DEF TaskInv, TaskCalls
<1>6. NoExec.at = "idle" /\ NoExec.tool = FALSE
  BY DEF NoExec
<1>7. TaskCalls'
  <2>1. ASSUME NEW d \in Execs
        PROVE /\ exec'[d].at = "idle" => exec'[d] = NoExec
              /\ exec'[d].at # "idle" => exec'[d].run \in Runs
              /\ exec'[d].at \notin {"idle", "budget"} => exec'[d].run \in inFlight'
              /\ exec'[d].tool => exec'[d].at = "implement"
              /\ exec'[d].at \in {"record", "live", "finish"} => exec'[d].disk = exec'[d].code
    <3>1. CASE d = c
      BY <1>1, <1>3, <1>6, <3>1
    <3>2. CASE d # c
      BY <1>3, <1>5, <3>2 DEF TaskInv, TaskCalls, Works, R
    <3> QED
      BY <3>1, <3>2
  <2>2. ASSUME NEW r \in inFlight'
        PROVE \E d \in Execs : exec'[d].at \notin {"idle", "budget"} /\ exec'[d].run = r
    <3>1. PICK d \in Execs : Works(d) /\ R(d) = r
      BY <2>2 DEF TaskInv, TaskCalls
    <3>2. CASE d = c
      BY <1>3, <2>2, <3>1, <3>2 DEF R
    <3>3. CASE d # c
      BY <1>3, <3>1, <3>3 DEF Works, R
    <3> QED
      BY <3>2, <3>3
  <2>3. ASSUME NEW d \in Execs, NEW e \in Execs, exec'[d].at \notin {"idle", "budget"},
               exec'[e].at \notin {"idle", "budget"}, exec'[d].run = exec'[e].run
        PROVE d = e
    <3>1. CASE d # c /\ e # c
      BY <1>3, <2>3, <3>1 DEF TaskInv, TaskCalls, Works, R
    <3>2. CASE d = c /\ e # c
      BY <1>3, <1>5, <1>6, <2>3, <3>2 DEF Works, R
    <3>3. CASE d # c /\ e = c
      BY <1>3, <1>5, <1>6, <2>3, <3>3 DEF Works, R
    <3> QED
      BY <3>1, <3>2, <3>3
  <2> QED
    BY <2>1, <2>2, <2>3 DEF TaskCalls, Works, R
<1>8. TaskRuns'
  <2>1. ASSUME NEW d \in Execs, exec'[d].tool PROVE Unverified(run'[exec'[d].run])
    <3>1. CASE d = c
      BY <1>2, <1>3, <1>6, <2>1, <3>1
    <3>2. CASE d # c
      <4>1. exec[d].tool /\ Works(d) /\ exec'[d].run = R(d) /\ R(d) \in Runs
        BY <1>3, <2>1, <3>2 DEF TaskInv, TaskCalls, Works, R
      <4>2. R(d) # R(c) /\ Unverified(run[R(d)])
        BY <1>5, <3>2, <4>1 DEF TaskInv, TaskRuns
      <4> QED
        BY <1>2, <4>1, <4>2
    <3> QED
      BY <3>1, <3>2
  <2>2. \A s \in Runs : Proven(run'[s])
    BY <1>2 DEF TaskInv, TaskRuns
  <2> QED
    BY <2>1, <2>2 DEF TaskRuns, R, Unverified, Proven
<1> QED
  BY <1>4, <1>7, <1>8 DEF TaskInv

\* A step of a call at work that leaves its run.
LEMMA CallWent ==
  ASSUME TaskInv, NEW c \in Execs, Works(c), NEW new \in CallRecord, exec' = [exec EXCEPT ![c] = new],
         \/ new = NoExec /\ inFlight' = inFlight \ {R(c)}
         \/ new.run = R(c) /\ new.at \notin {"idle", "budget"} /\ UNCHANGED inFlight,
         UNCHANGED run, new.tool => new.at = "implement" /\ Unverified(run[R(c)]),
         new.at \in {"record", "live", "finish"} => new.disk = new.code,
         code' \in [Runs -> Nat], UNCHANGED <<contract, desk>>, mishaps' \in Nat
  PROVE  TaskInv'
<1>1. R(c) \in Runs
  BY DEF TaskInv, TaskCalls, Works
<1>2. run[R(c)] \in RunRecord /\ Proven(run[R(c)]) /\ run' = [run EXCEPT ![R(c)] = run[R(c)]]
  BY <1>1 DEF TaskInv, TaskTyped, TaskRuns
<1> QED
  BY <1>2, CallStepped

\* What the steps of a call know.
LEMMA CallFacts ==
  ASSUME TaskInv, NEW c \in Execs, Works(c)
  PROVE  /\ exec[c] \in CallRecord /\ R(c) \in Runs /\ run[R(c)] \in RunRecord /\ Proven(run[R(c)])
         /\ NoExec \in CallRecord /\ NoExec.tool = FALSE /\ NoExec.at = "idle"
         /\ code[R(c)] \in Nat /\ contract[R(c)] \in Nat
         /\ exec[c].at # "implement" => exec[c].tool = FALSE
         /\ exec[c].tool => Unverified(run[R(c)])
<1>1. R(c) \in Runs /\ exec[c] \in CallRecord
  BY DEF TaskInv, TaskTyped, TaskCalls, Works
<1>2. NoExec \in CallRecord /\ NoExec.tool = FALSE /\ NoExec.at = "idle"
  BY DEF NoExec, NoReceipt, CallRecord, Receipt, Verdicts
<1>3. exec[c].tool \in BOOLEAN
  BY <1>1 DEF CallRecord
<1> QED
  BY <1>1, <1>2, <1>3 DEF TaskInv, TaskTyped, TaskCalls, TaskRuns

LEMMA PausedIs ==
  ASSUME TaskInv, NEW r \in Runs, Pausable(r)
  PROVE  /\ Paused(r) \in RunRecord /\ Paused(r).state = "paused" /\ Paused(r).before = run[r].state
         /\ Proven(Paused(r))
<1>1. run[r] \in RunRecord
  BY DEF TaskInv, TaskTyped
<1> QED
  BY <1>1 DEF Paused, RunRecord, Pausable, Proven

\* What throws.
LEMMA ThrownKeeps ==
  ASSUME TaskInv, NEW c \in Execs, Works(c), Thrown(c), FilesKeep, mishaps' \in Nat
  PROVE  TaskInv'
<1>1. /\ exec' = [exec EXCEPT ![c] = NoExec] /\ inFlight' = inFlight \ {R(c)}
      /\ UNCHANGED <<code, contract, desk>> /\ code' \in [Runs -> Nat]
  BY DEF Thrown, Over, Gone, FilesKeep, TaskInv, TaskTyped
<1>2. CASE UNCHANGED run
  BY <1>1, <1>2, CallWent, CallFacts
<1>3. CASE Pausable(R(c)) /\ Sets(R(c), Paused(R(c)))
  BY <1>1, <1>3, CallStepped, CallFacts, PausedIs DEF Sets
<1> QED
  BY <1>2, <1>3 DEF Thrown

\* What is over with its run left alone.
LEMMA OverKeeps ==
  ASSUME TaskInv, NEW c \in Execs, Works(c), Over(c), UNCHANGED run, FilesKeep, mishaps' \in Nat
  PROVE  TaskInv'
<1>1. /\ exec' = [exec EXCEPT ![c] = NoExec] /\ inFlight' = inFlight \ {R(c)}
      /\ UNCHANGED <<code, contract, desk>> /\ code' \in [Runs -> Nat]
  BY DEF Over, Gone, FilesKeep, TaskInv, TaskTyped
<1> QED
  BY <1>1, CallWent, CallFacts

\* What goes on to a stage with its run left alone.
LEMMA GoesKeeps ==
  ASSUME TaskInv, NEW c \in Execs, Works(c), exec[c].tool = FALSE,
         NEW stage \in {"load", "top", "implement", "verify", "pin", "check", "review", "drift",
                        "record", "live", "finish", "repair"},
         Goes(c, stage), Stays, UNCHANGED run, FilesKeep, mishaps' \in Nat,
         stage \in {"record", "live", "finish"} => exec[c].at \in {"record", "live", "finish"}
  PROVE  TaskInv'
<1> DEFINE new == [exec[c] EXCEPT !.at = stage]
<1>1. new \in CallRecord /\ new.run = R(c) /\ new.at = stage /\ new.tool = FALSE
      /\ new.disk = exec[c].disk /\ new.code = exec[c].code
  BY CallFacts DEF CallRecord, R
<1>2. exec' = [exec EXCEPT ![c] = new]
  BY DEF Goes, TaskInv, TaskTyped
<1>3. stage \in {"record", "live", "finish"} => exec[c].disk = exec[c].code
  BY DEF TaskInv, TaskCalls
<1>4. UNCHANGED <<inFlight, contract, desk>> /\ code' \in [Runs -> Nat]
  BY DEF Stays, FilesKeep, TaskInv, TaskTyped
<1> HIDE DEF new
<1> QED
  BY <1>1, <1>2, <1>3, <1>4, CallWent
-----------------------------------------------------------------------------
\* A call that has not passed the budget, or passes it.
LEMMA CallArrives ==
  ASSUME TaskInv, NEW c \in Execs, ~Works(c), NEW new \in CallRecord, new.tool = FALSE,
         exec' = [exec EXCEPT ![c] = new],
         \/ new = NoExec /\ UNCHANGED inFlight
         \/ new.at = "budget" /\ new.run \in Runs /\ UNCHANGED inFlight
         \/ new.at = "load" /\ new.run \in Runs \ inFlight /\ inFlight' = inFlight \cup {new.run},
         UNCHANGED <<run, code, contract, desk, mishaps>>
  PROVE  TaskInv'
<1>1. /\ exec' \in [Execs -> CallRecord] /\ exec'[c] = new
      /\ \A d \in Execs : d # c => exec'[d] = exec[d]
  BY DEF TaskInv, TaskTyped
<1>2. NoExec.at = "idle" /\ NoExec.tool = FALSE
  BY DEF NoExec
<1>3. TaskTyped'
  BY <1>1 DEF TaskInv, TaskTyped
<1>4. TaskCalls'
  <2>1. ASSUME NEW d \in Execs
        PROVE /\ exec'[d].at = "idle" => exec'[d] = NoExec
              /\ exec'[d].at # "idle" => exec'[d].run \in Runs
              /\ exec'[d].at \notin {"idle", "budget"} => exec'[d].run \in inFlight'
              /\ exec'[d].tool => exec'[d].at = "implement"
              /\ exec'[d].at \in {"record", "live", "finish"} => exec'[d].disk = exec'[d].code
    <3>1. CASE d = c
      BY <1>1, <1>2, <3>1
    <3>2. CASE d # c
      BY <1>1, <3>2 DEF TaskInv, TaskCalls, Works, R
    <3> QED
      BY <3>1, <3>2
  <2>2. ASSUME NEW r \in inFlight'
        PROVE \E d \in Execs : exec'[d].at \notin {"idle", "budget"} /\ exec'[d].run = r
    <3>1. CASE r \in inFlight
      <4>1. PICK d \in Execs : Works(d) /\ R(d) = r
        BY <3>1 DEF TaskInv, TaskCalls
      <4> QED
        BY <1>1, <4>1 DEF Works, R
    <3>2. CASE r \notin inFlight
      BY <1>1, <2>2, <3>2
    <3> QED
      BY <3>1, <3>2
  <2>3. ASSUME NEW d \in Execs, NEW e \in Execs, exec'[d].at \notin {"idle", "budget"},
               exec'[e].at \notin {"idle", "budget"}, exec'[d].run = exec'[e].run
        PROVE d = e
    <3>1. \A f \in Execs : f # c /\ Works(f) => R(f) \in inFlight
      BY DEF TaskInv, TaskCalls
    <3>2. CASE d # c /\ e # c
      BY <1>1, <2>3, <3>2 DEF TaskInv, TaskCalls, Works, R
    <3>3. CASE d = c /\ e # c
      BY <1>1, <1>2, <2>3, <3>1, <3>3 DEF Works, R
    <3>4. CASE d # c /\ e = c
      BY <1>1, <1>2, <2>3, <3>1, <3>4 DEF Works, R
    <3> QED
      BY <3>2, <3>3, <3>4
  <2> QED
    BY <2>1, <2>2, <2>3 DEF TaskCalls, Works, R
<1>5. TaskRuns'
  <2>1. ASSUME NEW d \in Execs, exec'[d].tool PROVE Unverified(run'[exec'[d].run])
    BY <1>1, <2>1 DEF TaskInv, TaskRuns, R
  <2>2. \A s \in Runs : Proven(run'[s])
    BY DEF TaskInv, TaskRuns
  <2> QED
    BY <2>1, <2>2 DEF TaskRuns, R, Unverified, Proven
<1> QED
  BY <1>3, <1>4, <1>5 DEF TaskInv

LEMMA ExecCalledStep == ASSUME TaskInv, NEW c \in Execs, NEW r \in Runs, ExecCalled(c, r) PROVE TaskInv'
<1> DEFINE new == [NoExec EXCEPT !.run = r, !.at = "budget"]
<1>1. new \in CallRecord /\ new.tool = FALSE /\ new.at = "budget" /\ new.run = r
  BY DEF NoExec, NoReceipt, CallRecord, Receipt, Verdicts
<1>2. /\ exec' = [exec EXCEPT ![c] = new] /\ ~Works(c)
      /\ UNCHANGED <<run, inFlight, code, contract, desk, mishaps>>
  BY DEF ExecCalled, At, Works, Stays, FilesKeep, Calm
<1> HIDE DEF new
<1> QED
  BY <1>1, <1>2, CallArrives

LEMMA ExecAdmittedStep == ASSUME TaskInv, NEW c \in Execs, ExecAdmitted(c) PROVE TaskInv'
<1>1. /\ exec[c].at = "budget" /\ ~Works(c) /\ UNCHANGED <<run, code, contract, desk, mishaps>>
      /\ exec[c] \in CallRecord /\ R(c) \in Runs
  BY DEF ExecAdmitted, At, Works, FilesKeep, Calm, TaskInv, TaskTyped, TaskCalls
<1>2. NoExec \in CallRecord /\ NoExec.tool = FALSE
  BY DEF NoExec, NoReceipt, CallRecord, Receipt, Verdicts
<1>3. exec[c].tool = FALSE
  BY <1>1 DEF TaskInv, TaskCalls, CallRecord
<1>4. CASE Admits(R(c))
  <2> DEFINE new == [exec[c] EXCEPT !.at = "load"]
  <2>1. new \in CallRecord /\ new.tool = FALSE /\ new.at = "load" /\ new.run = R(c)
    BY <1>1, <1>3 DEF CallRecord, R
  <2>2. exec' = [exec EXCEPT ![c] = new] /\ inFlight' = inFlight \cup {R(c)} /\ R(c) \notin inFlight
    BY <1>4 DEF ExecAdmitted, Goes, Admits, TaskInv, TaskTyped
  <2> HIDE DEF new
  <2> QED
    BY <1>1, <2>1, <2>2, CallArrives
<1>5. CASE ~Admits(R(c))
  <2>1. exec' = [exec EXCEPT ![c] = NoExec] /\ UNCHANGED inFlight
    BY <1>5 DEF ExecAdmitted, Gone, Stays
  <2> QED
    BY <1>1, <1>2, <2>1, CallArrives
<1> QED
  BY <1>4, <1>5

LEMMA ExecLoadedStep == ASSUME TaskInv, NEW c \in Execs, ExecLoaded(c) PROVE TaskInv'
<1>1. /\ exec[c].at = "load" /\ Works(c) /\ UNCHANGED run /\ FilesKeep /\ mishaps' \in Nat
      /\ UNCHANGED <<contract, desk>> /\ code' \in [Runs -> Nat]
  BY DEF ExecLoaded, At, Works, Calm, FilesKeep, TaskInv, TaskTyped
<1>2. CASE run[R(c)].lease = 0
  BY <1>1, <1>2, OverKeeps DEF ExecLoaded
<1>3. CASE run[R(c)].lease # 0
  <2> DEFINE n == run[R(c)].lease
             new == [exec[c] EXCEPT !.token = n, !.at = "top"]
  <2>3. exec[c] \in CallRecord /\ run[R(c)] \in RunRecord /\ exec[c].tool = FALSE /\ R(c) = exec[c].run
    BY <1>1, CallFacts DEF R
  <2>4. n \in Nat
    BY <2>3 DEF RunRecord
  <2> HIDE DEF n
  <2>1. new \in CallRecord /\ new.run = R(c) /\ new.at = "top" /\ new.tool = FALSE
    BY <2>3, <2>4 DEF CallRecord
  <2>2. exec' = [exec EXCEPT ![c] = new] /\ UNCHANGED inFlight
    BY <1>3 DEF n, ExecLoaded, Stays, TaskInv, TaskTyped
  <2> HIDE DEF new
  <2> QED
    BY <1>1, <2>1, <2>2, CallWent
<1> QED
  BY <1>2, <1>3

LEMMA ExecTopStep == ASSUME TaskInv, NEW c \in Execs, ExecTop(c) PROVE TaskInv'
<1>1. /\ exec[c].at = "top" /\ Works(c) /\ FilesKeep /\ mishaps' \in Nat
      /\ UNCHANGED <<contract, desk>> /\ code' \in [Runs -> Nat]
  BY DEF ExecTop, At, Works, Calm, FilesKeep, TaskInv, TaskTyped
<1>2. exec[c].tool = FALSE /\ exec[c].aborted \in BOOLEAN
  BY <1>1, CallFacts DEF CallRecord
<1>3. CASE exec[c].aborted
  BY <1>1, <1>3, ThrownKeeps DEF ExecTop
<1>4. CASE ~exec[c].aborted /\ run[R(c)].state # "running"
  BY <1>1, <1>2, <1>4, GoesKeeps DEF ExecTop
<1>5. CASE ~exec[c].aborted /\ run[R(c)].state = "running" /\ ~MayTurn(c, "running")
  BY <1>1, <1>5, ThrownKeeps DEF ExecTop
<1>6. CASE ~exec[c].aborted /\ run[R(c)].state = "running" /\ MayTurn(c, "running")
  <2> DEFINE n == run[R(c)].attempt
             new == [exec[c] EXCEPT !.at = "implement", !.attempt = n]
  <2>3. exec[c] \in CallRecord /\ run[R(c)] \in RunRecord /\ exec[c].tool = FALSE /\ R(c) = exec[c].run
    BY <1>1, CallFacts DEF R
  <2>4. n \in Nat
    BY <2>3 DEF RunRecord
  <2> HIDE DEF n
  <2>1. new \in CallRecord /\ new.run = R(c) /\ new.at = "implement" /\ new.tool = FALSE
    BY <2>3, <2>4 DEF CallRecord
  <2>2. exec' = [exec EXCEPT ![c] = new] /\ UNCHANGED inFlight /\ UNCHANGED run
    BY <1>6 DEF n, ExecTop, Stays, TaskInv, TaskTyped
  <2> HIDE DEF new
  <2> QED
    BY <1>1, <2>1, <2>2, CallWent
<1> QED
  BY <1>2, <1>3, <1>4, <1>5, <1>6

LEMMA ToolGateStep == ASSUME TaskInv, NEW c \in Execs, ToolGate(c) PROVE TaskInv'
<1> DEFINE new == [exec[c] EXCEPT !.tool = TRUE]
<1>1. /\ exec[c].at = "implement" /\ Works(c) /\ mishaps' \in Nat
      /\ UNCHANGED <<run, inFlight, contract, desk>> /\ code' \in [Runs -> Nat]
      /\ run[R(c)].state = "running"
  BY DEF ToolGate, At, MayTurn, Works, Stays, Calm, FilesKeep, TaskInv, TaskTyped
<1>2. new \in CallRecord /\ new.run = R(c) /\ new.at = "implement"
  BY <1>1, CallFacts DEF CallRecord, R
<1>3. exec' = [exec EXCEPT ![c] = new]
  BY DEF ToolGate, TaskInv, TaskTyped
<1>4. Unverified(run[R(c)])
  BY <1>1 DEF Unverified
<1> HIDE DEF new
<1> QED
  BY <1>1, <1>2, <1>3, <1>4, CallWent

LEMMA ToolWritesStep == ASSUME TaskInv, NEW c \in Execs, ToolWrites(c) PROVE TaskInv'
<1> DEFINE new == [exec[c] EXCEPT !.tool = FALSE]
<1>1. exec[c].tool /\ exec[c].at = "implement" /\ Works(c)
  BY DEF ToolWrites, Works, TaskInv, TaskCalls
<1>2. UNCHANGED <<run, inFlight, contract, desk>> /\ code' \in [Runs -> Nat] /\ mishaps' \in Nat
  <2>1. R(c) \in Runs /\ code[R(c)] \in Nat
    BY <1>1, CallFacts
  <2>2. code' = [code EXCEPT ![R(c)] = code[R(c)] + 1]
    BY DEF ToolWrites
  <2> QED
    BY <2>1, <2>2 DEF ToolWrites, TaskInv, TaskTyped
<1>3. new \in CallRecord /\ new.run = R(c) /\ new.at = "implement" /\ new.tool = FALSE
  BY <1>1, CallFacts DEF CallRecord, R
<1>4. exec' = [exec EXCEPT ![c] = new]
  BY DEF ToolWrites, TaskInv, TaskTyped
<1> HIDE DEF new
<1> QED
  BY <1>1, <1>2, <1>3, <1>4, CallWent

LEMMA ExecImplementedStep == ASSUME TaskInv, NEW c \in Execs, ExecImplemented(c) PROVE TaskInv'
<1>1. /\ exec[c].at = "implement" /\ Works(c) /\ FilesKeep /\ mishaps' \in Nat
  BY DEF ExecImplemented, At, Works, Calm, Upset, TaskInv, TaskTyped
<1>2. exec[c].tool = FALSE
  BY <1>1, CallFacts DEF ExecImplemented, Drained, CallRecord
<1>3. CASE Goes(c, "verify") /\ UNCHANGED run /\ Stays
  BY <1>1, <1>2, <1>3, GoesKeeps
<1>4. CASE Thrown(c)
  BY <1>1, <1>4, ThrownKeeps
<1> QED
  BY <1>3, <1>4 DEF ExecImplemented
-----------------------------------------------------------------------------
\* The stages of verification.
LEMMA ExecVerifyStep == ASSUME TaskInv, NEW c \in Execs, ExecVerify(c) PROVE TaskInv'
<1>1. /\ exec[c].at = "verify" /\ Works(c) /\ FilesKeep /\ mishaps' \in Nat /\ UNCHANGED run
      /\ UNCHANGED <<contract, desk>> /\ code' \in [Runs -> Nat]
  BY DEF ExecVerify, At, Works, Calm, FilesKeep, TaskInv, TaskTyped
<1>2. CASE Over(c)
  BY <1>1, <1>2, OverKeeps
<1>3. CASE ~Over(c)
  <2> DEFINE seen == [run[R(c)] EXCEPT !.pinned = code[R(c)]]
             stage == IF run[R(c)].state = "running" THEN "pin" ELSE "check"
             new == [exec[c] EXCEPT !.at = stage, !.attempt = seen.attempt, !.base = seen.base, !.code = seen.pinned]
  <2>1. seen \in RunRecord
    BY <1>1, CallFacts DEF RunRecord
  <2>2. seen.attempt \in Nat /\ seen.base \in Nat /\ seen.pinned \in Nat
    BY <2>1 DEF RunRecord
  <2>3. stage \in {"pin", "check"}
    OBVIOUS
  <2> HIDE DEF seen, stage
  <2>4. new \in CallRecord /\ new.run = R(c) /\ new.at \in {"pin", "check"} /\ new.tool = FALSE
    BY <1>1, <2>2, <2>3, CallFacts DEF CallRecord, R
  <2>5. exec' = [exec EXCEPT ![c] = new] /\ UNCHANGED inFlight
    BY <1>3 DEF ExecVerify, Stays, seen, stage, TaskInv, TaskTyped
  <2> HIDE DEF new
  <2> QED
    BY <1>1, <2>4, <2>5, CallWent
<1> QED
  BY <1>2, <1>3

LEMMA ExecPinStep == ASSUME TaskInv, NEW c \in Execs, ExecPin(c) PROVE TaskInv'
<1>1. /\ exec[c].at = "pin" /\ Works(c) /\ FilesKeep /\ mishaps' \in Nat
      /\ UNCHANGED <<contract, desk>> /\ code' \in [Runs -> Nat]
  BY DEF ExecPin, At, Works, Calm, FilesKeep, TaskInv, TaskTyped
<1>2. CASE Over(c) /\ UNCHANGED run
  BY <1>1, <1>2, OverKeeps
<1>3. CASE Verifies(R(c), exec[c].token, exec[c].code) /\ Goes(c, "check") /\ Stays
  <2> DEFINE new == [exec[c] EXCEPT !.at = "check"]
             record == [run[R(c)] EXCEPT !.state = "verifying", !.pinned = exec[c].code]
  <2>1. new \in CallRecord /\ new.run = R(c) /\ new.at = "check" /\ new.tool = FALSE
    BY <1>1, CallFacts DEF CallRecord, R
  <2>2. record \in RunRecord /\ record.state = "verifying"
    <3>1. exec[c].code \in Nat
      BY <1>1, CallFacts DEF CallRecord
    <3> QED
      BY <1>1, <3>1, CallFacts DEF RunRecord
  <2>3. /\ exec' = [exec EXCEPT ![c] = new] /\ UNCHANGED inFlight
        /\ run' = [run EXCEPT ![R(c)] = record]
    BY <1>3 DEF Goes, Stays, Verifies, Sets, TaskInv, TaskTyped
  <2>4. Proven(record)
    BY <2>2 DEF Proven
  <2> HIDE DEF new, record
  <2> QED
    BY <1>1, <2>1, <2>2, <2>3, <2>4, CallStepped
<1> QED
  BY <1>2, <1>3 DEF ExecPin

\* A step that goes on when the run is still current.
LEMMA IfLiveKeeps ==
  ASSUME TaskInv, NEW c \in Execs, Works(c), NEW new \in CallRecord, IfLive(c, new), FilesKeep, mishaps' \in Nat,
         new.run = R(c), new.at \notin {"idle", "budget"}, new.tool = FALSE,
         new.at \in {"record", "live", "finish"} => new.disk = new.code
  PROVE  TaskInv'
<1>1. UNCHANGED <<contract, desk>> /\ code' \in [Runs -> Nat]
  BY DEF FilesKeep, TaskInv, TaskTyped
<1>2. CASE Live(c)
  BY <1>1, <1>2, CallWent DEF IfLive, Stays
<1>3. CASE ~Live(c)
  BY <1>3, ThrownKeeps DEF IfLive
<1> QED
  BY <1>2, <1>3

LEMMA ExecCheckedStep == ASSUME TaskInv, NEW c \in Execs, ExecChecked(c) PROVE TaskInv'
<1>1. exec[c].at = "check" /\ Works(c) /\ FilesKeep /\ mishaps' \in Nat
  BY DEF ExecChecked, At, Works, Calm, TaskInv, TaskTyped
<1> DEFINE new == [exec[c] EXCEPT !.at = "review"]
<1>2. new \in CallRecord /\ new.run = R(c) /\ new.at = "review" /\ new.tool = FALSE
  BY <1>1, CallFacts DEF CallRecord, R
<1>3. IfLive(c, new)
  BY DEF ExecChecked
<1> HIDE DEF new
<1> QED
  BY <1>1, <1>2, <1>3, IfLiveKeeps

LEMMA ExecReviewedStep ==
  ASSUME TaskInv, NEW c \in Execs, NEW verdict \in {"approved", "needs-fix"}, ExecReviewed(c, verdict)
  PROVE  TaskInv'
<1>1. exec[c].at = "review" /\ Works(c) /\ FilesKeep /\ mishaps' \in Nat
  BY DEF ExecReviewed, At, Works, Calm, TaskInv, TaskTyped
<1> DEFINE new == [exec[c] EXCEPT !.at = "drift", !.verdict = verdict]
<1>2. new \in CallRecord /\ new.run = R(c) /\ new.at = "drift" /\ new.tool = FALSE
  BY <1>1, CallFacts DEF CallRecord, R, Verdicts
<1>3. IfLive(c, new)
  BY DEF ExecReviewed
<1> HIDE DEF new
<1> QED
  BY <1>1, <1>2, <1>3, IfLiveKeeps

LEMMA ExecRefusedStep == ASSUME TaskInv, NEW c \in Execs, ExecRefused(c) PROVE TaskInv'
BY ThrownKeeps DEF ExecRefused, At, Works, Upset, TaskInv, TaskTyped

LEMMA ExecDriftStep == ASSUME TaskInv, NEW c \in Execs, ExecDrift(c) PROVE TaskInv'
<1>1. exec[c].at = "drift" /\ Works(c) /\ FilesKeep /\ mishaps' \in Nat
  BY DEF ExecDrift, At, Works, Calm, TaskInv, TaskTyped
<1> DEFINE new == [exec[c] EXCEPT !.at = "record", !.verdict = "none", !.rec = SelfReceipt(c),
                                  !.code = Reread(c), !.disk = code[R(c)]]
<1>2. SelfReceipt(c) \in Receipt
  BY <1>1, CallFacts DEF SelfReceipt, Receipt, CallRecord, Verdicts
<1> DEFINE rec == SelfReceipt(c)
           n == code[R(c)]
<1>5. /\ exec[c] \in CallRecord /\ exec[c].tool = FALSE /\ R(c) = exec[c].run /\ n \in Nat
      /\ Reread(c) = n /\ "none" \in Verdicts
  BY <1>1, CallFacts DEF R, Reread, Verdicts
<1>6. new = [exec[c] EXCEPT !.at = "record", !.verdict = "none", !.rec = rec, !.code = n, !.disk = n]
  BY <1>5
<1> HIDE DEF rec, n
<1>3. /\ new \in CallRecord /\ new.run = R(c) /\ new.at = "record" /\ new.tool = FALSE
      /\ new.disk = new.code
  <2> HIDE DEF new
  <2>1. rec \in Receipt
    BY <1>2 DEF rec
  <2> QED
    BY <1>5, <1>6, <2>1 DEF CallRecord
<1>4. IfLive(c, new)
  BY DEF ExecDrift
<1> HIDE DEF new
<1> QED
  BY <1>1, <1>3, <1>4, IfLiveKeeps

LEMMA ExecRecordStep == ASSUME TaskInv, NEW c \in Execs, ExecRecord(c) PROVE TaskInv'
<1>1. /\ exec[c].at = "record" /\ Works(c) /\ FilesKeep /\ mishaps' \in Nat
      /\ UNCHANGED <<contract, desk>> /\ code' \in [Runs -> Nat]
  BY DEF ExecRecord, At, Works, Calm, FilesKeep, TaskInv, TaskTyped
<1>2. CASE Over(c) /\ UNCHANGED run
  BY <1>1, <1>2, OverKeeps
<1>3. CASE Accepts(R(c), exec[c].token, exec[c].rec) /\ Sets(R(c), [run[R(c)] EXCEPT !.last = exec[c].rec])
  <2> DEFINE record == [run[R(c)] EXCEPT !.last = exec[c].rec]
  <2>1. record \in RunRecord /\ record.state = "verifying"
    <3>1. exec[c].rec \in Receipt /\ run[R(c)].state = "verifying"
      BY <1>1, <1>3, CallFacts DEF CallRecord, Accepts
    <3> QED
      BY <1>1, <3>1, CallFacts DEF RunRecord
  <2>2. Proven(record)
    BY <2>1 DEF Proven
  <2>3. run' = [run EXCEPT ![R(c)] = record]
    BY <1>3 DEF Sets
  <2> HIDE DEF record
  <2>4. CASE Over(c)
    BY <1>1, <2>1, <2>2, <2>3, <2>4, CallFacts, CallStepped DEF Over, Gone
  <2>5. CASE Goes(c, "live") /\ Stays
    <3> DEFINE new == [exec[c] EXCEPT !.at = "live"]
    <3>1. /\ new \in CallRecord /\ new.run = R(c) /\ new.at = "live" /\ new.tool = FALSE
          /\ new.disk = exec[c].disk /\ new.code = exec[c].code
      BY <1>1, CallFacts DEF CallRecord, R
    <3>2. exec' = [exec EXCEPT ![c] = new] /\ UNCHANGED inFlight /\ exec[c].disk = exec[c].code
      BY <1>1, <2>5 DEF Goes, Stays, TaskInv, TaskTyped, TaskCalls
    <3> HIDE DEF new
    <3> QED
      BY <1>1, <2>1, <2>2, <2>3, <3>1, <3>2, CallStepped
  <2> QED
    BY <1>3, <2>4, <2>5 DEF ExecRecord
<1> QED
  BY <1>2, <1>3 DEF ExecRecord

LEMMA ExecLiveStep == ASSUME TaskInv, NEW c \in Execs, ExecLive(c) PROVE TaskInv'
<1>1. exec[c].at = "live" /\ Works(c) /\ FilesKeep /\ mishaps' \in Nat /\ exec[c].disk = exec[c].code
  BY DEF ExecLive, At, Works, Calm, TaskInv, TaskTyped, TaskCalls
<1> DEFINE new == [exec[c] EXCEPT !.at = "finish"]
<1>2. /\ new \in CallRecord /\ new.run = R(c) /\ new.at = "finish" /\ new.tool = FALSE
      /\ new.disk = exec[c].disk /\ new.code = exec[c].code
  BY <1>1, CallFacts DEF CallRecord, R
<1>3. IfLive(c, new)
  BY DEF ExecLive
<1> HIDE DEF new
<1> QED
  BY <1>1, <1>2, <1>3, IfLiveKeeps

\* What is completed.
LEMMA DoneIs ==
  ASSUME TaskInv, NEW r \in Runs, NEW rec \in Receipt, NEW disk \in Nat, NEW token \in Nat,
         Completes(r, token, rec, disk)
  PROVE  LET new == [Ended(r, "done") EXCEPT !.proof = rec, !.disk = disk]
         IN  new \in RunRecord /\ new.state = "done" /\ Proven(new)
<1>1. run[r].mode \in {"xdo", "xdel"}
  BY DEF TaskInv, TaskTyped, RunRecord
<1>2. NewRun(run[r].mode) \in RunRecord
  BY <1>1 DEF NewRun, RunRecord, NoReceipt, Receipt, Verdicts
<1>3. Ended(r, "done") \in RunRecord /\ Ended(r, "done").state = "done"
  BY <1>2 DEF Ended, RunRecord
<1>4. rec.code = disk
  BY DEF Completes
<1> QED
  BY <1>3, <1>4 DEF Proven, RunRecord

LEMMA ExecFinishStep == ASSUME TaskInv, NEW c \in Execs, ExecFinish(c) PROVE TaskInv'
<1>1. /\ exec[c].at = "finish" /\ Works(c) /\ FilesKeep /\ mishaps' \in Nat
      /\ UNCHANGED <<contract, desk>> /\ code' \in [Runs -> Nat]
  BY DEF ExecFinish, At, Works, Calm, FilesKeep, TaskInv, TaskTyped
<1>2. CASE Completes(R(c), exec[c].token, exec[c].rec, exec[c].code)
  <2> DEFINE record == [Ended(R(c), "done") EXCEPT !.proof = exec[c].rec, !.disk = exec[c].disk]
  <2>1. exec[c].rec \in Receipt /\ exec[c].disk \in Nat /\ exec[c].token \in Nat /\ exec[c].disk = exec[c].code
    BY <1>1, CallFacts DEF CallRecord, TaskInv, TaskCalls
  <2>2. record \in RunRecord /\ Proven(record)
    BY <1>1, <1>2, <2>1, CallFacts, DoneIs
  <2>3. run' = [run EXCEPT ![R(c)] = record] /\ exec' = [exec EXCEPT ![c] = NoExec] /\ inFlight' = inFlight \ {R(c)}
    BY <1>2 DEF ExecFinish, Done, Sets, Over, Gone
  <2> HIDE DEF record
  <2> QED
    BY <1>1, <2>2, <2>3, CallFacts, CallStepped
<1>3. CASE ~Completes(R(c), exec[c].token, exec[c].rec, exec[c].code)
  <2>1. CASE Over(c)
    BY <1>1, <1>3, <2>1, OverKeeps DEF ExecFinish
  <2>2. CASE ~Over(c)
    <3>1. Goes(c, "repair") /\ Stays /\ UNCHANGED run /\ exec[c].tool = FALSE
      BY <1>1, <1>3, <2>2, CallFacts DEF ExecFinish
    <3> QED
      BY <1>1, <3>1, GoesKeeps
  <2> QED
    BY <2>1, <2>2
<1> QED
  BY <1>2, <1>3

\* A repair by the call or by the user: the run is attempted once more.
LEMMA RepairedIs ==
  ASSUME TaskInv, NEW r \in Runs, NEW unasked \in BOOLEAN, Repaired(r, unasked)
  PROVE  \E new \in RunRecord : Sets(r, new) /\ new.state = "running"
<1> DEFINE new == [run[r] EXCEPT !.state = "running", !.pinned = 0, !.attempt = run[r].attempt + 1,
                                 !.used = run[r].used + (IF unasked THEN 1 ELSE 0)]
<1>1. run[r] \in RunRecord
  BY DEF TaskInv, TaskTyped
<1>2. new \in RunRecord /\ new.state = "running"
  <2>1. run[r].attempt + 1 \in Nat /\ run[r].used + (IF unasked THEN 1 ELSE 0) \in Nat
    BY <1>1 DEF RunRecord
  <2> QED
    BY <1>1, <2>1 DEF RunRecord
<1>3. Sets(r, new)
  BY DEF Repaired
<1> QED
  BY <1>2, <1>3

LEMMA ExecRepairStep == ASSUME TaskInv, NEW c \in Execs, ExecRepair(c) PROVE TaskInv'
<1>1. /\ exec[c].at = "repair" /\ Works(c) /\ FilesKeep /\ mishaps' \in Nat
      /\ UNCHANGED <<contract, desk>> /\ code' \in [Runs -> Nat]
  BY DEF ExecRepair, At, Works, Calm, FilesKeep, TaskInv, TaskTyped
<1>2. CASE ~Repairs(R(c), exec[c].token, TRUE)
  BY <1>1, <1>2, OverKeeps DEF ExecRepair
<1>3. CASE Repairs(R(c), exec[c].token, TRUE)
  <2> DEFINE new == [NoExec EXCEPT !.run = R(c), !.at = "top", !.token = exec[c].token, !.aborted = exec[c].aborted]
  <2>1. new \in CallRecord /\ new.run = R(c) /\ new.at = "top" /\ new.tool = FALSE
    BY <1>1, CallFacts DEF CallRecord, R, NoExec
  <2>2. exec' = [exec EXCEPT ![c] = new] /\ UNCHANGED inFlight
    BY <1>3 DEF ExecRepair, Stays
  <2>3. PICK record \in RunRecord : Sets(R(c), record) /\ record.state = "running"
    BY <1>1, <1>3, CallFacts, RepairedIs DEF ExecRepair
  <2>4. Proven(record) /\ run' = [run EXCEPT ![R(c)] = record]
    BY <2>3 DEF Proven, Sets
  <2> HIDE DEF new
  <2> QED
    BY <1>1, <2>1, <2>2, <2>4, CallStepped
<1> QED
  BY <1>2, <1>3

LEMMA ExecAbortStep == ASSUME TaskInv, NEW c \in Execs, ExecAbort(c) PROVE TaskInv'
<1> DEFINE new == [exec[c] EXCEPT !.aborted = TRUE]
<1>1. /\ Works(c) /\ UNCHANGED <<run, inFlight, contract, desk>> /\ code' \in [Runs -> Nat] /\ mishaps' \in Nat
  BY DEF ExecAbort, Works, TaskInv, TaskTyped
<1>2. /\ new \in CallRecord /\ new.run = R(c) /\ new.at = exec[c].at /\ new.tool = exec[c].tool
      /\ new.disk = exec[c].disk /\ new.code = exec[c].code
  BY <1>1, CallFacts DEF CallRecord, R
<1>3. exec' = [exec EXCEPT ![c] = new]
  BY DEF ExecAbort, TaskInv, TaskTyped
<1>4. /\ exec[c].tool => exec[c].at = "implement" /\ Unverified(run[R(c)])
      /\ exec[c].at \in {"record", "live", "finish"} => exec[c].disk = exec[c].code
      /\ exec[c].at \notin {"idle", "budget"}
  BY <1>1 DEF TaskInv, TaskCalls, TaskRuns, Works
<1> HIDE DEF new
<1> QED
  BY <1>1, <1>2, <1>3, <1>4, CallWent
-----------------------------------------------------------------------------
\* What the user does to a run, and the edits.
LEMMA RunFacts ==
  ASSUME TaskInv, NEW r \in Runs
  PROVE  /\ run[r] \in RunRecord /\ Proven(run[r]) /\ contract[r] \in Nat /\ code[r] \in Nat
         /\ \A c \in Execs : exec[c].tool /\ R(c) = r => Unverified(run[r])
         /\ code \in [Runs -> Nat] /\ contract \in [Runs -> Nat] /\ mishaps \in Nat
         /\ desk \in DeskType /\ (desk.at # "idle" => desk.run \in Runs)
         /\ NoDesk \in DeskType /\ NoDesk.at = "idle"
<1>1. NoDesk \in DeskType /\ NoDesk.at = "idle"
  BY DEF NoDesk, NoReceipt, DeskType, Receipt, Verdicts
<1> QED
  BY <1>1 DEF TaskInv, TaskTyped, TaskRuns

LEMMA RunStartStep == ASSUME TaskInv, NEW r \in Runs, RunStart(r) PROVE TaskInv'
<1> DEFINE new == [run[r] EXCEPT !.state = "running", !.attempt = run[r].attempt + 1, !.lease = run[r].lease + 1]
<1>1. new \in RunRecord /\ new.state = "running"
  <2>1. run[r].attempt + 1 \in Nat /\ run[r].lease + 1 \in Nat
    BY RunFacts DEF RunRecord
  <2> QED
    BY <2>1, RunFacts DEF RunRecord
<1>2. Unverified(new) /\ Proven(new)
  BY <1>1 DEF Unverified, Proven
<1>3. Sets(r, new) /\ UNCHANGED <<code, contract, inFlight, exec, desk, mishaps>>
  BY DEF RunStart
<1> HIDE DEF new
<1> QED
  BY <1>1, <1>2, <1>3, RunChanged, RunFacts

LEMMA RunPauseStep == ASSUME TaskInv, NEW r \in Runs, RunPause(r) PROVE TaskInv'
<1>1. /\ Paused(r) \in RunRecord /\ Paused(r).state = "paused" /\ Paused(r).before = run[r].state
      /\ Proven(Paused(r)) /\ Sets(r, Paused(r)) /\ UNCHANGED <<code, contract, inFlight, exec, desk, mishaps>>
  BY PausedIs DEF RunPause
<1>2. \A c \in Execs : exec[c].tool /\ R(c) = r => Unverified(Paused(r))
  BY <1>1, RunFacts DEF Unverified
<1> QED
  BY <1>1, <1>2, RunChanged, RunFacts

LEMMA RunResumeStep == ASSUME TaskInv, NEW r \in Runs, RunResume(r) PROVE TaskInv'
<1> DEFINE new == [run[r] EXCEPT !.state = run[r].before, !.before = "queued"]
<1>1. new \in RunRecord /\ new.state = run[r].before /\ new.before = "queued"
  BY RunFacts DEF RunRecord
<1>2. run[r].before \in {"queued", "running", "verifying"} /\ run[r].state = "paused"
  BY RunFacts DEF RunRecord, RunResume
<1>3. Sets(r, new) /\ UNCHANGED <<code, contract, inFlight, exec, desk, mishaps>>
  BY DEF RunResume
<1> HIDE DEF new
<1>4. Proven(new) /\ \A c \in Execs : exec[c].tool /\ R(c) = r => Unverified(new)
  BY <1>1, <1>2, RunFacts DEF Proven, Unverified
<1> QED
  BY <1>1, <1>3, <1>4, RunChanged, RunFacts

LEMMA RunRebaselineStep == ASSUME TaskInv, NEW r \in Runs, RunRebaseline(r) PROVE TaskInv'
<1> DEFINE n == contract[r]
           new == [run[r] EXCEPT !.state = "queued", !.before = "queued", !.pinned = 0, !.base = n]
<1>4. run[r] \in RunRecord /\ n \in Nat
  BY RunFacts
<1>1. new \in RunRecord /\ new.state = "queued"
  <2> HIDE DEF n
  <2> QED
    BY <1>4 DEF RunRecord
<1>2. Unverified(new) /\ Proven(new)
  BY <1>1 DEF Unverified, Proven
<1>3. Sets(r, new) /\ UNCHANGED <<code, contract, inFlight, exec, desk, mishaps>>
  BY DEF RunRebaseline
<1> HIDE DEF new
<1> QED
  BY <1>1, <1>2, <1>3, RunChanged, RunFacts

LEMMA RunCancelStep == ASSUME TaskInv, NEW r \in Runs, RunCancel(r) PROVE TaskInv'
<1> DEFINE new == Ended(r, "cancelled")
<1>1. run[r].mode \in {"xdo", "xdel"}
  BY RunFacts DEF RunRecord
<1>2. new \in RunRecord /\ new.state = "cancelled"
  BY <1>1 DEF Ended, NewRun, RunRecord, NoReceipt, Receipt, Verdicts
<1>3. Unverified(new) /\ Proven(new)
  BY <1>2 DEF Unverified, Proven
<1>4. Sets(r, new) /\ UNCHANGED <<code, contract, inFlight, exec, desk, mishaps>>
  BY DEF RunCancel
<1> HIDE DEF new
<1> QED
  BY <1>2, <1>3, <1>4, RunChanged, RunFacts

LEMMA EditStep == ASSUME TaskInv, NEW r \in Runs, EditCode(r) \/ EditContract(r) PROVE TaskInv'
<1>1. /\ UNCHANGED <<run, exec, inFlight, desk, mishaps>>
      /\ code' \in [Runs -> Nat] /\ contract' \in [Runs -> Nat]
  <2>1. CASE EditCode(r)
    <3>1. code' = [code EXCEPT ![r] = code[r] + 1] /\ code[r] + 1 \in Nat
      BY <2>1, RunFacts DEF EditCode
    <3> QED
      BY <2>1, <3>1, RunFacts DEF EditCode
  <2>2. CASE EditContract(r)
    <3>1. contract' = [contract EXCEPT ![r] = contract[r] + 1] /\ contract[r] + 1 \in Nat
      BY <2>2, RunFacts DEF EditContract
    <3> QED
      BY <2>2, <3>1, RunFacts DEF EditContract
  <2> QED
    BY <2>1, <2>2
<1> QED
  BY <1>1, RunKept, RunFacts

\* What is done at the desk, with the review or for the run.
LEMMA DeskAskedStep ==
  ASSUME TaskInv, NEW r \in Runs, NEW op \in {"takeover", "repair", "review", "finish"}, DeskAsked(op, r)
  PROVE  TaskInv'
<1>1. desk' \in DeskType /\ desk'.run \in Runs
  BY DEF DeskAsked, NoDesk, NoReceipt, DeskType, Receipt, Verdicts
<1>2. UNCHANGED <<run, exec, inFlight, code, contract, mishaps>>
  BY DEF DeskAsked, DeskKeeps
<1> QED
  BY <1>1, <1>2, RunKept, RunFacts

LEMMA DeskTakeoverStep == ASSUME TaskInv, DeskTakeover PROVE TaskInv'
<1> DEFINE r == desk.run
<1>1. r \in Runs /\ desk' = NoDesk /\ UNCHANGED <<code, contract, inFlight, exec, mishaps>>
  BY DEF DeskTakeover, DeskEnds, DeskKeeps, TaskInv, TaskTyped
<1>2. CASE UNCHANGED run
  BY <1>1, <1>2, RunKept, RunFacts
<1>3. CASE Sets(r, [run[r] EXCEPT !.lease = @ + 1])
  <2> DEFINE new == [run[r] EXCEPT !.lease = run[r].lease + 1]
  <2>1. new \in RunRecord /\ new.state = run[r].state /\ new.before = run[r].before
        /\ new.proof = run[r].proof /\ new.disk = run[r].disk
    <3>1. run[r].lease + 1 \in Nat
      BY <1>1, RunFacts DEF RunRecord
    <3> QED
      BY <1>1, <3>1, RunFacts DEF RunRecord
  <2>2. Sets(r, new)
    BY <1>3
  <2> HIDE DEF new
  <2>3. Proven(new) /\ \A c \in Execs : exec[c].tool /\ R(c) = r => Unverified(new)
    BY <1>1, <2>1, RunFacts DEF Proven, Unverified
  <2> QED
    BY <1>1, <2>1, <2>2, <2>3, RunChanged, RunFacts
<1> QED
  BY <1>2, <1>3 DEF DeskTakeover

LEMMA DeskRepairStep == ASSUME TaskInv, DeskRepair PROVE TaskInv'
<1> DEFINE r == desk.run
<1>1. r \in Runs /\ desk' = NoDesk /\ UNCHANGED <<code, contract, inFlight, exec, mishaps>>
  BY DEF DeskRepair, DeskEnds, DeskKeeps, TaskInv, TaskTyped
<1>2. CASE UNCHANGED run
  BY <1>1, <1>2, RunKept, RunFacts
<1>3. CASE Repaired(r, FALSE)
  <2>1. PICK new \in RunRecord : Sets(r, new) /\ new.state = "running"
    BY <1>1, <1>3, RepairedIs
  <2>2. Unverified(new) /\ Proven(new)
    BY <2>1 DEF Unverified, Proven
  <2> QED
    BY <1>1, <2>1, <2>2, RunChanged, RunFacts
<1> QED
  BY <1>2, <1>3 DEF DeskRepair

LEMMA DeskLoadedStep == ASSUME TaskInv, DeskLoaded PROVE TaskInv'
<1> DEFINE r == desk.run
<1>1. r \in Runs /\ UNCHANGED <<run, code, contract, inFlight, exec, mishaps>> /\ desk \in DeskType
  BY DEF DeskLoaded, DeskKeeps, TaskInv, TaskTyped
<1>2. CASE desk' = NoDesk
  BY <1>1, <1>2, RunKept, RunFacts
<1>3. CASE desk' # NoDesk
  <2>1. desk' = [desk EXCEPT !.at = "loaded", !.token = run[r].lease, !.attempt = run[r].attempt,
                             !.base = run[r].base, !.rec = run[r].last, !.code = code[r]]
    BY <1>3 DEF DeskLoaded, DeskEnds
  <2>2. /\ run[r].lease \in Nat /\ run[r].attempt \in Nat /\ run[r].base \in Nat /\ run[r].last \in Receipt
        /\ code[r] \in Nat
    BY <1>1, RunFacts DEF RunRecord
  <2>3. desk' \in DeskType /\ desk'.run = r
    BY <1>1, <2>1, <2>2 DEF DeskType
  <2> QED
    BY <1>1, <2>3, RunKept, RunFacts
<1> QED
  BY <1>2, <1>3

LEMMA DeskReviewedStep ==
  ASSUME TaskInv, NEW verdict \in {"approved", "needs-fix"}, DeskReviewed(verdict)
  PROVE  TaskInv'
<1> DEFINE r == desk.run
           given == IF code[r] = desk.rec.code THEN verdict ELSE "blocked"
           rec == [desk.rec EXCEPT !.kind = "independent", !.verdict = given]
<1>1. r \in Runs /\ UNCHANGED <<run, code, contract, inFlight, exec, mishaps>> /\ desk \in DeskType
  BY DEF DeskReviewed, DeskKeeps, TaskInv, TaskTyped
<1>2. CASE desk' = NoDesk
  BY <1>1, <1>2, RunKept, RunFacts
<1>3. CASE desk' # NoDesk
  <2>1. desk' = [desk EXCEPT !.at = "record", !.rec = rec]
    BY <1>1, <1>3 DEF DeskReviewed, DeskEnds, DeskType, Receipt
  <2>2. rec \in Receipt
    BY <1>1 DEF DeskType, Receipt, Verdicts
  <2> HIDE DEF rec
  <2>3. desk' \in DeskType /\ desk'.run = r
    BY <1>1, <2>1, <2>2 DEF DeskType
  <2> QED
    BY <1>1, <2>3, RunKept, RunFacts
<1> QED
  BY <1>2, <1>3

LEMMA DeskRecordStep == ASSUME TaskInv, DeskRecord PROVE TaskInv'
<1> DEFINE r == desk.run
<1>1. r \in Runs /\ desk' = NoDesk /\ UNCHANGED <<code, contract, inFlight, exec, mishaps>> /\ desk.rec \in Receipt
  BY DEF DeskRecord, DeskEnds, DeskKeeps, TaskInv, TaskTyped, DeskType
<1>2. CASE UNCHANGED run
  BY <1>1, <1>2, RunKept, RunFacts
<1>3. CASE Accepts(r, desk.token, desk.rec) /\ Sets(r, [run[r] EXCEPT !.last = desk.rec])
  <2> DEFINE new == [run[r] EXCEPT !.last = desk.rec]
  <2>1. new \in RunRecord /\ new.state = run[r].state /\ run[r].state = "verifying"
    BY <1>1, <1>3, RunFacts DEF RunRecord, Accepts
  <2>2. Sets(r, new)
    BY <1>3
  <2> HIDE DEF new
  <2>3. Proven(new) /\ \A c \in Execs : exec[c].tool /\ R(c) = r => Unverified(new)
    BY <1>1, <2>1, RunFacts DEF Proven, Unverified
  <2> QED
    BY <1>1, <2>1, <2>2, <2>3, RunChanged, RunFacts
<1> QED
  BY <1>2, <1>3 DEF DeskRecord

LEMMA DeskFinishStep == ASSUME TaskInv, DeskFinish PROVE TaskInv'
<1> DEFINE r == desk.run
<1>1. /\ r \in Runs /\ desk' = NoDesk /\ UNCHANGED <<code, contract, inFlight, exec, mishaps>>
      /\ desk.rec \in Receipt /\ desk.code \in Nat /\ desk.token \in Nat
  BY DEF DeskFinish, DeskEnds, DeskKeeps, TaskInv, TaskTyped, DeskType
<1>2. CASE UNCHANGED run
  BY <1>1, <1>2, RunKept, RunFacts
<1>3. CASE Completes(r, desk.token, desk.rec, desk.code) /\ Done(r, desk.rec, desk.code)
  <2> DEFINE new == [Ended(r, "done") EXCEPT !.proof = desk.rec, !.disk = desk.code]
  <2>1. new \in RunRecord /\ new.state = "done" /\ Proven(new)
    BY <1>1, <1>3, DoneIs
  <2>2. Sets(r, new) /\ run[r].state = "verifying"
    BY <1>3 DEF Done, Completes, Accepts
  <2> HIDE DEF new
  <2>3. \A c \in Execs : exec[c].tool /\ R(c) = r => Unverified(new)
    BY <1>1, <2>2, RunFacts DEF Unverified
  <2> QED
    BY <1>1, <2>1, <2>2, <2>3, RunChanged, RunFacts
<1> QED
  BY <1>2, <1>3 DEF DeskFinish

LEMMA ExecCrashStep == ASSUME TaskInv, ExecCrash PROVE TaskInv'
<1>1. NoExec \in CallRecord /\ NoExec.tool = FALSE /\ NoExec.at = "idle" /\ NoDesk \in DeskType /\ NoDesk.at = "idle"
  BY DEF NoExec, NoDesk, NoReceipt, CallRecord, DeskType, Receipt, Verdicts
<1>2. /\ exec' = [c \in Execs |-> NoExec] /\ inFlight' = {} /\ desk' = NoDesk /\ UNCHANGED <<run, code, contract>>
      /\ mishaps' \in Nat
  BY DEF ExecCrash, Upset, TaskInv, TaskTyped
<1>3. TaskTyped'
  BY <1>1, <1>2 DEF TaskInv, TaskTyped
<1>4. TaskCalls'
  BY <1>1, <1>2 DEF TaskCalls, Works, R
<1>5. TaskRuns'
  BY <1>1, <1>2 DEF TaskInv, TaskRuns, Proven
<1> QED
  BY <1>3, <1>4, <1>5 DEF TaskInv
-----------------------------------------------------------------------------
LEMMA TaskInvNext == ASSUME TaskInv, [ExecNext]_execVars PROVE TaskInv'
<1>1. ASSUME NEW r \in Runs,
             \/ RunStart(r) \/ RunPause(r) \/ RunResume(r) \/ RunRebaseline(r) \/ RunCancel(r)
             \/ EditCode(r) \/ EditContract(r)
             \/ \E op \in {"takeover", "repair", "review", "finish"} : DeskAsked(op, r)
      PROVE TaskInv'
  BY <1>1, RunStartStep, RunPauseStep, RunResumeStep, RunRebaselineStep, RunCancelStep, EditStep, DeskAskedStep
<1>2. ASSUME NEW c \in Execs,
             \/ \E r \in Runs : ExecCalled(c, r)
             \/ ExecAdmitted(c) \/ ExecLoaded(c) \/ ExecTop(c) \/ ToolGate(c) \/ ToolWrites(c) \/ ExecImplemented(c)
      PROVE TaskInv'
  BY <1>2, ExecCalledStep, ExecAdmittedStep, ExecLoadedStep, ExecTopStep, ToolGateStep, ToolWritesStep,
     ExecImplementedStep
<1>3. ASSUME NEW c \in Execs,
             \/ ExecVerify(c) \/ ExecPin(c) \/ ExecChecked(c)
             \/ \E verdict \in {"approved", "needs-fix"} : ExecReviewed(c, verdict)
             \/ ExecRefused(c) \/ ExecDrift(c)
      PROVE TaskInv'
  BY <1>3, ExecVerifyStep, ExecPinStep, ExecCheckedStep, ExecReviewedStep, ExecRefusedStep, ExecDriftStep
<1>4. ASSUME NEW c \in Execs, ExecRecord(c) \/ ExecLive(c) \/ ExecFinish(c) \/ ExecRepair(c) \/ ExecAbort(c)
      PROVE TaskInv'
  BY <1>4, ExecRecordStep, ExecLiveStep, ExecFinishStep, ExecRepairStep, ExecAbortStep
<1>5. CASE DeskTakeover \/ DeskRepair \/ DeskLoaded \/ (\E verdict \in {"approved", "needs-fix"} : DeskReviewed(verdict))
           \/ DeskRecord \/ DeskFinish \/ ExecCrash
  BY <1>5, DeskTakeoverStep, DeskRepairStep, DeskLoadedStep, DeskReviewedStep, DeskRecordStep, DeskFinishStep,
     ExecCrashStep
<1>6. CASE UNCHANGED execVars
  BY <1>6 DEF execVars, TaskInv, TaskTyped, TaskCalls, Works, R, TaskRuns, Unverified, Proven
<1> QED
  BY <1>1, <1>2, <1>3, <1>4, <1>5, <1>6 DEF ExecNext

\* One call for each run in flight, and none for the others.
LEMMA TaskInvSafe == ASSUME TaskInv PROVE ExecSafe
<1>1. ASSUME NEW r \in Runs
      PROVE Cardinality({c \in Execs : R(c) = r /\ ~At(c, "budget")}) = IF r \in inFlight THEN 1 ELSE 0
  <2>1. {c \in Execs : R(c) = r /\ ~At(c, "budget")} = {c \in Execs : R(c) = r /\ Works(c)}
    <3>1. \A c \in Execs : exec[c].at = "idle" => R(c) = NoRun /\ NoRun \notin Runs
      BY ExecAssumption DEF TaskInv, TaskCalls, NoExec, R
    <3> QED
      BY <3>1 DEF Works, At
  <2>2. CASE r \in inFlight
    <3>1. PICK c \in Execs : Works(c) /\ R(c) = r
      BY <2>2 DEF TaskInv, TaskCalls
    <3>2. {d \in Execs : R(d) = r /\ Works(d)} = {c}
      BY <3>1 DEF TaskInv, TaskCalls
    <3> QED
      BY <2>1, <2>2, <3>2, FS_Singleton
  <2>3. CASE r \notin inFlight
    <3>1. {d \in Execs : R(d) = r /\ Works(d)} = {}
      BY <2>3 DEF TaskInv, TaskCalls
    <3> QED
      BY <2>1, <2>3, <3>1, FS_EmptySet
  <2> QED
    BY <2>2, <2>3
<1>2. ExecTypeOK
  <2>1. \A r \in Runs : run[r].state \in {"queued", "running", "verifying", "paused", "done", "cancelled"}
    BY DEF TaskInv, TaskTyped, RunRecord
  <2> QED
    BY <1>1, <2>1 DEF ExecTypeOK
<1>3. ExecQuiet /\ ExecProven
  BY DEF TaskInv, TaskRuns, Unverified, Proven, ExecQuiet, ExecProven
<1> QED
  BY <1>2, <1>3 DEF ExecSafe

\* Whatever is edited, paused, aborted, repaired or lost in a crash: a run has one
\* execution, no tool writes to what is verified or done, and what is done was completed
\* with a receipt of the files on disk (desktop-executor.ts:393-407).
THEOREM ExecAlwaysSafe == ExecSpec => []ExecSafe
<1>1. ExecSpec => []TaskInv
  BY TaskInvInit, TaskInvNext, PTL DEF ExecSpec
<1>2. TaskInv => ExecSafe
  BY TaskInvSafe
<1> QED
  BY <1>1, <1>2, PTL
-----------------------------------------------------------------------------
\* What an aborted call may not do in a step.
Heeds ==
  \A c \in Execs : exec[c].aborted /\ exec'[c].at # exec[c].at => exec'[c].at \notin {"implement", "finish"}

LEMMA HeedsCall ==
  ASSUME TaskInv, NEW c \in Execs, NEW new, exec' = [exec EXCEPT ![c] = new],
         exec[c].aborted => (new.at \notin {"implement", "finish"} \/ new.at = exec[c].at)
  PROVE  Heeds
BY DEF TaskInv, TaskTyped, Heeds

LEMMA HeedsGone == ASSUME TaskInv, NEW c \in Execs, Gone(c) PROVE Heeds
BY HeedsCall DEF Gone, NoExec

LEMMA HeedsGoes ==
  ASSUME TaskInv, NEW c \in Execs, NEW stage, Goes(c, stage), stage \notin {"implement", "finish"}
  PROVE  Heeds
<1> DEFINE new == [exec[c] EXCEPT !.at = stage]
<1>1. exec' = [exec EXCEPT ![c] = new]
  BY DEF Goes, TaskInv, TaskTyped
<1>2. new.at = stage
  BY DEF TaskInv, TaskTyped, CallRecord
<1> HIDE DEF new
<1> QED
  BY <1>1, <1>2, HeedsCall

LEMMA HeedsIfLive ==
  ASSUME TaskInv, NEW c \in Execs, NEW new, IfLive(c, new)
  PROVE  Heeds
<1>1. CASE Live(c)
  BY <1>1, HeedsCall DEF IfLive, Live
<1>2. CASE ~Live(c)
  BY <1>2, HeedsGone DEF IfLive, Thrown, Over
<1> QED
  BY <1>1, <1>2

LEMMA HeedsExec ==
  ASSUME TaskInv, NEW c \in Execs,
         \/ \E r \in Runs : ExecCalled(c, r)
         \/ ExecAdmitted(c) \/ ExecLoaded(c) \/ ExecTop(c) \/ ToolGate(c) \/ ToolWrites(c) \/ ExecImplemented(c)
         \/ ExecVerify(c) \/ ExecPin(c) \/ ExecChecked(c)
         \/ \E verdict \in {"approved", "needs-fix"} : ExecReviewed(c, verdict)
         \/ ExecRefused(c) \/ ExecDrift(c) \/ ExecRecord(c) \/ ExecLive(c) \/ ExecFinish(c) \/ ExecRepair(c) \/ ExecAbort(c)
  PROVE  Heeds
<1>1. exec[c] \in CallRecord
  BY DEF TaskInv, TaskTyped
<1>2. ASSUME NEW r \in Runs, ExecCalled(c, r) PROVE Heeds
  BY <1>2, HeedsCall DEF ExecCalled, NoExec
<1>3. CASE ExecAdmitted(c)
  BY <1>3, HeedsGone, HeedsGoes DEF ExecAdmitted
<1>4. CASE ExecLoaded(c)
  <2>1. CASE Over(c)
    BY <2>1, HeedsGone DEF Over
  <2>2. CASE ~Over(c)
    <3> DEFINE new == [exec[c] EXCEPT !.token = run[R(c)].lease, !.at = "top"]
    <3>1. exec' = [exec EXCEPT ![c] = new] /\ new.at = "top"
      BY <1>1, <1>4, <2>2 DEF ExecLoaded, CallRecord, TaskInv, TaskTyped
    <3> HIDE DEF new
    <3> QED
      BY <3>1, HeedsCall
  <2> QED
    BY <2>1, <2>2
<1>5. CASE ExecTop(c)
  <2>1. CASE exec[c].aborted
    BY <1>5, <2>1, HeedsGone DEF ExecTop, Thrown, Over
  <2>2. CASE ~exec[c].aborted
    <3>1. \A d \in Execs : d # c => exec'[d] = exec[d]
      BY <1>5, <2>2 DEF ExecTop, Goes, Thrown, Over, Gone, TaskInv, TaskTyped
    <3> QED
      BY <2>2, <3>1 DEF Heeds
  <2> QED
    BY <2>1, <2>2
<1>6. CASE ToolGate(c)
  <2> DEFINE new == [exec[c] EXCEPT !.tool = TRUE]
  <2>1. exec' = [exec EXCEPT ![c] = new] /\ new.at = exec[c].at
    BY <1>1, <1>6 DEF ToolGate, CallRecord, TaskInv, TaskTyped
  <2> HIDE DEF new
  <2> QED
    BY <2>1, HeedsCall
<1>7. CASE ToolWrites(c)
  <2> DEFINE new == [exec[c] EXCEPT !.tool = FALSE]
  <2>1. exec' = [exec EXCEPT ![c] = new] /\ new.at = exec[c].at
    BY <1>1, <1>7 DEF ToolWrites, CallRecord, TaskInv, TaskTyped
  <2> HIDE DEF new
  <2> QED
    BY <2>1, HeedsCall
<1>8. CASE ExecImplemented(c)
  BY <1>8, HeedsGone, HeedsGoes DEF ExecImplemented, Thrown, Over
<1>9. CASE ExecVerify(c)
  <2>1. CASE Over(c)
    BY <2>1, HeedsGone DEF Over
  <2>2. CASE ~Over(c)
    <3> DEFINE seen == [run[R(c)] EXCEPT !.pinned = code[R(c)]]
               stage == IF run[R(c)].state = "running" THEN "pin" ELSE "check"
               new == [exec[c] EXCEPT !.at = stage, !.attempt = seen.attempt, !.base = seen.base, !.code = seen.pinned]
    <3>1. exec' = [exec EXCEPT ![c] = new]
      BY <1>9, <2>2 DEF ExecVerify, TaskInv, TaskTyped
    <3>2. stage \in {"pin", "check"}
      OBVIOUS
    <3> HIDE DEF seen, stage
    <3>3. new.at = stage
      BY <1>1 DEF CallRecord
    <3> HIDE DEF new
    <3> QED
      BY <3>1, <3>2, <3>3, HeedsCall
  <2> QED
    BY <2>1, <2>2
<1>10. CASE ExecPin(c)
  BY <1>10, HeedsGone, HeedsGoes DEF ExecPin, Over
<1>11. CASE ExecChecked(c) \/ ExecDrift(c) \/ ExecLive(c)
  BY <1>11, HeedsIfLive DEF ExecChecked, ExecDrift, ExecLive
<1>12. ASSUME NEW verdict \in {"approved", "needs-fix"}, ExecReviewed(c, verdict) PROVE Heeds
  BY <1>12, HeedsIfLive DEF ExecReviewed
<1>13. CASE ExecRefused(c)
  BY <1>13, HeedsGone DEF ExecRefused, Thrown, Over
<1>14. CASE ExecRecord(c)
  BY <1>14, HeedsGone, HeedsGoes DEF ExecRecord, Over
<1>15. CASE ExecFinish(c)
  BY <1>15, HeedsGone, HeedsGoes DEF ExecFinish, Over
<1>16. CASE ExecRepair(c)
  <2>1. CASE Over(c)
    BY <2>1, HeedsGone DEF Over
  <2>2. CASE ~Over(c)
    BY <1>16, <2>2, HeedsCall DEF ExecRepair, NoExec
  <2> QED
    BY <2>1, <2>2
<1>17. CASE ExecAbort(c)
  <2> DEFINE new == [exec[c] EXCEPT !.aborted = TRUE]
  <2>1. exec' = [exec EXCEPT ![c] = new] /\ new.at = exec[c].at
    BY <1>1, <1>17 DEF ExecAbort, CallRecord, TaskInv, TaskTyped
  <2> HIDE DEF new
  <2> QED
    BY <2>1, HeedsCall
<1> QED
  BY <1>2, <1>3, <1>4, <1>5, <1>6, <1>7, <1>8, <1>9, <1>10, <1>11, <1>12, <1>13, <1>14, <1>15, <1>16, <1>17

LEMMA HeedsNext == ASSUME TaskInv, [ExecNext]_execVars PROVE Heeds
<1>1. CASE UNCHANGED exec
  BY <1>1 DEF Heeds
<1>2. ASSUME NEW r \in Runs,
             \/ RunStart(r) \/ RunPause(r) \/ RunResume(r) \/ RunRebaseline(r) \/ RunCancel(r)
             \/ EditCode(r) \/ EditContract(r)
             \/ \E op \in {"takeover", "repair", "review", "finish"} : DeskAsked(op, r)
      PROVE UNCHANGED exec
  BY <1>2 DEF RunStart, RunPause, RunResume, RunRebaseline, RunCancel, EditCode, EditContract, DeskAsked, DeskKeeps
<1>3. CASE DeskTakeover \/ DeskRepair \/ DeskLoaded \/ (\E verdict \in {"approved", "needs-fix"} : DeskReviewed(verdict))
           \/ DeskRecord \/ DeskFinish
  BY <1>3 DEF DeskTakeover, DeskRepair, DeskLoaded, DeskReviewed, DeskRecord, DeskFinish, DeskKeeps, Heeds
<1>4. CASE ExecCrash
  BY <1>4 DEF ExecCrash, NoExec, Heeds
<1>5. CASE UNCHANGED execVars
  BY <1>5 DEF execVars, Heeds
<1> QED
  BY <1>1, <1>2, <1>3, <1>4, <1>5, HeedsExec DEF ExecNext

\* An execution that was aborted begins no turn and no completion, wherever the abort
\* finds it (desktop-executor.ts:292, 421, 460).
THEOREM AbortsHeeded == ExecSpec => ExecHeeded
<1>1. ExecSpec => []TaskInv
  BY TaskInvInit, TaskInvNext, PTL DEF ExecSpec
<1>2. TaskInv /\ [ExecNext]_execVars => [Heeds]_execVars
  BY HeedsNext
<1>3. ExecSpec => [][Heeds]_execVars
  BY <1>1, <1>2, PTL DEF ExecSpec
<1> QED
  BY <1>3 DEF ExecHeeded, Heeds
=============================================================================
