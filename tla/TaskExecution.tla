----------------------------- MODULE TaskExecution -----------------------------
(***************************************************************************)
(* Tasks that a model implements and that are verified before they count as  *)
(* done: the handlers of runs (ipc/harness-handlers.ts) over the executor of *)
(* the desktop (harness/desktop-executor.ts) and the review asked for by the *)
(* user (harness/independent-review.ts).                                     *)
(*                                                                         *)
(* The record of a run, its lease and what may change them belong to a       *)
(* package outside this repository; its operations are modelled as they are  *)
(* used here.  An execution awaits between almost all of its steps, and      *)
(* meanwhile the user pauses, resumes, aborts or finishes, somebody edits    *)
(* the code or the contract, and the tools of the model write.  Left out:    *)
(* steps of verification that need an operator, the second reviewer of the   *)
(* mode xflow, the brief and the history of a thread.                        *)
(***************************************************************************)
EXTENDS Naturals, FiniteSets

CONSTANTS
  Runs, Execs,          \* runs, and calls of runExecute at a time
  NoRun,
  MaxThreads,           \* the budget of executions
  MaxAuto,              \* repairs that nobody asks for
  MaxEdits, MaxAttempts, MaxTokens,   \* bounds on edits, attempts and leases of a run
  ExecUpsets            \* bound on errors and crashes

ASSUME ExecAssumption ==
  /\ NoRun \notin Runs /\ MaxThreads \in Nat \ {0} /\ MaxAuto \in Nat
  /\ MaxEdits \in Nat /\ MaxAttempts \in Nat /\ MaxTokens \in Nat /\ ExecUpsets \in Nat

VARIABLES
  run,        \* the record of each run
  code, contract,   \* versions of the files of the task and of its contract
  inFlight,   \* runs with an execution
  exec,       \* calls of runExecute
  desk,       \* the review, finish, repair or takeover that the user asked for
  mishaps

execVars == <<run, code, contract, inFlight, exec, desk, mishaps>>
-----------------------------------------------------------------------------
\* The verdict "approved" is an approval with every check passed.
NoReceipt == [kind |-> "none", verdict |-> "none", attempt |-> 0, base |-> 0, code |-> 0]
\* `before' is the state a pause remembers; `disk' is history: the version of the files
\* that was last read by who completed the run, which it did with `proof'.
NewRun(mode) == [mode |-> mode, state |-> "queued", before |-> "queued", attempt |-> 0, base |-> 0, lease |-> 0,
                 pinned |-> 0, last |-> NoReceipt, used |-> 0, proof |-> NoReceipt, disk |-> 0]
NoExec == [run |-> NoRun, at |-> "idle", token |-> 0, attempt |-> 0, base |-> 0, code |-> 0,
           verdict |-> "none", rec |-> NoReceipt, disk |-> 0, tool |-> FALSE, aborted |-> FALSE]
NoDesk == [run |-> NoRun, op |-> "none", at |-> "idle", token |-> 0, attempt |-> 0, base |-> 0, rec |-> NoReceipt, code |-> 0]
Upset == mishaps < ExecUpsets /\ mishaps' = mishaps + 1
Calm == UNCHANGED mishaps

\* The mode xdel needs the review of somebody else, xdo does not.
ExecInit ==
  /\ \E mode \in [Runs -> {"xdo", "xdel"}] : run = [r \in Runs |-> NewRun(mode[r])]
  /\ code = [r \in Runs |-> 0] /\ contract = [r \in Runs |-> 0]
  /\ inFlight = {} /\ exec = [c \in Execs |-> NoExec] /\ desk = NoDesk /\ mishaps = 0
-----------------------------------------------------------------------------
\* The operations on a run, each refused to who does not hold the lease.
\* Leases are numbered: who starts or takes over has the next.
Owns(r, token) == token # 0 /\ run[r].lease = token
Sets(r, new) == run' = [run EXCEPT ![r] = new]
Verifies(r, token, seen) ==
  /\ run[r].state = "running" /\ Owns(r, token)
  /\ Sets(r, [run[r] EXCEPT !.state = "verifying", !.pinned = seen])
Accepts(r, token, rec) ==
  run[r].state = "verifying" /\ Owns(r, token) /\ rec.attempt = run[r].attempt /\ rec.base = run[r].base
Completes(r, token, rec, seen) ==
  /\ Accepts(r, token, rec) /\ rec.verdict = "approved" /\ rec.code = seen
  /\ run[r].mode = "xdel" => rec.kind = "independent"
Repairs(r, token, unasked) ==
  /\ Accepts(r, token, run[r].last) /\ run[r].last.verdict # "approved"
  /\ run[r].attempt < MaxAttempts /\ (unasked => run[r].used < MaxAuto)
Repaired(r, unasked) ==
  Sets(r, [run[r] EXCEPT !.state = "running", !.pinned = 0, !.attempt = @ + 1, !.used = @ + (IF unasked THEN 1 ELSE 0)])
\* Nobody reads the rest of a run that has ended.
Ended(r, state) == [NewRun(run[r].mode) EXCEPT !.state = state]
Going(r) == run[r].state \notin {"done", "cancelled"}
Pausable(r) == run[r].state \in {"queued", "running", "verifying"}
Paused(r) == [run[r] EXCEPT !.state = "paused", !.before = run[r].state]

RunStart(r) ==
  /\ run[r].state = "queued" /\ contract[r] = run[r].base
  /\ run[r].attempt < MaxAttempts /\ run[r].lease < MaxTokens
  /\ Sets(r, [run[r] EXCEPT !.state = "running", !.attempt = @ + 1, !.lease = @ + 1])
  /\ UNCHANGED <<code, contract, inFlight, exec, desk, mishaps>>
RunPause(r) == Pausable(r) /\ Sets(r, Paused(r)) /\ UNCHANGED <<code, contract, inFlight, exec, desk, mishaps>>
RunResume(r) ==
  /\ run[r].state = "paused" /\ contract[r] = run[r].base
  /\ Sets(r, [run[r] EXCEPT !.state = run[r].before, !.before = "queued"])
  /\ UNCHANGED <<code, contract, inFlight, exec, desk, mishaps>>
RunRebaseline(r) ==
  /\ run[r].state = "paused" /\ Sets(r, [run[r] EXCEPT !.state = "queued", !.before = "queued", !.pinned = 0, !.base = contract[r]])
  /\ UNCHANGED <<code, contract, inFlight, exec, desk, mishaps>>
RunCancel(r) ==
  /\ Going(r) /\ Sets(r, Ended(r, "cancelled"))
  /\ UNCHANGED <<code, contract, inFlight, exec, desk, mishaps>>

EditCode(r) ==
  /\ Going(r) /\ code[r] + contract[r] < MaxEdits /\ code' = [code EXCEPT ![r] = @ + 1]
  /\ UNCHANGED <<run, contract, inFlight, exec, desk, mishaps>>
EditContract(r) ==
  /\ Going(r) /\ code[r] + contract[r] < MaxEdits /\ contract' = [contract EXCEPT ![r] = @ + 1]
  /\ UNCHANGED <<run, code, inFlight, exec, desk, mishaps>>
-----------------------------------------------------------------------------
\* runExecute looks at the executions in flight before and after it reads the budget.
R(c) == exec[c].run
At(c, stage) == exec[c].at = stage
Goes(c, stage) == exec' = [exec EXCEPT ![c].at = stage]
Gone(c) == exec' = [exec EXCEPT ![c] = NoExec]
Over(c) == Gone(c) /\ inFlight' = inFlight \ {R(c)}
Stays == UNCHANGED inFlight
FilesKeep == UNCHANGED <<code, contract, desk>>

ExecCalled(c, r) ==
  /\ At(c, "idle") /\ r \notin inFlight
  /\ exec' = [exec EXCEPT ![c] = [NoExec EXCEPT !.run = r, !.at = "budget"]]
  /\ UNCHANGED run /\ Stays /\ FilesKeep /\ Calm
Admits(r) == Cardinality(inFlight) < MaxThreads /\ r \notin inFlight
ExecAdmitted(c) ==
  /\ At(c, "budget") /\ UNCHANGED run /\ FilesKeep /\ Calm
  /\ IF Admits(R(c)) THEN inFlight' = inFlight \cup {R(c)} /\ Goes(c, "load") ELSE Gone(c) /\ Stays
ExecLoaded(c) ==
  /\ At(c, "load") /\ UNCHANGED run /\ FilesKeep /\ Calm
  /\ IF run[R(c)].lease = 0 THEN Over(c)
     ELSE exec' = [exec EXCEPT ![c].token = run[R(c)].lease, ![c].at = "top"] /\ Stays

\* What throws ends the execution, which pauses the run if it was aborted.
Thrown(c) ==
  /\ Over(c)
  /\ IF exec[c].aborted /\ Pausable(R(c)) /\ Owns(R(c), exec[c].token) THEN Sets(R(c), Paused(R(c))) ELSE UNCHANGED run
\* prepareDesktopTaskTurn: the state, the lease and the contract.
MayTurn(c, state) ==
  run[R(c)].state = state /\ Owns(R(c), exec[c].token) /\ contract[R(c)] = run[R(c)].base

\* executeDesktopTask: a model implements a task that is running; what is verifying goes on.
ExecTop(c) ==
  /\ At(c, "top") /\ FilesKeep /\ Calm
  /\ CASE exec[c].aborted -> Thrown(c)
       [] ~exec[c].aborted /\ run[R(c)].state # "running" -> Goes(c, "verify") /\ UNCHANGED run /\ Stays
       [] ~exec[c].aborted /\ run[R(c)].state = "running" ->
            IF MayTurn(c, "running")
              THEN exec' = [exec EXCEPT ![c].at = "implement", ![c].attempt = run[R(c)].attempt] /\ UNCHANGED run /\ Stays
              ELSE Thrown(c)
\* A tool is let through, then it writes.
ToolGate(c) ==
  /\ At(c, "implement") /\ ~exec[c].tool /\ ~exec[c].aborted
  /\ MayTurn(c, "running") /\ run[R(c)].attempt = exec[c].attempt
  /\ exec' = [exec EXCEPT ![c].tool = TRUE] /\ UNCHANGED run /\ Stays /\ FilesKeep /\ Calm
ToolWrites(c) ==
  /\ exec[c].tool /\ code[R(c)] + contract[R(c)] < MaxEdits
  /\ code' = [code EXCEPT ![R(c)] = @ + 1] /\ exec' = [exec EXCEPT ![c].tool = FALSE]
  /\ UNCHANGED <<run, contract, inFlight, desk, mishaps>>
\* The turn ends when its session has been cancelled and its tools are through.
Drained(c) == ~exec[c].tool
ExecImplemented(c) ==
  /\ At(c, "implement") /\ Drained(c) /\ FilesKeep
  /\ \/ ~exec[c].aborted /\ MayTurn(c, "running") /\ Goes(c, "verify") /\ UNCHANGED run /\ Stays /\ Calm
     \/ ~(~exec[c].aborted /\ MayTurn(c, "running")) /\ Thrown(c) /\ Calm
     \/ Thrown(c) /\ Upset

\* verifyDesktopTask: the files are listed, and the list is pinned or is the one that was.
ExecVerify(c) ==
  /\ At(c, "verify") /\ UNCHANGED run /\ FilesKeep /\ Calm
  /\ LET new == [run[R(c)] EXCEPT !.pinned = code[R(c)]] IN
     IF /\ run[R(c)].state \in {"running", "verifying"} /\ contract[R(c)] = run[R(c)].base
        /\ run[R(c)].state = "verifying" => run[R(c)] = new
       THEN /\ exec' = [exec EXCEPT ![c] = [@ EXCEPT !.at = IF run[R(c)].state = "running" THEN "pin" ELSE "check",
                                                     !.attempt = new.attempt, !.base = new.base, !.code = new.pinned]]
            /\ Stays
       ELSE Over(c)
ExecPin(c) ==
  /\ At(c, "pin") /\ FilesKeep /\ Calm
  /\ \/ Verifies(R(c), exec[c].token, exec[c].code) /\ Goes(c, "check") /\ Stays
     \/ ~(run[R(c)].state = "running" /\ Owns(R(c), exec[c].token)) /\ Over(c) /\ UNCHANGED run

\* checkCurrent.
\* Mutant: the signal is not looked at.
LiveAnyway(c) == MayTurn(c, "verifying") /\ run[R(c)].attempt = exec[c].attempt
Live(c) == ~exec[c].aborted /\ MayTurn(c, "verifying") /\ run[R(c)].attempt = exec[c].attempt
\* A step that goes on when the run is still current, with `new' for the call.
IfLive(c, new) ==
  IF Live(c) THEN exec' = [exec EXCEPT ![c] = new] /\ UNCHANGED run /\ Stays ELSE Thrown(c)

\* The commands run, and the run is looked at before each and before the review.
ExecChecked(c) == At(c, "check") /\ FilesKeep /\ Calm /\ IfLive(c, [exec[c] EXCEPT !.at = "review"])
ExecReviewed(c, verdict) ==
  At(c, "review") /\ FilesKeep /\ Calm /\ IfLive(c, [exec[c] EXCEPT !.at = "drift", !.verdict = verdict])
\* No claim, or one that cites what did not pass: nothing is recorded.
ExecRefused(c) == At(c, "review") /\ FilesKeep /\ Upset /\ Thrown(c)

\* The files are listed once more, and what was reviewed no longer counts if they changed.
\* Mutant: the list of the start is taken.
RereadNothing(c) == exec[c].code
Reread(c) == code[R(c)]
SelfReceipt(c) ==
  [kind |-> "self", verdict |-> IF Reread(c) = exec[c].code THEN exec[c].verdict ELSE "blocked",
   attempt |-> exec[c].attempt, base |-> exec[c].base, code |-> exec[c].code]
ExecDrift(c) ==
  At(c, "drift") /\ FilesKeep /\ Calm
  /\ IfLive(c, [exec[c] EXCEPT !.at = "record", !.verdict = "none", !.rec = SelfReceipt(c), !.code = Reread(c), !.disk = code[R(c)]])
\* The receipt is kept whatever it says; a drift ends the execution, and so does an
\* approval that somebody else has yet to give.
ExecRecord(c) ==
  /\ At(c, "record") /\ FilesKeep /\ Calm
  /\ LET rec == exec[c].rec IN
     IF Accepts(R(c), exec[c].token, rec)
       THEN /\ Sets(R(c), [run[R(c)] EXCEPT !.last = rec])
            /\ IF rec.code # exec[c].code \/ (run[R(c)].mode = "xdel" /\ rec.verdict = "approved")
                 THEN Over(c) ELSE Goes(c, "live") /\ Stays
       ELSE Over(c) /\ UNCHANGED run
ExecLive(c) == At(c, "live") /\ FilesKeep /\ Calm /\ IfLive(c, [exec[c] EXCEPT !.at = "finish"])
Done(r, rec, disk) == Sets(r, [Ended(r, "done") EXCEPT !.proof = rec, !.disk = disk])
ExecFinish(c) ==
  /\ At(c, "finish") /\ FilesKeep /\ Calm
  /\ IF Completes(R(c), exec[c].token, exec[c].rec, exec[c].code)
       THEN Done(R(c), exec[c].rec, exec[c].disk) /\ Over(c)
       ELSE /\ UNCHANGED run
            /\ IF run[R(c)].mode = "xdel" \/ exec[c].rec.verdict = "blocked" THEN Over(c) ELSE Goes(c, "repair") /\ Stays
ExecRepair(c) ==
  /\ At(c, "repair") /\ FilesKeep /\ Calm
  /\ IF Repairs(R(c), exec[c].token, TRUE)
       THEN /\ Repaired(R(c), TRUE) /\ Stays
            /\ exec' = [exec EXCEPT ![c] = [NoExec EXCEPT !.run = R(c), !.at = "top", !.token = exec[c].token, !.aborted = exec[c].aborted]]
       ELSE Over(c) /\ UNCHANGED run

ExecAbort(c) ==
  /\ exec[c].at \notin {"idle", "budget"} /\ ~exec[c].aborted
  /\ exec' = [exec EXCEPT ![c].aborted = TRUE] /\ UNCHANGED <<run, code, contract, inFlight, desk, mishaps>>
-----------------------------------------------------------------------------
\* What is refused while an execution is in flight, which may begin before it is over.
DeskEnds == desk' = NoDesk
DeskKeeps == UNCHANGED <<code, contract, inFlight, exec, mishaps>>
DeskAsked(op, r) ==
  /\ desk.at = "idle" /\ r \notin inFlight
  /\ desk' = [NoDesk EXCEPT !.run = r, !.op = op, !.at = "asked"] /\ UNCHANGED run /\ DeskKeeps
DeskTakeover ==
  /\ desk.at = "asked" /\ desk.op = "takeover" /\ DeskEnds /\ DeskKeeps
  /\ LET r == desk.run IN
     IF run[r].lease \in 1..MaxTokens - 1
       THEN Sets(r, [run[r] EXCEPT !.lease = @ + 1]) ELSE UNCHANGED run
DeskRepair ==
  /\ desk.at = "asked" /\ desk.op = "repair" /\ DeskEnds /\ DeskKeeps
  /\ IF Repairs(desk.run, run[desk.run].lease, FALSE) THEN Repaired(desk.run, FALSE) ELSE UNCHANGED run

\* requestIndependentReview audits the last receipt of the attempt that is verifying.
Auditable(r) ==
  LET rec == run[r].last IN
  /\ run[r].state = "verifying" /\ run[r].lease # 0 /\ rec # NoReceipt
  /\ rec.attempt = run[r].attempt /\ rec.base = run[r].base /\ rec.code = run[r].pinned /\ contract[r] = run[r].base
DeskLoaded ==
  LET r == desk.run IN
  /\ desk.at = "asked" /\ desk.op \in {"review", "finish"} /\ UNCHANGED run /\ DeskKeeps
  /\ IF \/ desk.op = "review" /\ Auditable(r)
        \/ desk.op = "finish" /\ run[r].state = "verifying" /\ run[r].last # NoReceipt
       THEN desk' = [desk EXCEPT !.at = "loaded", !.token = run[r].lease, !.attempt = run[r].attempt, !.base = run[r].base,
                                 !.rec = run[r].last, !.code = code[r]]
       ELSE DeskEnds
DeskCurrent ==
  LET r == desk.run IN
  /\ run[r].state = "verifying" /\ run[r].attempt = desk.attempt
  /\ Owns(r, desk.token) /\ contract[r] = desk.base
DeskReviewed(verdict) ==
  /\ desk.at = "loaded" /\ desk.op = "review" /\ UNCHANGED run /\ DeskKeeps
  /\ IF DeskCurrent
       THEN desk' = [desk EXCEPT !.at = "record", !.rec.kind = "independent",
                                 !.rec.verdict = IF code[desk.run] = desk.rec.code THEN verdict ELSE "blocked"]
       ELSE DeskEnds
DeskRecord ==
  /\ desk.at = "record" /\ DeskEnds /\ DeskKeeps
  /\ IF Accepts(desk.run, desk.token, desk.rec) THEN Sets(desk.run, [run[desk.run] EXCEPT !.last = desk.rec]) ELSE UNCHANGED run
\* finishWithLatestReceipt.
DeskFinish ==
  /\ desk.at = "loaded" /\ desk.op = "finish" /\ DeskEnds /\ DeskKeeps
  /\ IF Completes(desk.run, desk.token, desk.rec, desk.code) THEN Done(desk.run, desk.rec, desk.code) ELSE UNCHANGED run

\* The process dies: the records and the files are what is left.
ExecCrash ==
  /\ Upset /\ exec' = [c \in Execs |-> NoExec] /\ inFlight' = {} /\ desk' = NoDesk
  /\ UNCHANGED <<run, code, contract>>

ExecNext ==
  \/ \E r \in Runs :
       \/ RunStart(r) \/ RunPause(r) \/ RunResume(r) \/ RunRebaseline(r) \/ RunCancel(r)
       \/ EditCode(r) \/ EditContract(r)
       \/ \E op \in {"takeover", "repair", "review", "finish"} : DeskAsked(op, r)
  \/ \E c \in Execs :
       \/ \E r \in Runs : ExecCalled(c, r)
       \/ ExecAdmitted(c) \/ ExecLoaded(c) \/ ExecTop(c) \/ ToolGate(c) \/ ToolWrites(c) \/ ExecImplemented(c)
       \/ ExecVerify(c) \/ ExecPin(c) \/ ExecChecked(c)
       \/ \E verdict \in {"approved", "needs-fix"} : ExecReviewed(c, verdict)
       \/ ExecRefused(c) \/ ExecDrift(c) \/ ExecRecord(c) \/ ExecLive(c) \/ ExecFinish(c) \/ ExecRepair(c) \/ ExecAbort(c)
  \/ DeskTakeover \/ DeskRepair \/ DeskLoaded \/ \E verdict \in {"approved", "needs-fix"} : DeskReviewed(verdict)
  \/ DeskRecord \/ DeskFinish \/ ExecCrash

ExecSpec == ExecInit /\ [][ExecNext]_execVars
-----------------------------------------------------------------------------
\* A run is counted as in flight exactly while one execution of it is under way,
\* although the budget is read between the look at the runs in flight and the entry
\* (harness-handlers.ts:518-526, 595).
ExecTypeOK ==
  /\ \A r \in Runs :
       /\ run[r].state \in {"queued", "running", "verifying", "paused", "done", "cancelled"}
       /\ Cardinality({c \in Execs : R(c) = r /\ ~At(c, "budget")}) = IF r \in inFlight THEN 1 ELSE 0

\* No tool of the implementing model can still write while its run is verified or when
\* it is done (desktop-task-turn.ts:193-197).
ExecQuiet ==
  \A c \in Execs : exec[c].tool => run[R(c)].state \notin {"verifying", "done"}

\* A run that is done was completed with a receipt of the very files that were on the
\* disk after the review, whatever was edited since the checks began, and across
\* crashes, pauses and repairs (desktop-executor.ts:393-407, independent-review.ts:272).
ExecProven ==
  \A r \in Runs : run[r].state = "done" => run[r].proof.code = run[r].disk

\* What is done was proven, with nobody writing.
ExecSafe == ExecTypeOK /\ ExecQuiet /\ ExecProven

\* An execution that was aborted begins no turn of the model and completes nothing,
\* unless the completion was already under way (desktop-executor.ts:292, 421, 460).
ExecHeeded ==
  [][\A c \in Execs :
       exec[c].aborted /\ exec'[c].at # exec[c].at => exec'[c].at \notin {"implement", "finish"}]_execVars
=============================================================================
