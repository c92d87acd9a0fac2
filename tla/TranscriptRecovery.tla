-------------------------- MODULE TranscriptRecovery --------------------------
(***************************************************************************)
(* The ledger of turns whose transcript is still to be read:                *)
(* TranscriptRecovery (knowledge/transcript-recovery.ts), which hands what   *)
(* it reads to the CaptureInbox and keeps a turn until its transcript is     *)
(* complete or its observation is revoked.                                  *)
(***************************************************************************)
EXTENDS CaptureInbox

CONSTANTS
  Turns,         \* the turns that may be recovered
  NoTurn,
  Partial,       \* the events read from the transcript of a turn under way
  Whole,         \* and from a complete one
  Recorded,      \* a batch the recorder of turns captures itself
  RecoveryLimit  \* rows one drain takes (10 in the code)

ASSUME RecoveryAssumption ==
  /\ NoTurn \notin Turns /\ Recorded \subseteq Events /\ RecoveryLimit \in Nat \ {0}
  /\ Partial \in [Turns -> SUBSET Events] /\ Whole \in [Turns -> SUBSET Events]

VARIABLES
  recovery,     \* transcript-recovery.json
  readings,     \* what a read of each transcript gives
  revoked,      \* turns whose observation has been revoked
  recoveryTask  \* the operation that holds the queue

recoveryVars == <<recovery, readings, revoked, recoveryTask>>
ledgerVars == <<inboxVars, recoveryVars>>
-----------------------------------------------------------------------------
\* The operation: the rows it has still to take, and where it is with the first:
\* `open' before the transcript is read, `read' after, `sent' while the inbox has it.
RecoveryIdle == [kind |-> "idle", todo |-> <<>>, at |-> "open", complete |-> FALSE]
RecoveryFree == recoveryTask.kind = "idle"
RecoveryTurn == IF RecoveryFree THEN NoTurn ELSE Head(recoveryTask.todo)
RecoveryAt(step) == ~RecoveryFree /\ recoveryTask.at = step

RecoveryInit ==
  /\ InboxInit
  /\ recovery = <<>> /\ revoked = {}
  /\ readings = [t \in Turns |-> "missing"] /\ recoveryTask = RecoveryIdle

\* The delivery of this row is over, well or not: on to the next.
RecoveryNextRow ==
  recoveryTask' = IF Len(recoveryTask.todo) = 1 THEN RecoveryIdle
                  ELSE [recoveryTask EXCEPT !.todo = Tail(@), !.at = "open"]

\* What is saved when the row is tried once more: a submission counts the attempt
\* in the rows it saves, a drain in a row of an earlier reading, which it does not.
RecoveryTriedAgain ==
  IF recoveryTask.kind = "submit" THEN BackedOff(recovery, RecoveryTurn) ELSE recovery

\* submit: save a row for the turn unless there is one, and deliver it.
RecoverySubmit(t) ==
  /\ RecoveryFree
  /\ recovery' = WithRow(recovery, t)
  /\ recoveryTask' = [kind |-> "submit", todo |-> <<t>>, at |-> "open", complete |-> FALSE]
  /\ UNCHANGED <<inboxVars, readings, revoked>>

\* Mutant: a drain takes one row.
RecoveryDrainOne ==
  /\ RecoveryFree /\ enabled
  /\ LET due == DueRows(recovery, 1) IN
     /\ due # <<>>
     /\ recoveryTask' = [kind |-> "drain", todo |-> due, at |-> "open", complete |-> FALSE]
  /\ UNCHANGED <<inboxVars, recovery, readings, revoked>>

\* drain: the first rows that are due, each delivered over a new reading.
RecoveryDrain ==
  /\ RecoveryFree /\ enabled
  /\ LET due == DueRows(recovery, RecoveryLimit) IN
     /\ due # <<>>
     /\ recoveryTask' = [kind |-> "drain", todo |-> due, at |-> "open", complete |-> FALSE]
  /\ UNCHANGED <<inboxVars, recovery, readings, revoked>>

\* The two checks, before the transcript is read and after: a setting that is off
\* leaves the row for later, a revoked turn loses it.
RecoveryCheck ==
  /\ RecoveryAt("open") \/ RecoveryAt("read")
  /\ ~enabled \/ RecoveryTurn \in revoked
  /\ recovery' = IF enabled THEN WithoutRow(recovery, RecoveryTurn) ELSE recovery
  /\ RecoveryNextRow
  /\ UNCHANGED <<inboxVars, readings, revoked>>

\* The transcript is read, or cannot be.
RecoveryRead ==
  /\ RecoveryAt("open") /\ enabled /\ RecoveryTurn \notin revoked
  /\ IF readings[RecoveryTurn] = "missing"
       THEN recovery' = RecoveryTriedAgain /\ RecoveryNextRow
       ELSE /\ recoveryTask' = [recoveryTask EXCEPT !.at = "read",
                 !.complete = (readings[RecoveryTurn] = "complete")]
            /\ UNCHANGED recovery
  /\ UNCHANGED <<inboxVars, readings, revoked>>

\* The entries go to the inbox.
RecoverySend ==
  /\ RecoveryAt("read") /\ enabled /\ RecoveryTurn \notin revoked
  /\ InboxSubmit(IF recoveryTask.complete THEN Whole[RecoveryTurn] ELSE Partial[RecoveryTurn],
                 "recovery")
  /\ recoveryTask' = [recoveryTask EXCEPT !.at = "sent"]
  /\ UNCHANGED <<recovery, readings, revoked>>

\* Mutant: a complete turn goes although the inbox has refused it.
RecoverySettleAnyway ==
  /\ RecoveryAt("sent") /\ reply # "none"
  /\ recovery' = IF recoveryTask.complete
                   THEN WithoutRow(recovery, RecoveryTurn) ELSE RecoveryTriedAgain
  /\ reply' = "none" /\ RecoveryNextRow
  /\ UNCHANGED <<inbox, evidence, enabled, inboxTask, faults, declined>>
  /\ UNCHANGED <<readings, revoked>>

\* The inbox has answered: the row of a complete turn goes, any other is tried
\* again.
RecoverySettle ==
  /\ RecoveryAt("sent") /\ reply # "none"
  /\ recovery' = IF reply = "ok" /\ recoveryTask.complete
                   THEN WithoutRow(recovery, RecoveryTurn) ELSE RecoveryTriedAgain
  /\ reply' = "none" /\ RecoveryNextRow
  /\ UNCHANGED <<inbox, evidence, enabled, inboxTask, faults, declined>>
  /\ UNCHANGED <<readings, revoked>>

\* The file cannot be saved at the end of a delivery: what the handler of the error
\* saves is the row tried again, or nothing.
RecoveryUnsaved ==
  /\ RecoveryAt("sent") /\ reply # "none" /\ Fault
  /\ recovery' \in {RecoveryTriedAgain, recovery}
  /\ reply' = "none" /\ RecoveryNextRow
  /\ UNCHANGED <<inbox, evidence, enabled, inboxTask, declined>>
  /\ UNCHANGED <<readings, revoked>>

\* The world: a transcript grows, a source is revoked, time
\* passes, the process dies and starts again.
RecoveryGrows(t) ==
  /\ readings' = [readings EXCEPT ![t] = IF @ = "missing" THEN "partial" ELSE "complete"]
  /\ UNCHANGED <<inboxVars, recovery, revoked, recoveryTask>>
RecoveryRevoke(t) ==
  /\ Fault /\ revoked' = revoked \cup {t}
  /\ UNCHANGED <<inbox, evidence, enabled, inboxTask, reply, declined>>
  /\ UNCHANGED <<recovery, readings, recoveryTask>>
RecoveryTick ==
  /\ inbox' = Aged(inbox) /\ recovery' = Aged(recovery)
  /\ UNCHANGED <<evidence, enabled, inboxTask, reply, faults, declined>>
  /\ UNCHANGED <<readings, revoked, recoveryTask>>
RecoveryCrash ==
  /\ Fault
  /\ inboxTask' = InboxIdle /\ recoveryTask' = RecoveryIdle /\ reply' = "none"
  /\ UNCHANGED <<inbox, evidence, enabled, declined>>
  /\ UNCHANGED <<recovery, readings, revoked>>

InboxOnly ==
  \/ InboxSubmit(Recorded, "recorder") \/ InboxDrain \/ InboxSteps \/ InboxFails
  \/ InboxPolicy

RecoveryNext ==
  \/ InboxOnly /\ UNCHANGED recoveryVars
  \/ \E t \in Turns : RecoverySubmit(t) \/ RecoveryGrows(t) \/ RecoveryRevoke(t)
  \/ RecoveryDrain \/ RecoveryCheck \/ RecoveryRead \/ RecoverySend
  \/ RecoverySettle \/ RecoveryUnsaved
  \/ RecoveryTick \/ RecoveryCrash

\* Every operation goes on; the timer drains both ledgers and its turn in the queues
\* comes; time passes.
RecoveryFairness ==
  /\ WF_ledgerVars(InboxSteps /\ UNCHANGED recoveryVars)
  /\ SF_ledgerVars(InboxDrain /\ UNCHANGED recoveryVars)
  /\ WF_ledgerVars(RecoveryCheck \/ RecoveryRead \/ RecoverySettle)
  /\ SF_ledgerVars(RecoverySend) /\ SF_ledgerVars(RecoveryDrain)
  /\ WF_ledgerVars(RecoveryTick)
-----------------------------------------------------------------------------
RecoveryTypeOK ==
  /\ InboxTypeOK
  /\ RowIds(recovery) \subseteq Turns
  /\ Cardinality(RowIds(recovery)) = Len(recovery)
  /\ readings \in [Turns -> {"missing", "partial", "complete"}]
  /\ revoked \subseteq Turns
  /\ RecoveryTurn \in Turns \cup {NoTurn}

\* A turn leaves the ledger only when it is revoked, or all its evidence is in the
\* store, waits in the inbox or was kept out by the policy: across both ledgers, and
\* whatever fails or dies between (transcript-recovery.ts: deliver 59-85).
RecoveryKeeps ==
  [][\A t \in RowIds(recovery) \ RowIds(recovery') :
       t \in revoked \/ Whole[t] \subseteq evidence \cup declined \cup UNION RowIds(inbox)]_recovery

\* A turn whose transcript is complete does not stay in the ledger for ever, whatever
\* becomes of the others, as long as fewer of them fail than one drain takes
\* (transcript-recovery.ts:86-95).
RecoverySettles ==
  \A t \in Turns : []<>(t \notin RowIds(recovery) \/ ~enabled \/ readings[t] # "complete")
=============================================================================
