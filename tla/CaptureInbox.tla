----------------------------- MODULE CaptureInbox -----------------------------
(***************************************************************************)
(* The outbox between captured evidence and the observation store:          *)
(* CaptureInbox (knowledge/capture-inbox.ts), with the timer that drains it  *)
(* (knowledge/agent-turn-recorder.ts).                                      *)
(*                                                                         *)
(* A batch is saved before it is captured and removed after; its id is the  *)
(* hash of its events, so a row is identified by the set of them.  The      *)
(* serial queue runs one operation at a time; it is first in, first out,    *)
(* which is abstracted to: whoever waits may be next.  The deadline of a    *)
(* row is kept as the time that is left.                                    *)
(***************************************************************************)
EXTENDS Naturals, Sequences, FiniteSets, Positions

CONSTANTS
  Events,      \* the events evidence is made of, by source event id
  InboxLimit,  \* rows one drain takes (20 in the code)
  MaxAttempts, \* where the backoff stops growing (8 in the code)
  MaxFaults    \* bound on failures, crashes, revocations and changes of the policy

ASSUME InboxAssumption ==
  InboxLimit \in Nat \ {0} /\ MaxAttempts \in Nat \ {0} /\ MaxFaults \in Nat

VARIABLES
  inbox,     \* capture-inbox.json
  evidence,  \* events in the observation store
  enabled,   \* the memory policy lets what is said in a workspace in
  inboxTask, \* the operation that holds the queue
  reply,     \* what the last submission is told, until its caller has read it
  faults,    \* how much has gone wrong so far
  declined   \* history: events the policy kept out of a batch

inboxVars == <<inbox, evidence, enabled, inboxTask, reply, faults, declined>>
-----------------------------------------------------------------------------
(* A file of rows [id, attempts, left], as both ledgers have. *)
RowIds(rows) == {rows[i].id : i \in DOMAIN rows}
WithRow(rows, id) ==
  IF id \in RowIds(rows) THEN rows ELSE Append(rows, [id |-> id, attempts |-> 0, left |-> 0])
WithoutRow(rows, id) == Chosen(rows, {i \in DOMAIN rows : rows[i].id # id})
AtMostAttempts(n) == IF n < MaxAttempts THEN n ELSE MaxAttempts

\* One more attempt of a row, and its delay: what is left doubles in the code and
\* grows by one here, up to a limit in both.
BackedOff(rows, id) ==
  [i \in DOMAIN rows |->
     IF rows[i].id # id THEN rows[i]
     ELSE LET attempts == AtMostAttempts(rows[i].attempts + 1)
          IN [id |-> id, attempts |-> attempts, left |-> attempts]]

\* The ids of the first rows that are due.
DueRows(rows, limit) ==
  LET due == Chosen(rows, {i \in DOMAIN rows : rows[i].left = 0})
  IN [i \in 1..(IF Len(due) < limit THEN Len(due) ELSE limit) |-> due[i].id]

Aged(rows) ==
  [i \in DOMAIN rows |-> [rows[i] EXCEPT !.left = IF @ = 0 THEN 0 ELSE @ - 1]]
-----------------------------------------------------------------------------
\* The operation: its kind, the rows it has still to take (the first is under way
\* once open) and the events of that row that it has still to capture.
InboxIdle == [kind |-> "idle", todo |-> <<>>, open |-> FALSE, events |-> {}]
InboxFree == inboxTask.kind = "idle"

\* The next row of the operation, or its end.
InboxNextRow(task) ==
  IF Len(task.todo) = 1 THEN InboxIdle
  ELSE [task EXCEPT !.todo = Tail(@), !.open = FALSE, !.events = {}]

Fault == faults < MaxFaults /\ faults' = faults + 1

\* The entries the policy lets in now.
Filtered(batch) == IF enabled THEN batch ELSE {}

\* Only the recovery of transcripts waits for what becomes of its submission.
InboxReplies(kind, answer) == reply' = IF kind = "recovery" THEN answer ELSE reply

InboxInit ==
  /\ inbox = <<>> /\ evidence = {} /\ enabled \in BOOLEAN
  /\ inboxTask = InboxIdle /\ reply = "none" /\ faults = 0
  /\ declined = {}

\* submit: filter the batch, save a row for what is left of it, deliver it.  An
\* empty batch is answered at once; a save that fails is told to the caller.
InboxSubmit(batch, kind) ==
  LET id == Filtered(batch) IN
  /\ declined' = declined \cup (batch \ id)
  /\ \/ /\ id = {} /\ InboxReplies(kind, "ok")
        /\ UNCHANGED <<inbox, inboxTask, faults>>
     \/ /\ id # {} /\ InboxFree
        /\ inbox' = WithRow(inbox, id)
        /\ inboxTask' = [kind |-> kind, todo |-> <<id>>, open |-> FALSE, events |-> {}]
        /\ UNCHANGED <<reply, faults>>
     \/ /\ id # {} /\ id \notin RowIds(inbox) /\ InboxFree /\ Fault
        /\ InboxReplies(kind, "failed")
        /\ UNCHANGED <<inbox, inboxTask>>
  /\ UNCHANGED <<evidence, enabled>>

\* drain, when the timer asks for it and something is due.
InboxDrain ==
  /\ InboxFree /\ DueRows(inbox, InboxLimit) # <<>>
  /\ inboxTask' = [kind |-> "drain", todo |-> DueRows(inbox, InboxLimit),
                   open |-> FALSE, events |-> {}]
  /\ UNCHANGED <<inbox, evidence, enabled, reply, faults, declined>>

\* deliver: filter the entries of the row as the policy is now.
InboxOpen ==
  /\ ~InboxFree /\ ~inboxTask.open
  /\ LET id == Head(inboxTask.todo) IN
     /\ inboxTask' = [inboxTask EXCEPT !.open = TRUE, !.events = Filtered(id)]
     /\ declined' = declined \cup (id \ Filtered(id))
  /\ UNCHANGED <<inbox, evidence, enabled, reply, faults>>

\* One entry is captured; the store keeps one observation per source event id.
InboxCapture(e) ==
  /\ inboxTask.open /\ e \in inboxTask.events
  /\ evidence' = evidence \cup {e}
  /\ inboxTask' = [inboxTask EXCEPT !.events = @ \ {e}]
  /\ UNCHANGED <<inbox, enabled, reply, faults, declined>>

InboxAnswer(answer) ==
  /\ inboxTask' = InboxNextRow(inboxTask)
  /\ InboxReplies(inboxTask.kind, answer)

\* All entries are captured: the row goes.
InboxAck ==
  /\ inboxTask.open /\ inboxTask.events = {}
  /\ inbox' = WithoutRow(inbox, Head(inboxTask.todo))
  /\ InboxAnswer("ok")
  /\ UNCHANGED <<evidence, enabled, faults, declined>>

\* A capture or the save after it fails: the row backs off, if that is saved.
InboxFails ==
  /\ inboxTask.open /\ Fault
  /\ inbox' \in {BackedOff(inbox, Head(inboxTask.todo)), inbox}
  /\ InboxAnswer("failed")
  /\ UNCHANGED <<evidence, enabled, declined>>

\* The user changes what memory may hold.
InboxPolicy ==
  /\ Fault /\ enabled' = ~enabled
  /\ UNCHANGED <<inbox, evidence, inboxTask, reply, declined>>

InboxSteps == InboxOpen \/ (\E e \in Events : InboxCapture(e)) \/ InboxAck
-----------------------------------------------------------------------------
InboxTypeOK ==
  /\ \A i \in DOMAIN inbox :
       /\ inbox[i].id \in (SUBSET Events) \ {{}}
       /\ inbox[i].attempts \in 0..MaxAttempts /\ inbox[i].left \in 0..MaxAttempts
  /\ Cardinality(RowIds(inbox)) = Len(inbox)
  /\ enabled \in BOOLEAN /\ evidence \cup declined \subseteq Events
  /\ inboxTask.kind \in {"idle", "recorder", "recovery", "drain"}
  /\ inboxTask.events \subseteq Events
  /\ reply \in {"none", "ok", "failed"} /\ faults \in 0..MaxFaults

\* A row leaves the inbox only when all it carried is in the store or was kept out
\* by the policy: no crash and no failure loses evidence, and a failed entry keeps
\* the whole row (capture-inbox.ts: deliver 53-70).
InboxKeeps ==
  [][\A id \in RowIds(inbox) \ RowIds(inbox') : id \subseteq evidence' \cup declined']_inbox

\* Nothing stays in the inbox for ever: once failures end, the drains of the timer
\* empty it (capture-inbox.ts:71-77).
InboxDrains == \A e \in Events : []<>(e \notin UNION RowIds(inbox))
=============================================================================
