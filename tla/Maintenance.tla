------------------------------ MODULE Maintenance ------------------------------
(***************************************************************************)
(* Edits of the notes of a project that a model proposes and the user        *)
(* approves: BlueprintMaintenanceService (janus/maintenance/service.ts) over *)
(* harness/maintenance-apply.ts, for the tasks of one blueprint.             *)
(*                                                                         *)
(* A proposal is generated, shown as files, confirmed, applied in one        *)
(* transaction and recorded in an audit, which can be undone.  Every stage   *)
(* awaits, and meanwhile the user discusses, dismisses, cancels or completes, *)
(* or edits a note.  A proposal changes one note here.  Left out: what its   *)
(* operations are and which of them the user selects, scopes, authorizations *)
(* and briefs, and blueprints kept in JSON, which no task can be started for. *)
(***************************************************************************)
EXTENDS Naturals

CONSTANTS
  Tasks, Undos,   \* tasks of the blueprint, and calls of applyUndo at a time
  Docs, NoDoc,    \* notes
  MaxWrites,      \* bound on changes of notes, and on records of the audit
  MaxRequests,    \* bound on proposals and previews, together
  MaintUpsets     \* bound on reads and writes that fail, crashes and aborted turns

ASSUME MaintAssumption ==
  /\ Tasks \cap Undos = {} /\ NoDoc \notin Docs
  /\ MaxWrites \in Nat /\ MaxRequests \in Nat /\ MaintUpsets \in Nat

VARIABLES
  content,    \* version of each note
  rev,        \* revision of the projection, which may miss an edit
  task,       \* status, baseRevision and changeSet
  shown,      \* previews: for each task, which, of which changeSet, from which bytes
  request,    \* previewRequests
  viewing,    \* previews that are being prepared
  gen,        \* generateProposal of each task, with its controller
  call,       \* apply of each task, and calls of applyUndo
  prepared,   \* undoChangeSets
  audit,      \* the records of the audit, in files
  numbered,   \* proposals and previews so far
  faults,
  landed      \* history: records whose change is in the notes

noteVars == <<content, rev, landed>>
taskVars == <<task, shown, request>>
maintVars == <<noteVars, taskVars, viewing, gen, call, prepared, audit, numbered, faults>>
-----------------------------------------------------------------------------
\* The note that a proposal changes, and its version when it was made.
NoBytes == [doc |-> NoDoc, seen |-> 0]
Now(d) == [doc |-> d, seen |-> content[d]]
NoTask == [status |-> "none", base |-> 0, cs |-> 0, bytes |-> NoBytes]
NoShown == [id |-> 0, cs |-> 0, bytes |-> NoBytes]
NoGen == [at |-> "idle", aborted |-> FALSE]
NoCall == [at |-> "idle", cs |-> 0, bytes |-> NoBytes, base |-> 0, shown |-> NoShown, record |-> 0, withdrawn |-> FALSE]
NoRecord == [state |-> "none", bytes |-> NoBytes]

Status(t) == task[t].status
Closed(t) == Status(t) \in {"completed", "cancelled"}
Open(t) == Status(t) # "none" /\ ~Closed(t)
Fault == faults < MaintUpsets /\ faults' = faults + 1
NoFault == UNCHANGED faults
MayNumber == numbered < MaxRequests /\ numbered' = numbered + 1
To(t, status) == task' = [task EXCEPT ![t].status = status]

MaintInit ==
  /\ content = [d \in Docs |-> 0] /\ rev = 0 /\ landed = {}
  /\ task = [t \in Tasks |-> NoTask] /\ shown = [t \in Tasks |-> NoShown]
  /\ request = [t \in Tasks |-> 0] /\ viewing = {}
  /\ gen = [t \in Tasks |-> NoGen] /\ call = [k \in Tasks \cup Undos |-> NoCall]
  /\ prepared = {} /\ audit = [r \in 1..MaxWrites |-> NoRecord]
  /\ numbered = 0 /\ faults = 0

\* A note is edited by other means.  The next read may find the revision moved, or not.
Writes(d, moved) ==
  /\ content' = [content EXCEPT ![d] = @ + 1] /\ rev' = rev + moved
Edited(d) ==
  /\ content[d] < MaxWrites /\ \E moved \in 0..1 : Writes(d, moved)
  /\ UNCHANGED <<landed, taskVars, viewing, gen, call, prepared, audit, numbered, faults>>

\* start: one open task at a time.
MaintStart(t) ==
  /\ Status(t) = "none" /\ \A u \in Tasks : ~Open(u)
  /\ task' = [task EXCEPT ![t] = [NoTask EXCEPT !.status = "active", !.base = rev]]
  /\ UNCHANGED <<noteVars, shown, request, viewing, gen, call, prepared, audit, numbered, faults>>
-----------------------------------------------------------------------------
\* proposeForConversation, generateProposal.
MaintPropose(t) ==
  /\ Open(t) /\ Status(t) \notin {"analyzing", "applying"}
  /\ To(t, "analyzing") /\ gen' = [gen EXCEPT ![t] = [NoGen EXCEPT !.at = "load"]]
  /\ UNCHANGED <<noteVars, shown, request, viewing, call, prepared, audit, numbered, faults>>
GenKeeps == UNCHANGED <<noteVars, shown, request, viewing, call, prepared, audit>>
GenOver(t) == gen' = [gen EXCEPT ![t] = NoGen]

\* The status after a generation that gave nothing; `bad' when there was no proposal.
Back(t, bad) == IF task[t].cs # 0 THEN "proposal-ready" ELSE bad

\* The blueprint is loaded, and the status says so even when the task was closed meanwhile.
GenLoaded(t) ==
  /\ gen[t].at = "load" /\ GenKeeps /\ UNCHANGED numbered
  /\ \/ rev = task[t].base /\ gen' = [gen EXCEPT ![t].at = "model"]
        /\ UNCHANGED task /\ NoFault
     \/ rev # task[t].base /\ To(t, "stale") /\ GenOver(t) /\ NoFault
     \/ Fault /\ To(t, "stale") /\ GenOver(t)

\* An aborted generation ends at its next look at the signal.
Restored(t) == IF Status(t) = "analyzing" THEN Back(t, "active") ELSE Status(t)
GenAborted(t) ==
  /\ gen[t].at = "model" /\ gen[t].aborted /\ GenOver(t) /\ GenKeeps
  /\ To(t, Restored(t)) /\ UNCHANGED <<numbered, faults>>
\* The model fails or its answer cannot be used, as when the revision has moved; or a
\* proposal replaces the one there was.
GenFailed(t) ==
  /\ gen[t].at = "model" /\ ~gen[t].aborted /\ GenOver(t) /\ GenKeeps
  /\ To(t, Back(t, "failed")) /\ UNCHANGED numbered
  /\ IF rev = task[t].base THEN Fault ELSE NoFault
GenProposes(t, d) ==
  /\ gen[t].at = "model" /\ ~gen[t].aborted /\ rev = task[t].base /\ MayNumber
  /\ task' = [task EXCEPT ![t] = [@ EXCEPT !.status = "proposal-ready", !.cs = numbered', !.bytes = Now(d)]]
  /\ GenOver(t) /\ GenKeeps /\ NoFault
-----------------------------------------------------------------------------
\* What the user does meanwhile.
Withdrawn(t) == call' = [call EXCEPT ![t].withdrawn = @ \/ call[t].at \notin {"idle", "write", "view", "record"}]
Aborted(t) == gen' = [gen EXCEPT ![t].aborted = gen[t].at # "idle"]
Unshown(t) == shown' = [shown EXCEPT ![t] = NoShown] /\ request' = [request EXCEPT ![t] = 0]
UserKeeps == UNCHANGED <<noteVars, viewing, prepared, audit, numbered>>

MaintClose(t, status) ==
  /\ IF status = "completed" THEN Open(t) ELSE Status(t) # "none"
  /\ Aborted(t) /\ Unshown(t) /\ Withdrawn(t)
  /\ task' = [task EXCEPT ![t] = [@ EXCEPT !.status = status, !.cs = 0, !.bytes = NoBytes]]
  /\ UserKeeps /\ NoFault

Rejected(t) == task' = [task EXCEPT ![t] = [@ EXCEPT !.status = "active", !.cs = 0, !.bytes = NoBytes]]
MaintDismiss(t) ==
  /\ Status(t) = "proposal-ready" /\ task[t].cs # 0
  /\ Rejected(t) /\ Unshown(t) /\ UserKeeps /\ UNCHANGED <<gen, call, faults>>
\* invalidateConversationProposal, when the discussion goes on.
MaintDiscuss(t) ==
  /\ Open(t) /\ Unshown(t) /\ Withdrawn(t)
  /\ IF Status(t) = "proposal-ready" THEN Rejected(t) ELSE UNCHANGED task
  /\ UserKeeps /\ UNCHANGED <<gen, faults>>
TurnAborted(t) ==
  /\ gen[t].at # "idle" /\ Fault /\ Aborted(t)
  /\ UserKeeps /\ UNCHANGED <<taskVars, call>>
-----------------------------------------------------------------------------
\* preview, which forgets the last one and is itself forgotten when a later one begins.
MaintPreview(t) ==
  /\ Status(t) = "proposal-ready" /\ task[t].cs # 0 /\ MayNumber
  /\ request' = [request EXCEPT ![t] = numbered'] /\ shown' = [shown EXCEPT ![t] = NoShown]
  /\ viewing' = viewing \cup {[task |-> t, request |-> numbered', cs |-> task[t].cs, bytes |-> task[t].bytes, at |-> "checkout"]}
  /\ UNCHANGED <<noteVars, task, gen, call, prepared, audit, faults>>
PreviewKeeps == UNCHANGED <<noteVars, task, request, gen, call, prepared, audit, numbered, faults>>
PreviewChecked(v) ==
  /\ v.at = "checkout" /\ PreviewKeeps /\ UNCHANGED shown
  /\ viewing' = (viewing \ {v}) \cup (IF rev = task[v.task].base THEN {[v EXCEPT !.at = "files"]} ELSE {})

SameBytes(bytes) == content[bytes.doc] = bytes.seen
\* prepareMaintenanceSelection refuses a source that is not that of the proposal.
\* Mutant: it takes the bytes it finds.
SourceAny(bytes) == TRUE
SourceKept(bytes) == SameBytes(bytes)
StillWanted(v) ==
  request[v.task] = v.request /\ Status(v.task) = "proposal-ready" /\ task[v.task].cs = v.cs
PreviewMade(v) ==
  /\ v.at = "files" /\ viewing' = viewing \ {v} /\ PreviewKeeps
  /\ shown' = IF SourceKept(v.bytes) /\ StillWanted(v)
       THEN [shown EXCEPT ![v.task] = [id |-> v.request, cs |-> v.cs, bytes |-> Now(v.bytes.doc)]]
       ELSE shown
-----------------------------------------------------------------------------
\* apply, of the preview that is shown.
MaintApply(t) ==
  /\ Status(t) = "proposal-ready" /\ task[t].cs # 0 /\ shown[t].id # 0 /\ shown[t].cs = task[t].cs
  /\ To(t, "applying")
  /\ call' = [call EXCEPT ![t] = [NoCall EXCEPT !.at = "load", !.cs = task[t].cs, !.bytes = task[t].bytes, !.shown = shown[t]]]
  /\ UNCHANGED <<noteVars, shown, request, viewing, gen, prepared, audit, numbered, faults>>

CallKeeps == UNCHANGED <<noteVars, shown, request, viewing, gen, prepared, audit, numbered>>
GoesOn(k, stage) == call' = [call EXCEPT ![k].at = stage]
CallOver(k) == call' = [call EXCEPT ![k] = NoCall]
Applying(t) == Status(t) = "applying" /\ task[t].cs = call[t].cs
Failed(t) == To(t, IF Closed(t) THEN Status(t) ELSE "failed")

\* The blueprint is loaded, then the evidence: either may fail, or have changed.
ApplyLoaded(t) ==
  /\ call[t].at = "load" /\ CallKeeps
  /\ \/ Applying(t) /\ rev = task[t].base /\ GoesOn(t, "evidence") /\ UNCHANGED task /\ NoFault
     \/ Applying(t) /\ rev # task[t].base /\ CallOver(t) /\ To(t, "stale") /\ NoFault
     \/ ~Applying(t) /\ CallOver(t) /\ UNCHANGED task /\ NoFault
     \/ Fault /\ CallOver(t) /\ To(t, IF Closed(t) THEN Status(t) ELSE "stale")
ApplyEvidence(t) ==
  /\ call[t].at = "evidence" /\ CallKeeps
  /\ \/ Applying(t) /\ GoesOn(t, "checkout") /\ UNCHANGED task /\ NoFault
     \/ Applying(t) /\ Fault /\ CallOver(t) /\ To(t, "stale")
     \/ ~Applying(t) /\ CallOver(t) /\ UNCHANGED task /\ NoFault
\* The revision comes before the status, which it may change though the task is closed.
ApplyCheckout(t) ==
  /\ call[t].at = "checkout" /\ CallKeeps
  /\ \/ rev = task[t].base /\ Applying(t) /\ GoesOn(t, "audit") /\ UNCHANGED task /\ NoFault
     \/ rev = task[t].base /\ ~Applying(t) /\ CallOver(t) /\ Failed(t) /\ NoFault
     \/ rev # task[t].base /\ CallOver(t) /\ To(t, "failed") /\ NoFault
     \/ Fault /\ CallOver(t) /\ Failed(t)

\* What ends a call early.
GivenUp(k) ==
  /\ CallOver(k)
  /\ IF k \in Tasks THEN Failed(k) ELSE UNCHANGED task
\* The pending record is written before the change.
NextRecord == CHOOSE r \in 1..MaxWrites : audit[r].state = "none"
\* Mutant: it is only written when the change has been made.
NotYet(r) == UNCHANGED audit
PendingWritten(r) == audit' = [audit EXCEPT ![r].state = "pending"]
Recorded(k) ==
  /\ call[k].at = "audit"
  /\ UNCHANGED <<noteVars, shown, request, viewing, gen, prepared, numbered>>
  /\ \/ /\ \E r \in 1..MaxWrites : audit[r].state = "none"
        /\ PendingWritten(NextRecord)
        /\ call' = [call EXCEPT ![k].at = IF k \in Tasks THEN "reads" ELSE "prepare", ![k].record = NextRecord]
        /\ UNCHANGED task /\ NoFault
     \/ Fault /\ GivenUp(k) /\ UNCHANGED audit

\* applyPreparedMaintenanceSelection: the files are read once more; then, for a task,
\* assertCurrent, and nothing comes between that and the transaction.
Current(t) == Applying(t) /\ shown[t] = call[t].shown
ReadsOf(k) ==
  /\ call[k].at = "reads" /\ CallKeeps /\ NoFault
  /\ IF SameBytes(call[k].shown.bytes) /\ (k \in Tasks => Current(k))
       THEN GoesOn(k, "write") /\ UNCHANGED task
       ELSE GivenUp(k)
\* The transaction compares the bytes under its own lock.
Transaction(k) ==
  /\ call[k].at = "write" /\ UNCHANGED <<shown, request, viewing, gen, prepared, audit, numbered>> /\ NoFault
  /\ IF SameBytes(call[k].shown.bytes)
       THEN /\ content[call[k].shown.bytes.doc] < MaxWrites /\ Writes(call[k].shown.bytes.doc, 1)
            /\ landed' = landed \cup {call[k].record}
            /\ GoesOn(k, "view") /\ UNCHANGED task
       ELSE GivenUp(k) /\ UNCHANGED noteVars

\* The new projection is read, the task is told, and the record is completed with it.
Final(k) == call' = [call EXCEPT ![k] = [@ EXCEPT !.at = "record", !.bytes = Now(call[k].bytes.doc)]]
ApplyViewed(t) ==
  /\ call[t].at = "view" /\ UNCHANGED <<noteVars, viewing, gen, prepared, audit, numbered>>
  /\ \/ /\ Final(t) /\ Unshown(t) /\ NoFault
        /\ task' = [task EXCEPT ![t] = [status |-> IF Closed(t) THEN @.status ELSE "active",
                                        base |-> rev, cs |-> 0, bytes |-> NoBytes]]
     \/ Fault /\ GivenUp(t) /\ UNCHANGED <<shown, request>>
RecordCompleted(k) ==
  /\ call[k].at = "record" /\ CallOver(k)
  /\ UNCHANGED <<noteVars, taskVars, viewing, gen, prepared, numbered>>
  /\ \/ audit' = [audit EXCEPT ![call[k].record] = [state |-> "applied", bytes |-> call[k].bytes]] /\ NoFault
     \/ Fault /\ UNCHANGED audit
-----------------------------------------------------------------------------
\* prepareUndo and applyUndo, when no task is open: the same way, from the bytes that
\* the record was completed with.
PrepareUndo(r) ==
  /\ audit[r].state = "applied" /\ \A t \in Tasks : ~Open(t)
  /\ prepared' = prepared \cup {[record |-> r, base |-> rev]} /\ prepared' # prepared
  /\ UNCHANGED <<noteVars, taskVars, viewing, gen, call, audit, numbered, faults>>
ApplyUndo(u, p) ==
  /\ call[u].at = "idle" /\ \A t \in Tasks : ~Open(t)
  /\ call' = [call EXCEPT ![u] = [NoCall EXCEPT !.at = "load", !.cs = p.record, !.base = p.base, !.bytes = audit[p.record].bytes]]
  /\ UNCHANGED <<noteVars, taskVars, viewing, gen, prepared, audit, numbered, faults>>
UndoLoaded(u) ==
  /\ call[u].at = "load"
  /\ UNCHANGED <<noteVars, taskVars, viewing, gen, audit, numbered>>
  /\ \/ rev = call[u].base /\ GoesOn(u, "audit") /\ UNCHANGED prepared /\ NoFault
     \/ rev # call[u].base /\ CallOver(u) /\ NoFault
        /\ prepared' = prepared \ {[record |-> call[u].cs, base |-> call[u].base]}
     \/ Fault /\ CallOver(u) /\ UNCHANGED prepared
UndoPrepared(u) ==
  /\ call[u].at = "prepare" /\ CallKeeps /\ UNCHANGED task /\ NoFault
  /\ IF SourceKept(call[u].bytes)
       THEN call' = [call EXCEPT ![u].at = "reads", ![u].shown.bytes = Now(call[u].bytes.doc)]
       ELSE CallOver(u)
UndoViewed(u) ==
  /\ call[u].at = "view" /\ UNCHANGED <<noteVars, taskVars, viewing, gen, audit, numbered>>
  /\ \/ Final(u) /\ prepared' = {} /\ NoFault
     \/ Fault /\ CallOver(u) /\ UNCHANGED prepared

\* The process dies: the notes and the audit are what is left.
MaintCrash ==
  /\ Fault
  /\ task' = [t \in Tasks |-> NoTask] /\ shown' = [t \in Tasks |-> NoShown]
  /\ request' = [t \in Tasks |-> 0] /\ viewing' = {} /\ gen' = [t \in Tasks |-> NoGen]
  /\ call' = [k \in Tasks \cup Undos |-> NoCall] /\ prepared' = {}
  /\ UNCHANGED <<noteVars, audit, numbered>>

MaintNext ==
  \/ \E d \in Docs : Edited(d)
  \/ \E t \in Tasks :
       \/ MaintStart(t) \/ MaintPropose(t) \/ GenLoaded(t) \/ GenAborted(t) \/ GenFailed(t)
       \/ \E d \in Docs : GenProposes(t, d)
       \/ MaintClose(t, "cancelled") \/ MaintClose(t, "completed") \/ MaintDismiss(t)
       \/ MaintDiscuss(t) \/ TurnAborted(t) \/ MaintPreview(t)
       \/ MaintApply(t) \/ ApplyLoaded(t) \/ ApplyEvidence(t) \/ ApplyCheckout(t) \/ ApplyViewed(t)
  \/ \E v \in viewing : PreviewChecked(v) \/ PreviewMade(v)
  \/ \E k \in Tasks \cup Undos : Recorded(k) \/ ReadsOf(k) \/ Transaction(k) \/ RecordCompleted(k)
  \/ \E r \in 1..MaxWrites : PrepareUndo(r)
  \/ \E u \in Undos :
       \/ \E p \in prepared : ApplyUndo(u, p)
       \/ UndoLoaded(u) \/ UndoPrepared(u) \/ UndoViewed(u)
  \/ MaintCrash
MaintSpec == MaintInit /\ [][MaintNext]_maintVars
-----------------------------------------------------------------------------
\* No task is left analyzing or applying by a generation or an application that has
\* ended: such a task would refuse every proposal and every other task of its blueprint
\* (service.ts:312, 360, 1095-1098).
MaintTypeOK ==
  /\ \A t \in Tasks :
       /\ Status(t) \in {"none", "active", "analyzing", "proposal-ready", "applying", "stale", "failed", "completed", "cancelled"}
       /\ Status(t) = "analyzing" => gen[t].at # "idle"
       /\ Status(t) = "applying" => call[t].at \notin {"idle", "record"}
  /\ \A r \in 1..MaxWrites : audit[r].state \in {"none", "pending", "applied"}

\* What the user withdrew while it was being applied, by going on with the discussion or
\* by closing the task, is not written, unless the transaction had begun
\* (service.ts:837-840).
MaintWithdrawn ==
  \A t \in Tasks : call[t].withdrawn => call[t].at \notin {"write", "view", "record"}

\* A note is changed only if its bytes are those that the model or, for an undo, the
\* record had seen, whatever was edited between the proposal, the preview and the
\* transaction (maintenance-apply.ts:210-215, 247-252).
MaintOnSeen ==
  [][\A k \in Tasks \cup Undos : call[k].at = "write" /\ call'[k].at = "view" =>
       SameBytes(call[k].bytes)]_maintVars

\* No change without a record of it, wherever the process dies; and no record says
\* applied of a change that is not there (service.ts:836, 854-866).
MaintAudited ==
  /\ \A r \in landed : audit[r].state # "none"
  /\ \A r \in 1..MaxWrites : audit[r].state = "applied" => r \in landed

\* Nothing is written that was withdrawn, and nothing without a record.
MaintSafe == MaintTypeOK /\ MaintWithdrawn /\ MaintAudited

\* A task that was cancelled or completed stays so while its last calls come back,
\* unless one of them finds the revision moved or a read failing
\* (service.ts:536, 849, 870, 1095; the exceptions are 787, 821 and 962).
MaintStaysClosed ==
  [][\A t \in Tasks : Closed(t) /\ Status(t)' # "none" =>
       Closed(t)' \/ rev # task[t].base \/ faults' # faults]_maintVars

\* The steps that late answers and calls may take.
MaintSteps == MaintOnSeen /\ MaintStaysClosed
=============================================================================
