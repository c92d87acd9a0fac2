------------------------------ MODULE UsageLedger ------------------------------
(***************************************************************************)
(* The account of the tokens that one native session of an agent consumes    *)
(* (runtime-telemetry/usage-ledger.ts).  The session writes a file, one unit  *)
(* of consumption a line, and two readers record what they see of it: the     *)
(* poll of a bound terminal (coordinator.ts, history.ts) and the scan of all   *)
(* files (corpus-scan.ts).  Of Codex the poll sees a counter and the scan      *)
(* events, and the ledger keeps to the one it saw first; of Claude both see   *)
(* events.  A file may be written anew, which is an epoch of its own; what a  *)
(* reader saw may be old when it is recorded.                                 *)
(*                                                                         *)
(* Left out: kinds of tokens, models, dates, the upgrade of older rows, and   *)
(* other processes.  Every unit is well formed.                              *)
(***************************************************************************)
EXTENDS Naturals

CONSTANTS
  MaxUnits, MaxEpochs,   \* bounds on what the session consumes, and on rewritings
  MaxClock               \* bound on time

ASSUME UsageAssumption == MaxUnits \in Nat /\ MaxEpochs \in Nat \ {0} /\ MaxClock \in Nat

Units == 1..MaxUnits
Epochs == 1..MaxEpochs

VARIABLES
  engine,               \* "codex" or "claude"
  epoch, written,       \* the file: its epoch and its units
  clock,
  poll, scan,           \* the readers: what they saw, and the scan's lock and time
  mode, issue,          \* of the row of the session, "none" before the first record
  counters, since,      \* the counter recorded last, and history: the first
  updatedAt, sourceSize, sourceEpoch, \* the size and the hash of what was recorded, 0 for none
  identities,           \* the epoch in which an event was recorded, 0 for never
  booked                \* how often a unit of an epoch is in the records

fileVars == <<engine, epoch, written, clock>>
rowVars == <<mode, issue, counters, since, updatedAt, sourceSize, sourceEpoch, identities, booked>>
usageVars == <<fileVars, poll, scan, rowVars>>

NoReader == [at |-> "idle", epoch |-> 1, n |-> 0, mode |-> "none", now |-> 0]
UsageInit ==
  /\ engine \in {"codex", "claude"} /\ epoch = 1 /\ written = 0 /\ clock = 0
  /\ poll = NoReader /\ scan = [NoReader EXCEPT !.at = "off"]
  /\ mode = "none" /\ issue = "none" /\ counters = 0 /\ since = 0
  /\ updatedAt = 0 /\ sourceSize = 0 /\ sourceEpoch = 0
  /\ identities = [k \in Units |-> 0] /\ booked = [u \in Epochs \X Units |-> 0]
-----------------------------------------------------------------------------
Consume ==
  /\ written < MaxUnits /\ written' = written + 1
  /\ UNCHANGED <<engine, epoch, clock, poll, scan, rowVars>>
Rewrite(n) ==
  /\ epoch < MaxEpochs /\ epoch' = epoch + 1 /\ written' = n
  /\ UNCHANGED <<engine, clock, poll, scan, rowVars>>
UsageTick == clock < MaxClock /\ clock' = clock + 1 /\ UNCHANGED <<engine, epoch, written, poll, scan, rowVars>>
-----------------------------------------------------------------------------
\* record, of an observation o: its mode and time, the epoch and number of the units seen,
\* whether its size is given, and whether it has an issue of its own.
Paused == issue \in {"counter-source-changed", "event-changed"}
\* Mutant: any mode is taken at any time.
LockAny(o) == o.mode
Locked(o) == IF mode = "none" THEN o.mode ELSE mode
Ignored(o) == (mode # "none" /\ o.now < updatedAt) \/ Paused \/ Locked(o) # o.mode

Changed(o) == \E k \in 1..o.n : identities[k] \notin {0, o.epoch}
Fresh(o) == {k \in 1..o.n : identities[k] = 0}
RecordEvents(o) ==
  /\ issue' = IF Changed(o) THEN "event-changed" ELSE "none"
  /\ identities' = [k \in Units |-> IF k \in Fresh(o) THEN o.epoch ELSE identities[k]]
  /\ booked' = [u \in Epochs \X Units |-> IF u[1] = o.epoch /\ u[2] \in Fresh(o) THEN booked[u] + 1 ELSE booked[u]]
  /\ sourceSize' = IF o.sized THEN o.n ELSE sourceSize
  /\ UNCHANGED <<counters, since, sourceEpoch>>
Rewritten(o) == sourceEpoch # 0 /\ (o.epoch # sourceEpoch \/ o.n < sourceSize)
Counted(o) == {k \in 1..o.n : sourceEpoch # 0 /\ k > counters}
RecordCounter(o) ==
  /\ issue' = IF Rewritten(o) THEN "counter-source-changed" ELSE "none"
  /\ IF Rewritten(o) THEN UNCHANGED <<counters, since, booked>>
     ELSE /\ counters' = o.n /\ since' = IF sourceEpoch = 0 THEN o.n ELSE since
          /\ booked' = [u \in Epochs \X Units |-> IF u[1] = o.epoch /\ u[2] \in Counted(o) THEN booked[u] + 1 ELSE booked[u]]
  /\ sourceSize' = o.n /\ sourceEpoch' = o.epoch /\ UNCHANGED identities
Record(o) ==
  IF Ignored(o) THEN UNCHANGED rowVars
  ELSE /\ mode' = o.mode /\ updatedAt' = o.now
       /\ \/ o.mode = "events" /\ RecordEvents(o)
          \/ o.mode = "cumulative" /\ RecordCounter(o)
RecordIssue(o) ==
  IF Ignored(o) THEN UNCHANGED rowVars
  ELSE /\ mode' = o.mode /\ updatedAt' = o.now /\ issue' = "unreadable"
       /\ UNCHANGED <<counters, since, sourceSize, sourceEpoch, identities, booked>>
-----------------------------------------------------------------------------
Polled == [mode |-> IF engine = "codex" THEN "cumulative" ELSE "events", now |-> clock,
           epoch |-> poll.epoch, n |-> poll.n, sized |-> engine = "codex"]
PollReads ==
  /\ poll.at = "idle" /\ written > 0 /\ poll' = [NoReader EXCEPT !.at = "read", !.epoch = epoch, !.n = written]
  /\ UNCHANGED <<fileVars, scan, rowVars>>
\* The file is closed, then what was read of it is parsed and recorded.
PollRecords == poll.at = "read" /\ poll' = NoReader /\ Record(Polled) /\ UNCHANGED <<fileVars, scan>>
\* It cannot be parsed, or the transaction fails.
PollFails ==
  /\ poll.at = "read" /\ poll' = NoReader /\ UNCHANGED <<fileVars, scan>>
  /\ UNCHANGED rowVars \/ RecordIssue(Polled)
\* markMissing: there is no file, or nothing in it.
PollMissing ==
  /\ poll.at = "idle" /\ issue' = IF mode # "none" /\ issue = "none" THEN "source-unavailable" ELSE issue
  /\ UNCHANGED <<fileVars, poll, scan, mode, counters, since, updatedAt, sourceSize, sourceEpoch, identities, booked>>

\* startCorpusScan, then a scan on every tick of its timer.
ScanTimer == scan.at = "off" /\ scan' = NoReader /\ UNCHANGED <<fileVars, poll, rowVars>>
ScanStarts == scan.at = "idle" /\ scan' = [NoReader EXCEPT !.at = "started", !.now = clock] /\ UNCHANGED <<fileVars, poll, rowVars>>
\* A file whose size was recorded is skipped; the lock is looked at before the file is read.
Skips == sourceSize # 0 /\ sourceSize = written
ScanReads ==
  /\ scan.at = "started" /\ UNCHANGED <<fileVars, poll, rowVars>>
  /\ IF Skips \/ written = 0 THEN scan' = NoReader
     ELSE scan' = [scan EXCEPT !.at = "read", !.epoch = epoch, !.n = written, !.mode = mode]
Scanned ==
  LET counted == engine = "codex" /\ scan.mode = "cumulative"
  IN [mode |-> IF counted THEN "cumulative" ELSE "events",
      now |-> IF engine = "codex" /\ ~counted THEN scan.now ELSE clock,
      epoch |-> scan.epoch, n |-> scan.n, sized |-> TRUE]
ScanRecords == scan.at = "read" /\ scan' = NoReader /\ Record(Scanned) /\ UNCHANGED <<fileVars, poll>>
ScanFails ==
  /\ scan.at = "read" /\ scan' = NoReader /\ UNCHANGED <<fileVars, poll>>
  /\ UNCHANGED rowVars \/ RecordIssue(Scanned)

UsageNext ==
  \/ Consume \/ UsageTick \/ \E n \in 0..MaxUnits : Rewrite(n)
  \/ PollReads \/ PollRecords \/ PollFails \/ PollMissing
  \/ ScanTimer \/ ScanStarts \/ ScanReads \/ ScanRecords \/ ScanFails
UsageSpec == UsageInit /\ [][UsageNext]_usageVars
\* A scan follows another on a timer (coordinator.ts:192-194), and not all of them fail.
UsageFairness == WF_usageVars(ScanStarts) /\ WF_usageVars(ScanReads) /\ SF_usageVars(ScanRecords)
-----------------------------------------------------------------------------
Readers == [at : {"off", "idle", "started", "read"}, epoch : Epochs, n : 0..MaxUnits,
            mode : {"none", "events", "cumulative"}, now : 0..MaxClock]
UsageTypeOK ==
  /\ engine \in {"codex", "claude"} /\ epoch \in Epochs /\ written \in 0..MaxUnits /\ clock \in 0..MaxClock
  /\ poll \in Readers /\ scan \in Readers /\ poll.now <= clock /\ scan.now <= clock
  /\ mode \in {"none", "events", "cumulative"}
  /\ issue \in {"none", "unreadable", "source-unavailable", "counter-source-changed", "event-changed"}
  /\ counters \in 0..MaxUnits /\ since \in 0..counters /\ updatedAt \in 0..clock
  /\ sourceSize \in 0..MaxUnits /\ sourceEpoch \in 0..MaxEpochs
  /\ identities \in [Units -> 0..MaxEpochs] /\ booked \in [Epochs \X Units -> Nat]

\* Whatever was read when, by whom and in which mode, nothing is counted twice
\* (usage-ledger.ts:30-32, 83, 92-101, 110-166, 178-190).
UsageCountedOnce == \A u \in Epochs \X Units : booked[u] <= 1

\* While the account is not paused, it is complete: every event up to the size at which a
\* scan skips the file is booked, and of a counter every unit since the first one seen
\* (usage-ledger.ts:174-175, 192-200, corpus-scan.ts:154-157, 183-186).
UsageComplete ==
  /\ mode = "events" => \A k \in 1..sourceSize : identities[k] # 0 /\ booked[<<identities[k], k>>] = 1
  /\ mode = "cumulative" /\ ~Paused /\ sourceEpoch # 0 =>
       \A k \in Units : booked[<<sourceEpoch, k>>] = IF since < k /\ k <= counters THEN 1 ELSE 0

\* Nothing is counted twice and nothing is left out.
UsageBooked == UsageTypeOK /\ UsageCountedOnce /\ UsageComplete

\* Once scans are made, and while the file only grows, what is in it is booked at last,
\* unless the account is paused
\* (corpus-scan.ts:69-79, coordinator.ts:172-195).
UsageCatchesUp ==
  []<>(epoch = 1 /\ ~Paused /\ scan.at # "off" =>
         IF mode = "cumulative" THEN counters = written ELSE \A k \in 1..written : booked[<<1, k>>] = 1)
=============================================================================
