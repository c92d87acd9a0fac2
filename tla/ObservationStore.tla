---------------------------- MODULE ObservationStore ----------------------------
(***************************************************************************)
(* The journal of observations (knowledge/observation-service.ts): a file a   *)
(* month, `active', that captures append to, and that maintenance prunes,     *)
(* compacts and moves to a compressed file, `archive'.  One queue serialises  *)
(* whatever writes; a capture decides what to write before it waits there.    *)
(*                                                                         *)
(* Every capture is of an event that has an id, whose month is that of its    *)
(* turn, however late it arrives.  A job writes one file at a time and may    *)
(* fail or die between two of them.  Left out: captures without an event,     *)
(* blobs, limits on what is remembered, revocations, which write a file of   *)
(* their own, and the migration of older episodes.                          *)
(***************************************************************************)
EXTENDS Naturals

CONSTANTS
  ObsEvents, NoEvent,   \* what is captured
  Episodes,             \* the events whose observations expire
  MonthOf,              \* the month of an event
  LastMonth, MaxObs, MaxObsFaults, \* bounds on time, on captures and on failures
  Callers               \* who captures

ASSUME ObsAssumption ==
  /\ Episodes \subseteq ObsEvents /\ NoEvent \notin ObsEvents
  /\ LastMonth \in Nat /\ MonthOf \in [ObsEvents -> 1..LastMonth] /\ MaxObs \in Nat /\ MaxObsFaults \in Nat

Months == 1..LastMonth
Places == {"active", "archive"} \X Months
Line == [event : ObsEvents, id : 1..MaxObs, expired : BOOLEAN]

VARIABLES
  month,      \* now: what is of an earlier month is old enough to move
  shard,      \* the files: none, readable or not, and their lines
  cache,      \* dedupeCache: the observation an event was answered with, 0 for none
  caller,     \* captures that wait for the queue
  job,        \* who has the queue: the files to write, in order of place, with their lines
  obsMade, obsFaults

obsVars == <<month, shard, cache, caller, job, obsMade, obsFaults>>

NoFile == [at |-> "none", lines |-> {}]
Unreadable == [at |-> "bad", lines |-> {}]
File(lines) == [at |-> "ok", lines |-> lines]
NoCall == [event |-> NoEvent, id |-> 0]
IdleJob == [op |-> "none", events |-> {}, todo |-> {}]

ObsInit ==
  /\ month = 1 /\ shard = [p \in Places |-> NoFile] /\ cache = [e \in ObsEvents |-> 0]
  /\ caller = [c \in Callers |-> NoCall] /\ job = IdleJob /\ obsMade = 0 /\ obsFaults = 0

\* listObservationShardFiles: it fails if one archive cannot be decompressed.
Readable == \A p \in Places : shard[p].at # "bad"
Listed == UNION {shard[p].lines : p \in Places}
ObsTick == month < LastMonth /\ month' = month + 1 /\ UNCHANGED <<shard, cache, caller, job, obsMade, obsFaults>>
-----------------------------------------------------------------------------
ObsCapture(c, e) ==
  /\ caller[c] = NoCall /\ MonthOf[e] <= month /\ cache[e] = 0 /\ obsMade < MaxObs
  /\ obsMade' = obsMade + 1 /\ caller' = [caller EXCEPT ![c] = [event |-> e, id |-> obsMade + 1]]
  /\ UNCHANGED <<month, shard, cache, job, obsFaults>>
Found(e) == {l \in Listed : l.event = e}
Home(e) == <<"active", MonthOf[e]>>
Told(e, i) == IF Found(e) = {} THEN i ELSE (CHOOSE l \in Found(e) : TRUE).id
\* Mutant: nothing waits.
AnyTurn == TRUE
QueueFree == job = IdleJob
\* Its turn: it finds its event, or appends.
ObsStore(c) ==
  LET e == caller[c].event
      i == caller[c].id
  IN /\ caller[c] # NoCall /\ QueueFree /\ Readable
     /\ cache' = [cache EXCEPT ![e] = Told(e, i)]
     /\ shard' = IF Found(e) # {} THEN shard
                 ELSE [shard EXCEPT ![Home(e)] = File(@.lines \cup {[event |-> e, id |-> i, expired |-> FALSE]})]
     /\ caller' = [caller EXCEPT ![c] = NoCall] /\ UNCHANGED <<month, job, obsMade, obsFaults>>
\* Capturing was forbidden in the meantime, the files cannot be read or not be written.
ObsRefused(c) ==
  /\ caller[c] # NoCall /\ QueueFree /\ caller' = [caller EXCEPT ![c] = NoCall]
  /\ UNCHANGED <<month, shard, cache, job, obsMade, obsFaults>>
-----------------------------------------------------------------------------
Begin(op, events, todo) ==
  /\ QueueFree /\ todo # {} /\ job' = [op |-> op, events |-> events, todo |-> todo]
  /\ UNCHANGED <<month, shard, cache, caller, obsMade, obsFaults>>
\* prune, by what a user filters, and autoPrune: the files with a match, without it.
ObsPrune(events) ==
  /\ Readable
  /\ Begin("prune", events, {<<p, {l \in shard[p].lines : l.event \notin events}>> :
                               p \in {q \in Places : \E l \in shard[q].lines : l.event \in events}})
ObsExpire(events) ==
  /\ Readable
  /\ Begin("expire", events,
           {<<p, {[l EXCEPT !.expired = l.expired \/ l.event \in events] : l \in shard[p].lines}>> :
              p \in {q \in Places : \E l \in shard[q].lines : l.event \in events /\ ~l.expired}})
\* How old is old enough to compact or to move is a parameter of each.
Old == {<<<<"active", m>>, shard[<<"active", m>>].lines>> : m \in {n \in Months : n < month /\ shard[<<"active", n>>].at = "ok"}}
\* Marks are added to lines, which are otherwise what they were.
ObsCompact == Begin("compact", {}, Old)
ObsArchive == Begin("archive", {}, Old)

Rank(p) == p[2] + IF p[1] = "archive" THEN LastMonth ELSE 0
First == CHOOSE t \in job.todo : \A u \in job.todo : Rank(t[1]) <= Rank(u[1])
Rest == IF job.todo = {First} THEN IdleJob ELSE [job EXCEPT !.todo = @ \ {First}]
\* A pruned archive is written as if it were an active file, and can no longer be read.
Written == IF job.op = "prune" /\ First[1][1] = "archive" THEN Unreadable ELSE File(First[2])
ObsRewrite ==
  /\ job.op \in {"prune", "expire", "compact"}
  /\ shard' = [shard EXCEPT ![First[1]] = Written] /\ job' = Rest
  /\ cache' = IF job.op = "expire" THEN [e \in ObsEvents |-> 0] ELSE cache
  /\ UNCHANGED <<month, caller, obsMade, obsFaults>>

Target == <<"archive", First[1][2]>>
\* The compressed file is opened, which empties it, whatever it held; it is written and
\* read back; the active one is removed.
ObsOpens ==
  /\ job.op = "archive" /\ job' = [job EXCEPT !.op = "opened"] /\ shard' = [shard EXCEPT ![Target] = Unreadable]
  /\ UNCHANGED <<month, cache, caller, obsMade, obsFaults>>
ObsFills ==
  /\ job.op = "opened" /\ job' = [job EXCEPT !.op = "filled"] /\ shard' = [shard EXCEPT ![Target] = File(First[2])]
  /\ UNCHANGED <<month, cache, caller, obsMade, obsFaults>>
ObsUnlinks ==
  /\ job.op = "filled" /\ shard' = [shard EXCEPT ![First[1]] = NoFile]
  /\ job' = IF Rest = IdleJob THEN IdleJob ELSE [Rest EXCEPT !.op = "archive"]
  /\ UNCHANGED <<month, cache, caller, obsMade, obsFaults>>

\* A file cannot be written, and the job ends; or the process dies.
ObsJobFails ==
  /\ job # IdleJob /\ obsFaults < MaxObsFaults /\ obsFaults' = obsFaults + 1 /\ job' = IdleJob
  /\ UNCHANGED <<month, shard, cache, caller, obsMade>>
ObsCrash ==
  /\ obsFaults < MaxObsFaults /\ obsFaults' = obsFaults + 1 /\ job' = IdleJob
  /\ caller' = [c \in Callers |-> NoCall] /\ cache' = [e \in ObsEvents |-> 0] /\ UNCHANGED <<month, shard, obsMade>>

ObsNext ==
  \/ \E c \in Callers : (\E e \in ObsEvents : ObsCapture(c, e)) \/ ObsStore(c) \/ ObsRefused(c)
  \/ \E events \in SUBSET ObsEvents : ObsPrune(events)
  \/ \E events \in SUBSET Episodes : ObsExpire(events)
  \/ ObsCompact \/ ObsArchive \/ ObsRewrite \/ ObsOpens \/ ObsFills \/ ObsUnlinks
  \/ ObsJobFails \/ ObsCrash \/ ObsTick
ObsSpec == ObsInit /\ [][ObsNext]_obsVars
-----------------------------------------------------------------------------
\* Every variable has its type, and a line is in the file of the month of its event.
ObsTypeOK ==
  /\ month \in Months \cup {1} /\ obsMade \in 0..MaxObs /\ obsFaults \in 0..MaxObsFaults
  /\ shard \in [Places -> [at : {"none", "ok", "bad"}, lines : SUBSET Line]]
  /\ \A p \in Places : \A l \in shard[p].lines : MonthOf[l.event] = p[2] /\ shard[p].at = "ok"
  /\ cache \in [ObsEvents -> 0..MaxObs]
  /\ caller \in [Callers -> [event : ObsEvents, id : 1..MaxObs] \cup {NoCall}]
  /\ job.op \in {"none", "prune", "expire", "compact", "archive", "opened", "filled"}
  /\ job.todo \subseteq Places \X SUBSET Line

\* An event is recorded once, however often it is captured, by whom, after restarts and
\* after its file was moved; it may be in two files, but it is one observation
\* (observation-service.ts:563-576, 902-940).
ObsEventOnce == \A l, k \in Listed : l.event = k.event => l.id = k.id

\* What a capture is answered with is what the journal holds, if it holds the event
\* (observation-service.ts:507-509, 577-582).
ObsCacheTrue == \A e \in ObsEvents : cache[e] # 0 => \A l \in Listed : l.event = e => l.id = cache[e]

\* A line leaves the active files only for the archive, or when it is pruned: no rewriting
\* loses what was appended while it was prepared (observation-service.ts:462, 748, 876).
ObsActiveKept ==
  [][\A p \in {"active"} \X Months : \A l \in shard[p].lines :
       \/ \E k \in Listed' : k.id = l.id
       \/ job.op = "prune" /\ l.event \in job.events]_obsVars

\* An observation that expired in every file is not revived: not by a capture of its
\* event again, not by maintenance (observation-service.ts:646-690).
ObsForgotten ==
  [][\A e \in {l.event : l \in Listed} :
       (\A l \in Listed : l.event = e => l.expired) => \A l \in Listed' : l.event = e => l.expired]_obsVars

\* The journal records an event once, answers with what it holds, loses no line to a
\* rewriting and revives nothing (observation-service.ts).
ObsKept ==
  [](ObsTypeOK /\ ObsEventOnce /\ ObsCacheTrue) /\ ObsActiveKept /\ ObsForgotten
=============================================================================
