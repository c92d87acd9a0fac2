-------------------------------- MODULE Sessions --------------------------------
(***************************************************************************)
(* The ledger of agent sessions: AgentSessionRegistry                       *)
(* (sessions/session-registry.ts) over agent-sessions.json, with the scan of *)
(* transcripts that imports conversations of other terminals                *)
(* (sessions/external-session-scanner.ts).                                  *)
(*                                                                         *)
(* A row belongs to a terminal of the application, or is external, imported *)
(* from a transcript.  The conversation of a terminal becomes known by its   *)
(* hooks, later than its row, and may change.  Here are the conversations of *)
(* one engine, each with a transcript of its own.  A terminal is numbered by the *)
(* first row made for it, and a hook comes when the ledger has been loaded.  *)
(* Left out: texts, counts and times, so that any row may be the oldest;     *)
(* writes that fail, which leave the file as it was; the rollback copy; the  *)
(* layout of shells; handoffs.                                               *)
(***************************************************************************)
EXTENDS Naturals, Sequences, FiniteSets, Positions

CONSTANTS
  Convs, NoConv,
  RowLimit,     \* MAX_SESSIONS
  MaxRows,      \* bound on rows ever made
  SessBudget,   \* bound on rows made and on hooks that name a conversation, together
  Restarts      \* bound on restarts

ASSUME SessAssumption ==
  NoConv \notin Convs /\ RowLimit \in Nat \ {0}
  /\ MaxRows \in Nat /\ SessBudget \in Nat /\ Restarts \in Nat

VARIABLES
  rows,      \* sessions, in the order of the Map
  made,      \* rows ever made
  hooks,     \* hooks that named a conversation
  binding,   \* terminalToSession, 0 for none
  live,      \* terminals that run
  loading,   \* "reading", "ok" or "refused", when the file cannot be read
  corrupt,   \* it cannot
  file,
  scan,      \* the scan, which is a batch, and the transcripts it has not read
  deferred,  \* batchPersistDirty
  owed,      \* a write waits for the load or for the queue
  restarts

sessVars ==
  <<rows, made, hooks, binding, live, loading, corrupt, file, scan, deferred, owed,
    restarts>>
diskVars == <<corrupt, file, restarts>>
SessTabs == 1..MaxRows
-----------------------------------------------------------------------------
NoScan == [on |-> FALSE, todo |-> {}]
MayMake == made < MaxRows /\ made + hooks < SessBudget
Idx == DOMAIN rows
Ids(rs) == {rs[i].id : i \in DOMAIN rs}
Without(rs, id) == Chosen(rs, {i \in DOMAIN rs : rs[i].id # id})

\* recordForTerminal
Owns(i, t) == i \in Idx /\ binding[t] # 0 /\ rows[i].id = binding[t]

\* persist: in a batch it waits for the end of the batch.
Persist ==
  IF scan.on THEN deferred' = TRUE /\ UNCHANGED owed
  ELSE owed' = TRUE /\ UNCHANGED deferred
Unsaved == UNCHANGED <<deferred, owed>>

\* prune: the oldest rows beyond the limit; `new' is the latest.
Pruned(rs, new) ==
  IF Len(rs) <= RowLimit THEN {rs} ELSE {Without(rs, id) : id \in Ids(rs) \ {new}}

SessInit ==
  /\ rows = <<>> /\ made = 0 /\ hooks = 0 /\ binding = [t \in SessTabs |-> 0] /\ live = {}
  /\ loading = "reading" /\ corrupt \in BOOLEAN /\ file = <<>>
  /\ scan = NoScan /\ deferred = FALSE /\ owed = FALSE
  /\ restarts = 0
-----------------------------------------------------------------------------
\* doLoad: what the file has comes after what was made meanwhile.  A terminal belongs to
\* the last of its rows, and rows without content that lost theirs are dropped.
Filled(rs) == [t \in SessTabs |->
  LET is == {i \in DOMAIN rs : rs[i].tab = t}
  IN IF is = {} THEN binding[t] ELSE rs[CHOOSE i \in is : \A j \in is : j <= i].id]
Orphan(r, bound) == r.hook /\ ~r.kept /\ bound[r.tab] # r.id
LoadedWith(bound) ==
  /\ loading = "reading" /\ loading' = IF corrupt THEN "refused" ELSE "ok"
  /\ IF corrupt THEN UNCHANGED <<rows, binding>> /\ Unsaved
     ELSE /\ binding' = bound
          /\ LET all == rows \o file
             IN rows' = Chosen(all, {i \in DOMAIN all : ~Orphan(all[i], bound)})
          /\ IF Len(rows') < Len(rows \o file) THEN Persist ELSE Unsaved
  /\ UNCHANGED <<hooks, made, live, scan, diskVars>>
SessLoad == LoadedWith(Filled(rows \o file))

\* createSession: a terminal starts, perhaps in the place of another one under its id,
\* or resumes the conversation of row `from'.  Its start may fail, and the row is then
\* archived.
SessCreate(t, from) ==
  /\ t \in live \cup {made + 1} /\ MayMake /\ made' = made + 1
  /\ LET id == made + 1
         old == IF from = 0 THEN [prov |-> NoConv, path |-> NoConv, kept |-> FALSE] ELSE rows[from]
         new == [id |-> id, hook |-> TRUE, prov |-> old.prov, path |-> old.path, tab |-> t,
                 kept |-> old.kept, resumed |-> from # 0]
     IN /\ rows' \in Pruned(Append(rows, new), id)
        /\ binding' = [binding EXCEPT ![t] = id]
  /\ live' = live \cup {t} /\ Persist
  /\ UNCHANGED <<hooks, loading, scan, diskVars>>
SessDiscard(t) ==
  /\ t \in live /\ live' = live \ {t}
  /\ rows' = [i \in Idx |-> IF Owns(i, t) THEN [rows[i] EXCEPT !.kept = TRUE] ELSE rows[i]]
  /\ binding' = [binding EXCEPT ![t] = 0] /\ Persist
  /\ UNCHANGED <<hooks, made, loading, scan, diskVars>>
SessDetach(t) ==
  /\ t \in live /\ live' = live \ {t}
  /\ binding' = [binding EXCEPT ![t] = 0] /\ Persist
  /\ UNCHANGED <<hooks, rows, made, loading, scan, diskVars>>

\* notePrompt, noteCheckpoint, recordTurnEnd: the row has content.
SessPrompt(t, i) ==
  /\ t \in live /\ Owns(i, t) /\ ~rows[i].kept
  /\ rows' = [rows EXCEPT ![i].kept = TRUE] /\ Persist
  /\ UNCHANGED <<hooks, made, binding, live, loading, scan, diskVars>>

\* noteProviderSession: a hook names the conversation, with or without its transcript.
\* When that is news, the first external row with one of its keys is merged into it.
Shares(r, x) == (r.prov # NoConv /\ r.prov = x.prov) \/ (r.path # NoConv /\ r.path = x.path)
Named(r, c, whole) == [r EXCEPT !.prov = c, !.path = IF whole THEN c ELSE @]
Merged(r, x) ==
  [r EXCEPT !.prov = IF @ = NoConv THEN x.prov ELSE @, !.path = IF @ = NoConv THEN x.path ELSE @,
            !.kept = TRUE]
Absorbed(rs, i) ==
  LET same == {j \in DOMAIN rs : ~rs[j].hook /\ Shares(rs[i], rs[j])}
      first == CHOOSE j \in same : \A k \in same : j <= k
  IN IF same = {} THEN rs ELSE Without([rs EXCEPT ![i] = Merged(@, rs[first])], rs[first].id)
Tells(t, i, c, whole) ==
  /\ t \in live /\ loading # "reading" /\ Owns(i, t)
  /\ Named(rows[i], c, whole) # rows[i] /\ Persist
  /\ made + hooks < SessBudget /\ hooks' = hooks + 1
  /\ UNCHANGED <<made, binding, live, loading, scan, diskVars>>
\* Mutant: the external row stays.
SessIdentifyOnly(t, i, c, whole) ==
  Tells(t, i, c, whole) /\ rows' = [rows EXCEPT ![i] = Named(@, c, whole)]
SessIdentify(t, i, c, whole) ==
  Tells(t, i, c, whole) /\ rows' = Absorbed([rows EXCEPT ![i] = Named(@, c, whole)], i)
-----------------------------------------------------------------------------
\* scanExternalSessions: a batch of imports.
SessScan(cs) ==
  /\ ~scan.on /\ loading # "reading"
  /\ scan' = [on |-> TRUE, todo |-> cs]
  /\ UNCHANGED <<hooks, rows, made, binding, live, loading, deferred, owed, diskVars>>

\* importExternalSession: the row of the conversation, by its id or else by a transcript
\* that a row of ours knows; its blanks are filled.  Otherwise an external row.
ByProv(c) == {i \in Idx : rows[i].prov = c}
ByPath(c) == {i \in Idx : rows[i].hook /\ rows[i].path = c}
Matches(c) == IF ByProv(c) # {} THEN ByProv(c) ELSE ByPath(c)
Healed(r, c) ==
  [r EXCEPT !.prov = IF r.hook /\ @ # NoConv THEN @ ELSE c, !.path = IF r.hook /\ @ # NoConv THEN @ ELSE c,
            !.kept = TRUE]
SessImport(c) ==
  /\ c \in scan.todo /\ scan' = [scan EXCEPT !.todo = @ \ {c}]
  /\ IF Matches(c) # {}
       THEN LET i == CHOOSE i \in Matches(c) : \A j \in Matches(c) : i <= j
            IN /\ rows' = [rows EXCEPT ![i] = Healed(@, c)] /\ UNCHANGED made
               /\ IF rows' # rows THEN Persist ELSE Unsaved
       ELSE /\ MayMake /\ made' = made + 1 /\ Persist
            /\ rows' \in Pruned(Append(rows, [id |-> made + 1, hook |-> FALSE, prov |-> c, path |-> c,
                 tab |-> 0, kept |-> TRUE, resumed |-> FALSE]), 0)
  /\ UNCHANGED <<hooks, binding, live, loading, diskVars>>

\* endBatch, with the write of all that was deferred.
SessScanned ==
  /\ scan.on /\ (scan.todo = {} \/ ~MayMake)
  /\ scan' = NoScan /\ deferred' = FALSE /\ owed' = (owed \/ deferred)
  /\ UNCHANGED <<hooks, rows, made, binding, live, loading, diskVars>>
-----------------------------------------------------------------------------
\* persistNow: a write waits for the load, and is given up when that was refused; then it
\* waits its turn, and takes what the ledger is at that moment; later changes ask for another.
\* Mutant: it does not wait for the load.
WriteEarly == loading # "refused"
MayWrite == loading = "ok"
SessWrite ==
  /\ owed /\ MayWrite /\ owed' = FALSE /\ file' = rows
  /\ UNCHANGED <<hooks, rows, made, binding, live, loading, corrupt, scan, deferred, restarts>>
SessRefuse ==
  /\ owed /\ loading = "refused" /\ owed' = FALSE
  /\ UNCHANGED <<hooks, rows, made, binding, live, loading, scan, deferred, diskVars>>

\* flush, when the application quits, perhaps in the middle of a scan.
SessFlush ==
  /\ deferred /\ deferred' = FALSE /\ owed' = TRUE
  /\ UNCHANGED <<hooks, rows, made, binding, live, loading, scan, diskVars>>

\* The application ends, with all written or in a crash, and starts again.
SessRestart ==
  /\ restarts < Restarts /\ restarts' = restarts + 1
  /\ rows' = <<>> /\ binding' = [t \in SessTabs |-> 0] /\ live' = {}
  /\ loading' = "reading" /\ scan' = NoScan /\ deferred' = FALSE /\ owed' = FALSE
  /\ UNCHANGED <<made, hooks, corrupt, file>>

SessNext ==
  \/ SessLoad \/ SessScanned \/ SessWrite \/ SessRefuse
  \/ SessFlush \/ SessRestart
  \/ \E t \in SessTabs : SessDiscard(t) \/ SessDetach(t) \/ SessCreate(t, 0)
  \/ \E t \in SessTabs, i \in Idx :
       \/ SessPrompt(t, i)
       \/ rows[i].prov # NoConv /\ rows[i].path # NoConv /\ SessCreate(t, i)
       \/ \E c \in Convs, whole \in BOOLEAN : SessIdentify(t, i, c, whole)
  \/ \E c \in Convs : SessImport(c)
  \/ \E cs \in (SUBSET Convs) \ {{}} : SessScan(cs)

SessSpec == SessInit /\ [][SessNext]_sessVars
-----------------------------------------------------------------------------
\* A terminal's hooks go to the last row that was made for it.
SessTypeOK ==
  /\ made \in 0..MaxRows /\ Ids(rows) \subseteq 1..made /\ Cardinality(Ids(rows)) = Len(rows)
  /\ Len(rows) <= RowLimit + Len(file)
  /\ \A i \in Idx : ~rows[i].hook => rows[i].prov = rows[i].path /\ rows[i].prov # NoConv
  /\ \A t \in SessTabs, i \in Idx : Owns(i, t) =>
       rows[i].tab = t /\ \A j \in Idx : rows[j].tab = t => j <= i

\* A conversation never has two cards: no external row stays beside a row of ours that
\* knows its id or its transcript, however late and in whatever pieces that was learned
\* (session-registry.ts:478-482, 641-643).  A row that resumes a conversation is its
\* second card on purpose.
SessOneCard == \A i, j \in Idx :
  /\ ~rows[j].hook /\ rows[i].hook /\ ~rows[i].resumed => ~Shares(rows[i], rows[j])
  /\ ~rows[j].hook /\ ~rows[i].hook /\ i # j => ~Shares(rows[i], rows[j])

\* What a terminal left in the ledger stays on disk, across crashes, scans and a
\* file that cannot be read, as long as no more rows were made than the ledger holds
\* (session-registry.ts:190-198, 500).
SessRowsKept ==
  [][\A i \in DOMAIN file : file[i].hook /\ file[i].kept =>
       file[i].id \in Ids(file') \/ made > RowLimit]_sessVars

\* No change is forgotten: as long as the file is not the ledger, a write waits, or the
\* scan that deferred it is under way (session-registry.ts:98-108, 189-211, 213-222).
SessUnsaved ==
  loading = "ok" /\ file # rows => owed \/ (deferred /\ scan.on)

\* The ledger in memory: one card for a conversation, and no change forgotten.
SessSafe == SessTypeOK /\ SessOneCard /\ SessUnsaved
=============================================================================
