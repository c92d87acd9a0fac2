--------------------------- MODULE OfficeWatchPool ---------------------------
(***************************************************************************)
(* OfficeWatchPool (office/office-watch-pool.ts): one preview process per  *)
(* file, shared by the panes that hold a lease on it, with single-flight   *)
(* starts, reload, crashes, and the stops of a workspace and of the        *)
(* application.                                                            *)
(*                                                                         *)
(* A call is one acquire.  The lease it mints, and the watch it begins     *)
(* when no other call has begun one, are named after it.  Every await is a *)
(* step boundary; the continuations of a settled promise are steps of      *)
(* their own, so more interleavings are allowed than the order of          *)
(* microtasks gives.                                                       *)
(***************************************************************************)
EXTENDS Integers, FiniteSets

CONSTANTS
  MaxCalls,       \* bound: calls of acquire
  Keys,           \* canonical paths of files
  Roots,          \* workspace roots
  RootOf,         \* RootOf[k]: the root file k is under
  Stops,          \* calls of stopUnderRoot and stopAll
  MaxConcurrent,  \* maxConcurrent
  None            \* undefined

ASSUME PoolAssumption ==
  /\ MaxCalls \in Nat /\ RootOf \in [Keys -> Roots] /\ "all" \notin Roots
  /\ MaxConcurrent \in Nat \ {0} /\ None \notin Nat \cup Keys

\* Calls are numbered in the order they are made.
Calls == 1..MaxCalls

VARIABLES
  starting,       \* starting: the watch being started for each file
  startingChild,  \* startingChildren
  ready,          \* ready: the watch that serves each file
  leaseKey,       \* leaseToKey
  leases,         \* leases of each watch
  epoch,          \* targetEpoch, 0 when absent
  barred,         \* stoppingAll and stoppingRoots
  life,           \* progress of the start of each watch
  tries,          \* processes it has spawned
  alive,          \* watches whose process lives
  stopped,        \* those of them that were told to stop
  call,           \* each acquire: its state, file and watch
  releasing,      \* the watch whose end the release of a lease awaits
  reload,         \* the reload of each lease
  stop,           \* each stop and what it awaits
  cancelled       \* history: reloads that a release or a stop has cancelled

poolVars == <<starting, ready, leaseKey, leases, epoch>>
watchVars == <<life, tries, alive, stopped, startingChild>>
previewVars == <<poolVars, watchVars, barred, call, releasing, reload, stop, cancelled>>
-----------------------------------------------------------------------------
MaxTries == 2
KeyOf(w) == call[w].key
ScopeKeys(s) == IF s = "all" THEN Keys ELSE {k \in Keys : RootOf[k] = s}
Barred(k) == \E s \in barred : k \in ScopeKeys(s)
Crashed(k) == ready[k] # None /\ ready[k] \notin alive
Current(w) == starting[KeyOf(w)] = w
Reloading == {l \in Calls : reload[l].stage \notin {"none", "ok", "failed"}}
ReloadsOn(k) == {l \in Reloading : KeyOf(l) = k}
Gone(w) == w = None \/ w \notin alive

\* cleanupEpoch, when the file is `busy` or not after the caller's changes.
EpochAfterCleanup(k, busy) ==
  IF busy \/ ReloadsOn(k) # {} THEN epoch[k] ELSE 0

PoolInit ==
  /\ starting = [k \in Keys |-> None] /\ startingChild = [k \in Keys |-> None]
  /\ ready = [k \in Keys |-> None]
  /\ leaseKey = [l \in Calls |-> None] /\ leases = [w \in Calls |-> {}]
  /\ epoch = [k \in Keys |-> 0] /\ barred = {}
  /\ life = [w \in Calls |-> "new"] /\ tries = [w \in Calls |-> 0]
  /\ alive = {} /\ stopped = {}
  /\ call = [c \in Calls |-> [pc |-> "idle", key |-> None, watch |-> None]]
  /\ releasing = [l \in Calls |-> None]
  /\ reload = [l \in Calls |-> [stage |-> "none", epoch |-> 0, next |-> None]]
  /\ stop = [t \in Stops |-> [pc |-> "idle", scope |-> "all", bars |-> TRUE,
                              reloads |-> {}, starts |-> {}, children |-> {}]]
  /\ cancelled = {}
-----------------------------------------------------------------------------
(***************************************************************************)
(* acquire                                                                 *)
(***************************************************************************)

SetCall(c, k, pc, w) == call' = [call EXCEPT ![c] = [pc |-> pc, key |-> k, watch |-> w]]

\* A lease is minted on watch w.
Mint(c, k, w) ==
  /\ SetCall(c, k, "minted", w)
  /\ leases' = [leases EXCEPT ![w] = @ \cup {c}]
  /\ leaseKey' = [leaseKey EXCEPT ![c] = k]

Begin(c, k) ==
  /\ starting' = [starting EXCEPT ![k] = c]
  /\ life' = [life EXCEPT ![c] = "resolving"]
  /\ SetCall(c, k, "waiting", c)

\* evictCrashed: the watch of k and all its leases are dropped.
Evict(k) ==
  /\ ready' = [ready EXCEPT ![k] = None]
  /\ leases' = [leases EXCEPT ![ready[k]] = {}]
  /\ leaseKey' = [l \in Calls |-> IF l \in leases[ready[k]] THEN None ELSE leaseKey[l]]
  /\ epoch' = [epoch EXCEPT ![k] = EpochAfterCleanup(k, starting[k] # None)]

Load == Cardinality({k \in Keys : starting[k] # None})
        + Cardinality({k \in Keys : ready[k] # None})

\* The synchronous part of acquire: refused while a stop bars the file; a lease
\* on a live watch; the wait for a start under way; TOO_MANY; or a new start,
\* after the eviction of a watch found dead.
AcquireNow(c, k) ==
  \/ /\ Barred(k)
     /\ SetCall(c, k, "failed", None)
     /\ UNCHANGED <<poolVars, life>>
  \/ /\ ~Barred(k) /\ Crashed(k)
     /\ Evict(k) /\ Begin(c, k)
  \/ /\ ~Barred(k) /\ ~Crashed(k) /\ ready[k] # None
     /\ Mint(c, k, ready[k])
     /\ UNCHANGED <<starting, ready, epoch, life>>
  \/ /\ ~Barred(k) /\ ready[k] = None /\ starting[k] # None
     /\ SetCall(c, k, "waiting", starting[k])
     /\ UNCHANGED <<poolVars, life>>
  \/ /\ ~Barred(k) /\ ready[k] = None /\ starting[k] = None
     /\ IF Load >= MaxConcurrent
        THEN SetCall(c, k, "failed", None) /\ UNCHANGED <<poolVars, life>>
        ELSE Begin(c, k) /\ UNCHANGED <<ready, leaseKey, leases, epoch>>

Fresh(c) == call[c].pc = "idle" /\ \A b \in 1..(c - 1) : call[b].pc # "idle"

Acquire(c, k) ==
  /\ Fresh(c) /\ AcquireNow(c, k)
  /\ UNCHANGED <<tries, alive, stopped, startingChild, barred, releasing, reload,
                 stop, cancelled>>

\* The start that the call awaited has settled.
Resume(c) ==
  LET w == call[c].watch
      k == call[c].key IN
  /\ call[c].pc = "waiting" /\ life[w] \in {"ready", "rejected"}
  /\ IF life[w] = "ready" /\ ready[k] = w
     THEN Mint(c, k, w)
     ELSE SetCall(c, k, "failed", None) /\ UNCHANGED <<leases, leaseKey>>
  /\ UNCHANGED <<starting, ready, epoch, watchVars, barred, releasing, reload,
                 stop, cancelled>>
-----------------------------------------------------------------------------
(***************************************************************************)
(* beginStart and start                                                    *)
(***************************************************************************)

Phase(w, p) == life' = [life EXCEPT ![w] = p]
TellToStop(S) == stopped' = stopped \cup (S \cap alive)
Others == <<barred, call, releasing, reload, stop, cancelled>>

\* The promise of the start rejects; its finally forgets a current start.
Reject(w) ==
  /\ Phase(w, "rejected")
  /\ starting' = IF Current(w) THEN [starting EXCEPT ![KeyOf(w)] = None] ELSE starting
  /\ startingChild' = IF Current(w) \/ startingChild[KeyOf(w)] = w
                      THEN [startingChild EXCEPT ![KeyOf(w)] = None]
                      ELSE startingChild

\* No provider, no port, no time left, or the start was superseded.
GiveUp(w) ==
  /\ life[w] = "resolving"
  /\ Reject(w)
  /\ UNCHANGED <<ready, leaseKey, leases, epoch, tries, alive, stopped, Others>>

SpawnWatch(w) ==
  /\ life[w] = "resolving" /\ Current(w)
  /\ Phase(w, "waiting")
  /\ tries' = [tries EXCEPT ![w] = @ + 1]
  /\ alive' = alive \cup {w}
  /\ startingChild' = [startingChild EXCEPT ![KeyOf(w)] = w]
  /\ UNCHANGED <<poolVars, stopped, Others>>

Answers(w) ==
  /\ life[w] = "waiting" /\ w \in alive \ stopped
  /\ Phase(w, "decorating")
  /\ UNCHANGED <<poolVars, tries, alive, stopped, startingChild, Others>>

\* The process exits, does not answer in time, or the proxy fails.
FailStart(w) ==
  /\ life[w] \in {"waiting", "decorating"}
  /\ Phase(w, "failing") /\ TellToStop({w})
  /\ UNCHANGED <<poolVars, tries, alive, startingChild, Others>>

\* The failed process is gone: try again, or reject.
AfterFailure(w) ==
  /\ life[w] = "failing" /\ Gone(w)
  /\ IF Current(w) /\ tries[w] < MaxTries
     THEN /\ Phase(w, "resolving")
          /\ startingChild' = IF startingChild[KeyOf(w)] = w
                              THEN [startingChild EXCEPT ![KeyOf(w)] = None]
                              ELSE startingChild
          /\ UNCHANGED starting
     ELSE Reject(w)
  /\ UNCHANGED <<ready, leaseKey, leases, epoch, tries, alive, stopped, Others>>

\* Mutant: a start that was superseded is published all the same.
PublishAnyway(w) ==
  /\ life[w] = "decorating"
  /\ Phase(w, "ready")
  /\ ready' = [ready EXCEPT ![KeyOf(w)] = w]
  /\ starting' = IF Current(w) THEN [starting EXCEPT ![KeyOf(w)] = None] ELSE starting
  /\ startingChild' = IF Current(w) THEN [startingChild EXCEPT ![KeyOf(w)] = None]
                      ELSE startingChild
  /\ UNCHANGED <<leaseKey, leases, epoch, tries, alive, stopped, Others>>

\* The preview proxy is up: the watch is published if its start is still the
\* current one, else its process is stopped, after startingChildren was set to it.
Decorated(w) ==
  /\ life[w] = "decorating"
  /\ IF Current(w)
     THEN /\ Phase(w, "ready")
          /\ ready' = [ready EXCEPT ![KeyOf(w)] = w]
          /\ starting' = [starting EXCEPT ![KeyOf(w)] = None]
          /\ startingChild' = [startingChild EXCEPT ![KeyOf(w)] = None]
          /\ UNCHANGED stopped
     ELSE /\ Phase(w, "superseded") /\ TellToStop({w})
          /\ startingChild' = [startingChild EXCEPT ![KeyOf(w)] = w]
          /\ UNCHANGED <<ready, starting>>
  /\ UNCHANGED <<leaseKey, leases, epoch, tries, alive, Others>>

SupersededEnds(w) ==
  /\ life[w] = "superseded" /\ Gone(w)
  /\ Phase(w, "rejected")
  /\ UNCHANGED <<poolVars, tries, alive, stopped, startingChild, Others>>

\* The process exits, told to or not; handleCrash follows for a watch in use.
Exit(w) ==
  /\ w \in alive /\ alive' = alive \ {w} /\ stopped' = stopped \ {w}
  /\ UNCHANGED <<poolVars, life, tries, startingChild, Others>>

HandleCrash(k) ==
  /\ Crashed(k) /\ Evict(k)
  /\ UNCHANGED <<starting, watchVars, Others>>
-----------------------------------------------------------------------------
(***************************************************************************)
(* release and reload                                                      *)
(***************************************************************************)

\* Mutant: the process of the last lease is left running.
ReleaseLeaseOnly(l) ==
  LET k == leaseKey[l]
      w == ready[k]
      last == leases[w] = {l} IN
  /\ leaseKey' = [leaseKey EXCEPT ![l] = None]
  /\ leases' = [leases EXCEPT ![w] = @ \ {l}]
  /\ ready' = IF last THEN [ready EXCEPT ![k] = None] ELSE ready
  /\ UNCHANGED <<stopped, releasing>>

\* releaseLease up to its await: the last lease ends the watch.
ReleaseLease(l) ==
  LET k == leaseKey[l]
      w == ready[k]
      last == leases[w] = {l} IN
  /\ leaseKey' = [leaseKey EXCEPT ![l] = None]
  /\ leases' = [leases EXCEPT ![w] = @ \ {l}]
  /\ ready' = IF last THEN [ready EXCEPT ![k] = None] ELSE ready
  /\ TellToStop(IF last THEN {w} ELSE {})
  /\ releasing' = [releasing EXCEPT ![l] = IF last THEN w ELSE None]

\* A client has the lease: the call has minted it, and if a reload made the call
\* the reload has returned it.
Owned(l) ==
  call[l].pc = "minted" /\ \A r \in Reloading : reload[r].next # l

ReleaseCall(l) ==
  /\ Owned(l) /\ l \notin Reloading /\ leaseKey[l] # None
  /\ ReleaseLease(l)
  /\ UNCHANGED <<starting, epoch, life, tries, alive, startingChild, barred, call,
                 reload, stop, cancelled>>

\* The watch is gone: the epoch of its file may be dropped.
ReleaseEnds(l) ==
  LET k == KeyOf(l) IN
  /\ releasing[l] # None /\ Gone(releasing[l])
  /\ l \notin Reloading /\ \A r \in Reloading : reload[r].next # l
  /\ releasing' = [releasing EXCEPT ![l] = None]
  /\ epoch' = [epoch EXCEPT ![k] =
       EpochAfterCleanup(k, ready[k] # None \/ starting[k] # None)]
  /\ UNCHANGED <<starting, ready, leaseKey, leases, watchVars, barred, call, reload,
                 stop, cancelled>>

\* release of a lease that is being reloaded: the reload is cancelled.
ReleaseReloading(l) ==
  /\ l \in Reloading /\ l \notin cancelled
  /\ epoch' = [epoch EXCEPT ![KeyOf(l)] = @ + 1]
  /\ cancelled' = cancelled \cup {l}
  /\ UNCHANGED <<starting, ready, leaseKey, leases, watchVars, barred, call,
                 releasing, reload, stop>>

SetReload(l, r) == reload' = [reload EXCEPT ![l] = r]

Reload(l) ==
  LET k == KeyOf(l) IN
  /\ Owned(l) /\ leaseKey[l] # None /\ l \notin Reloading
  /\ epoch' = [epoch EXCEPT ![k] = @ + 1]
  /\ SetReload(l, [stage |-> "releasing", epoch |-> epoch[k] + 1, next |-> None])
  /\ ReleaseLease(l)
  /\ UNCHANGED <<starting, life, tries, alive, startingChild, barred, call, stop,
                 cancelled>>

Superseded(l) == epoch[KeyOf(l)] # reload[l].epoch

\* The reload returns or throws: its operation is forgotten and the epoch of the
\* file may be dropped.
EndReload(l, how) ==
  LET k == KeyOf(l) IN
  /\ SetReload(l, [reload[l] EXCEPT !.stage = how])
  /\ releasing' = [c \in Calls |-> IF c \in {l, reload[l].next} THEN None ELSE releasing[c]]
  /\ epoch' = IF ready[k] # None \/ starting[k] # None \/ ReloadsOn(k) # {l}
              THEN epoch ELSE [epoch EXCEPT ![k] = 0]

\* The old lease is released; the file is acquired again, unless the reload was
\* cancelled.
ReloadAcquires(l, c) ==
  /\ reload[l].stage = "releasing" /\ Gone(releasing[l]) /\ ~Superseded(l)
  /\ Fresh(c) /\ AcquireNow(c, KeyOf(l))
  /\ SetReload(l, [reload[l] EXCEPT !.stage = "acquiring", !.next = c])
  /\ UNCHANGED <<tries, alive, stopped, startingChild, barred, releasing, stop,
                 cancelled>>

ReloadReturns(l) ==
  LET c == reload[l].next IN
  /\ reload[l].stage = "acquiring" /\ call[c].pc = "minted" /\ ~Superseded(l)
  /\ EndReload(l, "ok")
  /\ UNCHANGED <<starting, ready, leaseKey, leases, watchVars, barred, call, stop,
                 cancelled>>

\* Cancelled while it acquired: the replacement is released again.
ReloadUndoes(l) ==
  LET c == reload[l].next IN
  /\ reload[l].stage = "acquiring" /\ call[c].pc = "minted" /\ Superseded(l)
  /\ SetReload(l, [reload[l] EXCEPT !.stage = "undoing"])
  /\ IF leaseKey[c] # None THEN ReleaseLease(c)
     ELSE UNCHANGED <<leaseKey, leases, ready, stopped, releasing>>
  /\ UNCHANGED <<starting, epoch, life, tries, alive, startingChild, barred, call,
                 stop, cancelled>>

\* Mutant: a reload cancelled while it released its lease never finishes.
ReloadFailsLate(l) ==
  /\ \/ reload[l].stage = "acquiring" /\ call[reload[l].next].pc = "failed"
     \/ reload[l].stage = "undoing" /\ Gone(releasing[reload[l].next])
  /\ EndReload(l, "failed")
  /\ UNCHANGED <<starting, ready, leaseKey, leases, watchVars, barred, call, stop,
                 cancelled>>

\* The reload throws: cancelled, or its acquire failed.
ReloadFails(l) ==
  /\ \/ reload[l].stage = "releasing" /\ Gone(releasing[l]) /\ Superseded(l)
     \/ reload[l].stage = "acquiring" /\ call[reload[l].next].pc = "failed"
     \/ reload[l].stage = "undoing" /\ Gone(releasing[reload[l].next])
  /\ EndReload(l, "failed")
  /\ UNCHANGED <<starting, ready, leaseKey, leases, watchVars, barred, call, stop,
                 cancelled>>
-----------------------------------------------------------------------------
(***************************************************************************)
(* stopUnderRoot and stopAll                                               *)
(***************************************************************************)

\* What a stop of the files K removes and awaits.
Record(s, bars, K) ==
  [pc |-> "busy", scope |-> s, bars |-> bars,
   reloads |-> {l \in Reloading : KeyOf(l) \in K},
   starts |-> {starting[k] : k \in K} \ {None},
   children |-> ({startingChild[k] : k \in {j \in K : starting[j] # None}}
                 \cup {ready[k] : k \in K}) \ {None}]

\* A stop of scope s, a workspace root or all: reloads are cancelled, starts and
\* watches forgotten, their processes told to stop, and acquires barred, unless
\* the root of the workspace could not be resolved.
StopBegins(t, s, bars) ==
  LET K == ScopeKeys(s)
      r == Record(s, bars, K)
      dropped == UNION {leases[w] : w \in {ready[k] : k \in K} \ {None}} IN
  /\ stop[t].pc = "idle" /\ (s = "all" => bars)
  /\ stop' = [stop EXCEPT ![t] = r]
  /\ barred' = IF bars THEN barred \cup {s} ELSE barred
  /\ cancelled' = cancelled \cup r.reloads
  /\ epoch' = [k \in Keys |->
       IF k \in K /\ ReloadsOn(k) # {} THEN epoch[k] + 1
       ELSE IF k \in K /\ ready[k] # None THEN 0 ELSE epoch[k]]
  /\ startingChild' = [k \in Keys |-> IF k \in K /\ starting[k] # None
                                      THEN None ELSE startingChild[k]]
  /\ starting' = [k \in Keys |-> IF k \in K THEN None ELSE starting[k]]
  /\ ready' = [k \in Keys |-> IF k \in K THEN None ELSE ready[k]]
  /\ leases' = [w \in Calls |-> IF w \in {ready[k] : k \in K} THEN {} ELSE leases[w]]
  /\ leaseKey' = [l \in Calls |-> IF s = "all" \/ l \in dropped THEN None ELSE leaseKey[l]]
  /\ TellToStop(r.children)
  /\ UNCHANGED <<life, tries, alive, call, releasing, reload>>

\* Everything the stop awaited has settled; it takes its bar away, and that of
\* another stop of the same scope with it.
StopReturns(t) ==
  /\ stop[t].pc = "busy"
  /\ stop[t].reloads \cap Reloading = {}
  /\ \A w \in stop[t].starts : life[w] \in {"ready", "rejected"}
  /\ stop[t].children \cap alive = {}
  /\ stop' = [stop EXCEPT ![t].pc = "done"]
  /\ barred' = IF stop[t].bars THEN barred \ {stop[t].scope} ELSE barred
  /\ UNCHANGED <<poolVars, watchVars, call, releasing, reload, cancelled>>
-----------------------------------------------------------------------------
StartStep(w) ==
  GiveUp(w) \/ SpawnWatch(w) \/ Answers(w) \/ FailStart(w) \/ AfterFailure(w)
  \/ Decorated(w) \/ SupersededEnds(w)
ReloadStep(l) ==
  \/ \E c \in Calls : ReloadAcquires(l, c)
  \/ ReloadReturns(l) \/ ReloadUndoes(l) \/ ReloadFails(l)

PoolNext ==
  \/ \E c \in Calls :
       \/ \E k \in Keys : Acquire(c, k)
       \/ Resume(c) \/ StartStep(c) \/ Exit(c)
       \/ ReleaseCall(c) \/ ReleaseEnds(c) \/ ReleaseReloading(c)
       \/ Reload(c) \/ ReloadStep(c)
  \/ \E k \in Keys : HandleCrash(k)
  \/ \E t \in Stops :
       \/ \E s \in Roots \cup {"all"}, bars \in BOOLEAN : StopBegins(t, s, bars)
       \/ StopReturns(t)

PoolSpec == PoolInit /\ [][PoolNext]_previewVars

\* Starts have a deadline, a process told to stop is killed after a second, and
\* promises that settle run their continuations.  There are finitely many such
\* steps after each call, so fairness to all of them together is enough.
Progress ==
  \/ \E c \in Calls : Resume(c) \/ StartStep(c) \/ ReloadStep(c)
                     \/ (c \in stopped /\ Exit(c))
  \/ \E t \in Stops : StopReturns(t)
PoolFairness == WF_previewVars(Progress)
PoolFairSpec == PoolSpec /\ PoolFairness
-----------------------------------------------------------------------------
(***************************************************************************)
(* Properties                                                              *)
(***************************************************************************)

\* Every variable has its type.
PoolTypeOK ==
  /\ starting \in [Keys -> Calls \cup {None}]
  /\ startingChild \in [Keys -> Calls \cup {None}]
  /\ ready \in [Keys -> Calls \cup {None}]
  /\ leaseKey \in [Calls -> Keys \cup {None}]
  /\ leases \in [Calls -> SUBSET Calls]
  /\ epoch \in [Keys -> Nat] /\ barred \subseteq Roots \cup {"all"}
  /\ life \in [Calls -> {"new", "resolving", "waiting", "decorating", "failing",
                          "superseded", "ready", "rejected"}]
  /\ tries \in [Calls -> 0..MaxTries]
  /\ alive \subseteq Calls /\ stopped \subseteq alive /\ cancelled \subseteq Calls
  /\ call \in [Calls -> [pc : {"idle", "waiting", "minted", "failed"},
                         key : Keys \cup {None}, watch : Calls \cup {None}]]
  /\ releasing \in [Calls -> Calls \cup {None}]
  /\ reload \in [Calls -> [stage : {"none", "releasing", "acquiring", "undoing",
                                    "ok", "failed"},
                           epoch : Nat, next : Calls \cup {None}]]
  /\ stop \in [Stops -> [pc : {"idle", "busy", "done"}, scope : Roots \cup {"all"},
                         bars : BOOLEAN, reloads : SUBSET Calls,
                         starts : SUBSET Calls, children : SUBSET Calls]]

\* The two indexes of leases agree, through crashes, evictions, reloads and
\* stops: a lease resolves to a file exactly when the watch that serves the file
\* has it, so no pane keeps a lease on a watch that is gone.
LeasesMatch ==
  /\ \A l \in Calls, k \in Keys :
       leaseKey[l] = k <=> ready[k] # None /\ l \in leases[ready[k]]
  /\ \A w \in Calls : leases[w] # {} => ready[KeyOf(w)] = w

\* Never more than maxConcurrent files are being started or served, and no file
\* is both.
WithinLimit ==
  /\ Cardinality({k \in Keys : starting[k] # None \/ ready[k] # None}) <= MaxConcurrent
  /\ \A k \in Keys : starting[k] = None \/ ready[k] = None

\* No preview process is forgotten: one that lives and was not told to stop is
\* serving its file or belongs to a start that has yet to decide.
NoOrphan ==
  \A w \in alive \ stopped :
    ready[KeyOf(w)] = w \/ life[w] \in {"waiting", "decorating"}

\* The pool knows what it serves and to whom, within its limit.
PoolSafe == PoolTypeOK /\ LeasesMatch /\ WithinLimit /\ NoOrphan

\* When a stop returns, what it found STARTING or READY is over: every such
\* start has been rejected and its processes are dead.
StopReaps ==
  \A t \in Stops : stop[t].pc = "done" =>
    \A w \in stop[t].starts \cup stop[t].children : w \notin alive

\* A stop removes a start for good: it is never published.
StoppedStartsReject ==
  \A t \in Stops : \A w \in stop[t].starts : life[w] # "ready"

\* A reload that was cancelled, by the release of its lease or by a stop,
\* publishes no replacement.
CancelledReload ==
  \A l \in cancelled :
    /\ reload[l].stage # "ok"
    /\ reload[l].stage = "failed" /\ reload[l].next # None =>
         leaseKey[reload[l].next] = None

\* What was stopped or cancelled stays so, whatever was under way.
StopsHold == StopReaps /\ StoppedStartsReject /\ CancelledReload

\* A stop returns: it never waits for a start, a reload or a process that waits
\* for ever.
StopsEnd == \A t \in Stops : stop[t].pc = "busy" ~> stop[t].pc = "done"
=============================================================================
