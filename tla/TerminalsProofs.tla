-------------------------- MODULE TerminalsProofs --------------------------
(***************************************************************************)
(* What holds of the terminals for any number of creations, prompts, turns, *)
(* changes and units of usage: theorems about Terminals, TurnChanges and    *)
(* UsageLedger, each from an inductive invariant of that module.            *)
(***************************************************************************)
EXTENDS Terminals, TurnChanges, UsageLedger, Integers, SequenceTheorems, TLAPS

-----------------------------------------------------------------------------
(***************************************************************************)
(* The life of a terminal id.  The invariant adds what a creation under    *)
(* way holds, and what every entry knows of the checkpoints made for it.   *)
(***************************************************************************)

Entry == [ready : BOOLEAN, making : BOOLEAN, checkpoint : Nat, previous : Nat, queue : Nat]

TermTypes ==
  /\ creation \in [Ptys -> {"none", "preparing", "done", "failed"}]
  /\ pty \in [Ptys -> {"none", "live", "dying", "ended", "gone"}]
  /\ instance \in {0} \cup Ptys /\ registered \in {0} \cup Ptys
  /\ current \in Objects \cup {Nobody} /\ initialising \subseteq Ptys
  /\ objects \in [Objects -> Entry] /\ made \in Seq(Objects)

\* Checkpoint c is among the finalised ones, f, or an entry r accounts for it.
Kept(r, c, f) ==
  \/ c \in f \/ c = r.checkpoint
  \/ r.making /\ c = r.previous

\* An entry knows only checkpoints that were made, none while one is being made, and
\* accounts for all those of its object, whichever terminal has the id by now.
EntryKeeps(r, o, m, f) ==
  /\ r.checkpoint <= Len(m) /\ r.previous <= Len(m)
  /\ r.making => r.checkpoint = 0
  /\ \A c \in 1..Len(m) : m[c] = o => Kept(r, c, f)
EntriesKeep ==
  /\ \A o \in Objects : EntryKeeps(objects[o], o, made, finalised)
  /\ finalised \subseteq 1..Len(made) /\ closing.checkpoint \in 0..Len(made)

\* The stub of a creation stays until the creation ends.
StubStays ==
  \A n \in Ptys : creation[n] = "preparing" /\ ~overlap => current = <<n, "stub">>

TermInv == TermTypes /\ EntriesKeep /\ StubStays /\ TermOneLive /\ TermKeeps
-----------------------------------------------------------------------------
LEMMA PtyFacts ==
  /\ 0 \notin Ptys /\ Nobody \notin Objects
  /\ \A n \in Ptys : <<n, "stub">> \in Objects /\ <<n, "full">> \in Objects
BY TermAssumption DEF Ptys, Objects, Nobody

\* While a creation is under way, and the window was not closed meanwhile, the id is locked.
LEMMA CreationLocks ==
  ASSUME StubStays, ~TermLocked, NEW n \in Ptys, creation[n] = "preparing"
  PROVE overlap
<1> SUFFICES ASSUME ~overlap PROVE FALSE
  OBVIOUS
<1>1. current = <<n, "stub">>
  BY DEF StubStays
<1>2. current # Nobody /\ current[2] = "stub"
  BY <1>1, PtyFacts
<1> QED
  BY <1>2 DEF TermLocked

\* The state of the checkpoints does not depend on the processes.
LEMMA EntriesSame ==
  ASSUME EntriesKeep, UNCHANGED <<objects, made, finalised, closing>>
  PROVE EntriesKeep'
BY DEF EntriesKeep, EntryKeeps, Kept

LEMMA TermInitInv == TermInit => TermInv
<1> SUFFICES ASSUME TermInit PROVE TermInv
  OBVIOUS
<1>1. Len(made) = 0 /\ made \in Seq(Objects)
  BY DEF TermInit
<1>2. Blank \in Entry
  BY DEF Blank, Entry
<1>3. TermTypes
  BY <1>1, <1>2 DEF TermInit, TermTypes
<1>4. EntriesKeep
  BY <1>1 DEF TermInit, EntriesKeep, EntryKeeps, Blank, NotClosing
<1> QED
  BY <1>3, <1>4 DEF TermInit, TermInv, StubStays, TermOneLive, TermKeeps

\* When the manager kills what it knows, nothing runs any more.
LEMMA KilledProperties ==
  ASSUME TermTypes, TermOneLive
  PROVE /\ Killed \in [Ptys -> {"none", "live", "dying", "ended", "gone"}]
        /\ \A p \in Ptys : Killed[p] # "live"
BY PtyFacts DEF Killed, TermTypes, TermOneLive

\* A step that leaves nothing running, or nothing but pty n with its state.
LEMMA NothingLives ==
  ASSUME TermTypes, TermOneLive, pty' = Killed
  PROVE TermOneLive' /\ TermKeeps' /\ pty' \in [Ptys -> {"none", "live", "dying", "ended", "gone"}]
BY KilledProperties DEF TermOneLive, TermKeeps

LEMMA TermCreateInv == ASSUME TermInv, NEW n \in Ptys, TermCreate(n) PROVE TermInv'
<1> USE DEF TermInv
<1>1. /\ creation' = [creation EXCEPT ![n] = "preparing"] /\ ~TermLocked
      /\ pty' = Killed /\ instance' = 0 /\ current' = <<n, "stub">>
      /\ UNCHANGED <<initialising, objects, registered, closing, made, finalised, overlap>>
  BY DEF TermCreate, CheckpointsSame, BoundsSame
<1>2. TermTypes'
  BY <1>1, NothingLives, PtyFacts DEF TermTypes
<1>3. EntriesKeep'
  BY <1>1, EntriesSame
<1>4. \A m \in Ptys : creation[m] = "preparing" => overlap
  BY <1>1, CreationLocks
<1>5. StubStays'
  BY <1>1, <1>4 DEF StubStays, TermTypes
<1> QED
  BY <1>1, <1>2, <1>3, <1>5, NothingLives

LEMMA TermSpawnInv == ASSUME TermInv, NEW n \in Ptys, TermSpawn(n) PROVE TermInv'
<1> USE DEF TermInv
<1>1. /\ creation[n] = "preparing" /\ creation' = [creation EXCEPT ![n] = "done"]
      /\ pty' = [Killed EXCEPT ![n] = "live"] /\ instance' = n
      /\ current' = <<n, "full">> /\ registered' = n /\ initialising' = initialising \cup {n}
      /\ UNCHANGED <<objects, closing, made, finalised, overlap>>
  BY DEF TermSpawn, CheckpointsSame, BoundsSame
<1>2. TermTypes'
  BY <1>1, KilledProperties, PtyFacts DEF TermTypes
<1>3. EntriesKeep'
  BY <1>1, EntriesSame
<1>4. \A m \in Ptys : creation[m] = "preparing" /\ m # n => overlap
  BY <1>1 DEF StubStays
<1>5. StubStays'
  BY <1>1, <1>4 DEF StubStays, TermTypes
<1>6. \A p \in Ptys : pty'[p] = "live" => p = n
  BY <1>1, KilledProperties
<1> QED
  BY <1>1, <1>2, <1>3, <1>5, <1>6 DEF TermOneLive, TermKeeps

LEMMA TermFailsInv == ASSUME TermInv, NEW n \in Ptys, TermFails(n) PROVE TermInv'
<1> USE DEF TermInv
<1>1. /\ creation[n] = "preparing" /\ creation' = [creation EXCEPT ![n] = "failed"]
      /\ \/ UNCHANGED <<pty, instance, registered>>
         \/ pty' = Killed /\ instance' = 0 /\ UNCHANGED registered
         \/ pty' = [Killed EXCEPT ![n] = "dying"] /\ instance' = 0 /\ registered' = 0
      /\ current' = Nobody
      /\ UNCHANGED <<initialising, objects, closing, made, finalised, overlap>>
  BY DEF TermFails, CheckpointsSame, BoundsSame
<1>2. TermTypes'
  BY <1>1, KilledProperties, PtyFacts DEF TermTypes
<1>3. EntriesKeep'
  BY <1>1, EntriesSame
<1>4. \A m \in Ptys : creation[m] = "preparing" /\ m # n => overlap
  BY <1>1 DEF StubStays
<1>5. StubStays'
  BY <1>1, <1>4 DEF StubStays, TermTypes
<1>6. overlap \/ current = <<n, "stub">>
  BY <1>1 DEF StubStays
<1>7. TermOneLive' /\ TermKeeps'
  BY <1>1, <1>6, KilledProperties DEF TermOneLive, TermKeeps
<1> QED
  BY <1>2, <1>3, <1>5, <1>7

LEMMA PtyEndsInv == ASSUME TermInv, NEW p \in Ptys, PtyEnds(p) PROVE TermInv'
<1> USE DEF TermInv
<1>1. /\ pty' = [pty EXCEPT ![p] = "ended"]
      /\ UNCHANGED <<creation, initialising, instance, current, objects, registered, closing, made, finalised, overlap>>
  BY DEF PtyEnds, CheckpointsSame, BoundsSame
<1>2. TermTypes'
  BY <1>1 DEF TermTypes
<1>3. EntriesKeep'
  BY <1>1, EntriesSame
<1> QED
  BY <1>1, <1>2, <1>3 DEF StubStays, TermOneLive, TermKeeps, TermTypes

LEMMA TermKillInv == ASSUME TermInv, TermKill PROVE TermInv'
<1> USE DEF TermInv
<1>1. /\ pty' = Killed /\ instance' = 0
      /\ UNCHANGED <<creation, initialising, current, objects, registered, closing, made, finalised, overlap>>
  BY DEF TermKill, CheckpointsSame, BoundsSame
<1>2. TermTypes'
  BY <1>1, NothingLives DEF TermTypes
<1>3. EntriesKeep'
  BY <1>1, EntriesSame
<1> QED
  BY <1>1, <1>2, <1>3, NothingLives DEF StubStays

\* The closing of the window takes the checkpoint that the state of the id has.
LEMMA TermWindowInv == ASSUME TermInv, TermWindowClosed PROVE TermInv'
<1> USE DEF TermInv
<1>1. /\ closing' = [on |-> TRUE, checkpoint |-> IF current = Nobody THEN 0 ELSE objects[current].checkpoint]
      /\ UNCHANGED <<creation, initialising, pty, instance, current, objects, registered, made, finalised, overlap>>
  BY DEF TermWindowClosed, CheckpointsSame
<1>2. TermTypes' /\ StubStays' /\ TermOneLive' /\ TermKeeps'
  BY <1>1 DEF TermTypes, StubStays, TermOneLive, TermKeeps
<1>3. closing'.checkpoint \in 0..Len(made)
  <2>1. closing'.checkpoint = IF current = Nobody THEN 0 ELSE objects[current].checkpoint
    BY <1>1
  <2>2. Len(made) \in Nat
    BY LenProperties DEF TermTypes
  <2>3. CASE current = Nobody
    BY <2>1, <2>2, <2>3
  <2>4. CASE current # Nobody
    <3>1. current \in Objects /\ objects[current].checkpoint \in Nat /\ objects[current].checkpoint <= Len(made)
      BY <2>4 DEF TermTypes, EntriesKeep, EntryKeeps, Entry
    <3> QED
      BY <2>1, <2>2, <2>4, <3>1
  <2> QED
    BY <2>3, <2>4
<1>4. EntriesKeep'
  BY <1>1, <1>3 DEF EntriesKeep, EntryKeeps, Kept
<1> QED
  BY <1>2, <1>4

\* More checkpoints finalised, all of them made.
LEMMA MoreFinalised ==
  ASSUME EntriesKeep, UNCHANGED <<objects, made>>, finalised \subseteq finalised',
         finalised' \subseteq 1..Len(made), closing'.checkpoint \in 0..Len(made)
  PROVE EntriesKeep'
BY DEF EntriesKeep, EntryKeeps, Kept

LEMMA TermClearedInv == ASSUME TermInv, TermCleared PROVE TermInv'
<1> USE DEF TermInv
<1>1. /\ closing' = NotClosing
      /\ finalised' \in {finalised, finalised \cup ({closing.checkpoint} \ {0})}
      /\ pty' = Killed /\ instance' = 0 /\ current' = Nobody /\ registered' = 0
      /\ overlap' = (overlap \/ \E n \in Ptys : creation[n] = "preparing")
      /\ UNCHANGED <<creation, initialising, objects, made>>
  BY DEF TermCleared
<1>2. TermTypes'
  BY <1>1, NothingLives DEF TermTypes
<1>3. EntriesKeep'
  <2>1. Len(made) \in Nat
    BY LenProperties DEF TermTypes
  <2>2. closing'.checkpoint \in 0..Len(made)
    BY <1>1, <2>1 DEF NotClosing
  <2>3. finalised \subseteq finalised' /\ finalised' \subseteq 1..Len(made)
    BY <1>1, <2>1 DEF EntriesKeep
  <2> QED
    BY <1>1, <2>2, <2>3, MoreFinalised
<1>4. StubStays'
  BY <1>1 DEF StubStays
<1> QED
  BY <1>1, <1>2, <1>3, <1>4, NothingLives

\* The end of a pty that has the id, or had it last, finds nothing running.
LEMMA PtyExitInv == ASSUME TermInv, NEW p \in Ptys, PtyExit(p) PROVE TermInv'
<1> USE DEF TermInv
<1>1. /\ pty[p] \in {"dying", "ended"} /\ pty' = [pty EXCEPT ![p] = "gone"]
      /\ UNCHANGED <<creation, initialising, objects, closing, made, overlap>>
  BY DEF PtyExit, BoundsSame
<1>2. CASE StaleExit(p)
  <2>1. UNCHANGED <<instance, current, registered, finalised>>
    BY <1>2 DEF PtyExit
  <2>2. TermTypes'
    BY <1>1, <2>1 DEF TermTypes
  <2>3. EntriesKeep'
    BY <1>1, <2>1, EntriesSame
  <2> QED
    BY <1>1, <2>1, <2>2, <2>3 DEF StubStays, TermOneLive, TermKeeps, TermTypes
<1>3. CASE ~StaleExit(p)
  <2>1. /\ instance' = 0 /\ current' = Nobody /\ registered' = 0
        /\ finalised' \in {finalised, finalised \cup ({objects[o].checkpoint : o \in Objects \cap {current}} \ {0})}
        /\ instance \in {0, p} /\ ~TermLocked
    BY <1>3 DEF PtyExit, StaleExit
  <2>2. TermTypes'
    BY <1>1, <2>1 DEF TermTypes
  <2>3. \A q \in Ptys : pty'[q] # "live"
    BY <1>1, <2>1, PtyFacts DEF TermOneLive, TermTypes
  <2>4. \A n \in Ptys : creation[n] = "preparing" => overlap
    BY <2>1, CreationLocks
  <2>5. Len(made) \in Nat
    BY LenProperties DEF TermTypes
  <2>6. \A o \in Objects : objects[o].checkpoint \in Nat /\ objects[o].checkpoint <= Len(made)
    BY DEF TermTypes, EntriesKeep, EntryKeeps, Entry
  <2>7. finalised \subseteq finalised' /\ finalised' \subseteq 1..Len(made)
    <3>1. {objects[o].checkpoint : o \in Objects \cap {current}} \ {0} \subseteq 1..Len(made)
      BY <2>5, <2>6
    <3> QED
      BY <2>1, <3>1 DEF EntriesKeep
  <2>8. closing'.checkpoint \in 0..Len(made)
    BY <1>1 DEF EntriesKeep
  <2>9. EntriesKeep'
    BY <1>1, <2>7, <2>8, MoreFinalised
  <2> QED
    BY <1>1, <2>1, <2>2, <2>3, <2>4, <2>9 DEF StubStays, TermOneLive, TermKeeps
<1> QED
  BY <1>2, <1>3

-----------------------------------------------------------------------------
\* Taking the next prompt from the queue keeps the checkpoint as the previous one.
LEMMA ProcessedProperties ==
  ASSUME NEW r \in Entry, NEW o, NEW m \in Seq(Objects), NEW f, EntryKeeps(r, o, m, f)
  PROVE Processed(r) \in Entry /\ EntryKeeps(Processed(r), o, m, f)
<1>1. CASE r.ready /\ ~r.making /\ r.queue > 0
  <2> DEFINE q == [r EXCEPT !.making = TRUE, !.queue = r.queue - 1, !.previous = r.checkpoint, !.checkpoint = 0]
  <2>1. Processed(r) = q
    BY <1>1 DEF Processed
  <2>2. r.queue \in Nat /\ r.queue - 1 \in Nat /\ r.checkpoint \in Nat
    BY <1>1 DEF Entry
  <2>3. q \in Entry
    BY <2>2 DEF Entry
  <2>4. q.making /\ q.previous = r.checkpoint /\ q.checkpoint = 0
    BY DEF Entry
  <2> HIDE DEF q
  <2>5. q.checkpoint <= Len(m) /\ q.previous <= Len(m)
    <3> DEFINE n == Len(m)
    <3>1. r.checkpoint <= n
      BY DEF EntryKeeps
    <3>2. n \in Int
      BY LenProperties
    <3> HIDE DEF n
    <3> QED
      BY <2>2, <2>4, <3>1, <3>2 DEF n
  <2>6. ASSUME NEW c \in 1..Len(m), m[c] = o PROVE Kept(q, c, f)
    BY <1>1, <2>4, <2>6 DEF EntryKeeps, Kept
  <2> QED
    BY <2>1, <2>3, <2>4, <2>5, <2>6 DEF EntryKeeps
<1>2. CASE ~(r.ready /\ ~r.making /\ r.queue > 0)
  BY <1>2 DEF Processed
<1> QED
  BY <1>1, <1>2

\* The queue of the terminal that has the id goes on.
LEMMA GoesProperties ==
  ASSUME NEW os \in [Objects -> Entry], NEW m \in Seq(Objects), NEW f, current \in Objects \cup {Nobody},
         \A o \in Objects : EntryKeeps(os[o], o, m, f)
  PROVE Goes(os) \in [Objects -> Entry] /\ \A o \in Objects : EntryKeeps(Goes(os)[o], o, m, f)
<1>1. CASE current = Nobody
  BY <1>1 DEF Goes
<1>2. CASE current # Nobody
  <2>1. current \in Objects /\ Goes(os) = [os EXCEPT ![current] = Processed(os[current])]
    BY <1>2 DEF Goes
  <2>2. Processed(os[current]) \in Entry /\ EntryKeeps(Processed(os[current]), current, m, f)
    BY <2>1, ProcessedProperties
  <2> QED
    BY <2>1, <2>2
<1> QED
  BY <1>1, <1>2

\* The entry of the current terminal is changed in what its checkpoints do not depend on,
\* then its queue goes on.
LEMMA EntryTouched ==
  ASSUME TermTypes, EntriesKeep, current \in Objects, NEW r \in Entry,
         r.making = objects[current].making, r.checkpoint = objects[current].checkpoint,
         r.previous = objects[current].previous,
         objects' = [objects EXCEPT ![current] = Processed(r)],
         UNCHANGED <<made, finalised, closing>>
  PROVE EntriesKeep' /\ objects' \in [Objects -> Entry]
<1>1. EntryKeeps(r, current, made, finalised)
  BY DEF EntriesKeep, EntryKeeps, Kept
<1>2. Processed(r) \in Entry /\ EntryKeeps(Processed(r), current, made, finalised)
  BY <1>1, ProcessedProperties DEF TermTypes
<1>3. \A x \in Objects : EntryKeeps(objects'[x], x, made, finalised)
  BY <1>2 DEF EntriesKeep, TermTypes
<1> QED
  BY <1>2, <1>3 DEF EntriesKeep, TermTypes

LEMMA TermInitialisedInv == ASSUME TermInv, NEW n \in Ptys, TermInitialised(n) PROVE TermInv'
<1> USE DEF TermInv
<1>1. /\ initialising' = initialising \ {n}
      /\ \/ UNCHANGED objects
         \/ /\ current # Nobody
            /\ objects' = [objects EXCEPT ![current] = Processed([objects[current] EXCEPT !.ready = TRUE])]
      /\ UNCHANGED <<creation, pty, instance, current, registered, closing, made, finalised, overlap>>
  BY DEF TermInitialised, CheckpointsSame, BoundsSame
<1>2. EntriesKeep' /\ objects' \in [Objects -> Entry]
  <2>1. CASE UNCHANGED objects
    BY <1>1, <2>1, EntriesSame DEF TermTypes
  <2>2. CASE /\ current # Nobody
             /\ objects' = [objects EXCEPT ![current] = Processed([objects[current] EXCEPT !.ready = TRUE])]
    <3> DEFINE r == [objects[current] EXCEPT !.ready = TRUE]
    <3>1. current \in Objects /\ objects[current] \in Entry
      BY <2>2 DEF TermTypes
    <3>2. /\ r \in Entry /\ r.making = objects[current].making
          /\ r.checkpoint = objects[current].checkpoint /\ r.previous = objects[current].previous
      BY <3>1 DEF Entry
    <3>3. objects' = [objects EXCEPT ![current] = Processed(r)]
      BY <2>2
    <3> HIDE DEF r
    <3> QED
      BY <1>1, <3>1, <3>2, <3>3, EntryTouched
  <2> QED
    BY <1>1, <2>1, <2>2
<1>3. TermTypes'
  BY <1>1, <1>2 DEF TermTypes
<1> QED
  BY <1>1, <1>2, <1>3 DEF StubStays, TermOneLive, TermKeeps

LEMMA TermSubmitInv == ASSUME TermInv, TermSubmit PROVE TermInv'
<1> USE DEF TermInv
<1> DEFINE r == [objects[current] EXCEPT !.queue = objects[current].queue + 1]
<1>1. /\ current # Nobody /\ objects' = [objects EXCEPT ![current] = Processed(r)]
      /\ UNCHANGED <<creation, initialising, pty, instance, current, registered, closing, made, finalised, overlap>>
  BY DEF TermSubmit, CheckpointsSame
<1>2. current \in Objects /\ objects[current] \in Entry
  BY <1>1 DEF TermTypes
<1>3. /\ r \in Entry /\ r.making = objects[current].making
      /\ r.checkpoint = objects[current].checkpoint /\ r.previous = objects[current].previous
  BY <1>2 DEF Entry
<1> HIDE DEF r
<1>4. EntriesKeep' /\ objects' \in [Objects -> Entry]
  BY <1>1, <1>2, <1>3, EntryTouched
<1>5. TermTypes'
  BY <1>1, <1>4 DEF TermTypes
<1> QED
  BY <1>1, <1>4, <1>5 DEF StubStays, TermOneLive, TermKeeps

\* A checkpoint is made: the entry that asked for it knows it, and the one before it is
\* finalised.
LEMMA CheckpointMadeInv == ASSUME TermInv, NEW o \in Objects, TermCheckpointMade(o) PROVE TermInv'
<1> USE DEF TermInv
<1> DEFINE r == [objects[o] EXCEPT !.making = FALSE, !.previous = 0, !.checkpoint = Len(made) + 1]
           os == [objects EXCEPT ![o] = r]
           f == finalised \cup ({objects[o].previous} \ {0})
           m == Append(made, o)
           n == Len(made)
<1>1. /\ objects[o].making /\ made' = m /\ finalised' = f /\ objects' = Goes(os)
      /\ UNCHANGED <<creation, initialising, pty, instance, current, registered, closing, overlap>>
  BY DEF TermCheckpointMade, BoundsSame
<1>2. /\ objects \in [Objects -> Entry] /\ objects[o] \in Entry /\ made \in Seq(Objects) /\ n \in Nat
      /\ current \in Objects \cup {Nobody}
  BY LenProperties DEF TermTypes
<1>3. m \in Seq(Objects) /\ Len(m) = n + 1 /\ m[n + 1] = o /\ \A c \in 1..n : m[c] = made[c]
  BY <1>2
<1> HIDE DEF m
<1>5. r \in Entry /\ ~r.making /\ r.checkpoint = n + 1 /\ r.previous = 0
  <2>1. n + 1 \in Nat /\ 0 \in Nat
    <3> HIDE DEF n
    <3> QED BY <1>2
  <2> QED
    BY <1>2, <2>1 DEF Entry
<1> HIDE DEF r
<1>6. \A x \in Objects : EntryKeeps(objects[x], x, made, finalised)
  BY DEF EntriesKeep
<1>7. ASSUME NEW x \in Objects PROVE EntryKeeps(os[x], x, m, f)
  <2>1. CASE x = o
    <3>1. os[x] = r
      BY <1>2, <2>1
    <3>2. ASSUME NEW c \in 1..Len(m), m[c] = o PROVE Kept(r, c, f)
      <4>1. CASE c = n + 1
        BY <1>5, <4>1 DEF Kept
      <4>2. CASE c # n + 1
        <5> HIDE DEF n
        <5>1. c \in 1..n /\ c # 0
          BY <1>2, <1>3, <4>2
        <5>2. Kept(objects[o], c, finalised) /\ objects[o].checkpoint = 0
          BY <1>1, <1>3, <1>6, <3>2, <5>1 DEF EntryKeeps, n
        <5>3. c \in f
          BY <5>1, <5>2 DEF Kept
        <5> QED
          BY <5>3 DEF Kept
      <4> QED
        BY <4>1, <4>2
    <3>3. r.checkpoint <= Len(m) /\ r.previous <= Len(m)
      <4> HIDE DEF n
      <4> QED BY <1>2, <1>3, <1>5
    <3> QED
      BY <1>5, <2>1, <3>1, <3>2, <3>3 DEF EntryKeeps
  <2>2. CASE x # o
    <3>1. os[x] = objects[x] /\ objects[x] \in Entry
      BY <1>2, <2>2
    <3>2. ASSUME NEW c \in 1..Len(m), m[c] = x PROVE Kept(objects[x], c, f)
      <4> HIDE DEF n
      <4>1. c \in 1..n /\ made[c] = x
        BY <1>2, <1>3, <2>2, <3>2
      <4>2. Kept(objects[x], c, finalised)
        BY <1>6, <4>1 DEF EntryKeeps, n
      <4> QED
        BY <4>2 DEF Kept
    <3>3. objects[x].checkpoint <= n /\ objects[x].previous <= n
      BY <1>6 DEF EntryKeeps
    <3>4. objects[x].checkpoint <= Len(m) /\ objects[x].previous <= Len(m)
      <4>1. objects[x].checkpoint \in Nat /\ objects[x].previous \in Nat
        BY <3>1 DEF Entry
      <4> HIDE DEF n
      <4> QED
        BY <1>2, <1>3, <3>3, <4>1
    <3>5. objects[x].making => objects[x].checkpoint = 0
      BY <1>6 DEF EntryKeeps
    <3> QED
      BY <3>1, <3>2, <3>4, <3>5 DEF EntryKeeps
  <2> QED
    BY <2>1, <2>2
<1>8. os \in [Objects -> Entry]
  BY <1>2, <1>5
<1> HIDE DEF os
<1>9. objects' \in [Objects -> Entry] /\ \A x \in Objects : EntryKeeps(objects'[x], x, made', finalised')
  <2> HIDE DEF f
  <2> QED
    BY <1>1, <1>2, <1>3, <1>7, <1>8, GoesProperties
<1>10. finalised' \subseteq 1..Len(made') /\ closing'.checkpoint \in 0..Len(made')
  <2>1. objects[o].previous \in Nat /\ objects[o].previous <= n
    BY <1>2, <1>6 DEF EntryKeeps, Entry
  <2>2. finalised \subseteq 1..n /\ closing.checkpoint \in 0..n
    BY DEF EntriesKeep
  <2>3. Len(made') = n + 1 /\ closing' = closing
    BY <1>1, <1>3
  <2> HIDE DEF n
  <2>4. f \subseteq 1..(n + 1)
    <3> DEFINE p == objects[o].previous
    <3>1. p \in Nat /\ p <= n
      BY <2>1
    <3> HIDE DEF p
    <3>2. {p} \ {0} \subseteq 1..(n + 1)
      BY <1>2, <3>1
    <3>3. finalised \subseteq 1..(n + 1)
      BY <1>2, <2>2
    <3> QED
      BY <3>2, <3>3 DEF p
  <2>5. closing.checkpoint \in 0..(n + 1)
    BY <1>2, <2>2
  <2> QED
    BY <1>1, <2>3, <2>4, <2>5
<1>11. EntriesKeep'
  BY <1>9, <1>10 DEF EntriesKeep
<1>12. TermTypes'
  BY <1>1, <1>3, <1>9 DEF TermTypes
<1> QED
  BY <1>1, <1>11, <1>12 DEF StubStays, TermOneLive, TermKeeps

\* It fails: the entry has its last checkpoint back, finalised or not.
LEMMA CheckpointFailsInv == ASSUME TermInv, NEW o \in Objects, TermCheckpointFails(o) PROVE TermInv'
<1> USE DEF TermInv
<1> DEFINE r == [objects[o] EXCEPT !.making = FALSE, !.previous = 0, !.checkpoint = objects[o].previous]
           os == [objects EXCEPT ![o] = r]
           n == Len(made)
<1>1. /\ objects[o].making /\ objects' = Goes(os)
      /\ finalised' \in {finalised, finalised \cup ({objects[o].previous} \ {0})}
      /\ UNCHANGED <<creation, initialising, pty, instance, current, registered, closing, made, overlap>>
  BY DEF TermCheckpointFails, BoundsSame
<1>2. /\ objects \in [Objects -> Entry] /\ objects[o] \in Entry /\ n \in Nat
      /\ current \in Objects \cup {Nobody}
  BY LenProperties DEF TermTypes
<1>4. r \in Entry /\ ~r.making /\ r.checkpoint = objects[o].previous /\ r.previous = 0
  <2>1. objects[o].previous \in Nat /\ 0 \in Nat
    BY <1>2 DEF Entry
  <2> QED
    BY <1>2, <2>1 DEF Entry
<1> HIDE DEF r
<1>5. \A x \in Objects : EntryKeeps(objects[x], x, made, finalised)
  BY DEF EntriesKeep
<1>6. finalised \subseteq finalised'
  BY <1>1
<1>7. ASSUME NEW x \in Objects PROVE EntryKeeps(os[x], x, made, finalised')
  <2>1. CASE x = o
    <3>1. os[x] = r
      BY <1>2, <2>1
    <3>2. ASSUME NEW c \in 1..n, made[c] = o PROVE Kept(r, c, finalised')
      <4>1. Kept(objects[o], c, finalised) /\ objects[o].checkpoint = 0
        BY <1>1, <1>5, <3>2 DEF EntryKeeps
      <4>2. c # 0
        BY <1>2
      <4> QED
        BY <1>4, <1>6, <4>1, <4>2 DEF Kept
    <3>3. r.checkpoint <= n /\ r.previous <= n
      <4>1. objects[o].previous <= n
        BY <1>5 DEF EntryKeeps
      <4> HIDE DEF n
      <4> QED BY <1>2, <1>4, <4>1
    <3> QED
      BY <1>4, <2>1, <3>1, <3>2, <3>3 DEF EntryKeeps
  <2>2. CASE x # o
    <3>1. os[x] = objects[x]
      BY <1>2, <2>2
    <3> QED
      BY <1>5, <1>6, <3>1 DEF EntryKeeps, Kept
  <2> QED
    BY <2>1, <2>2
<1>8. os \in [Objects -> Entry]
  BY <1>2, <1>4
<1> HIDE DEF os
<1>9. objects' \in [Objects -> Entry] /\ \A x \in Objects : EntryKeeps(objects'[x], x, made, finalised')
  BY <1>1, <1>2, <1>7, <1>8, GoesProperties DEF TermTypes
<1>10. finalised' \subseteq 1..n
  <2>1. objects[o].previous \in Nat /\ objects[o].previous <= n
    BY <1>2, <1>5 DEF EntryKeeps, Entry
  <2>2. finalised \subseteq 1..n
    BY DEF EntriesKeep
  <2> HIDE DEF n
  <2> QED
    BY <1>1, <1>2, <2>1, <2>2
<1>11. EntriesKeep'
  BY <1>1, <1>9, <1>10 DEF EntriesKeep
<1>12. TermTypes'
  BY <1>1, <1>9 DEF TermTypes
<1> QED
  BY <1>1, <1>11, <1>12 DEF StubStays, TermOneLive, TermKeeps

LEMMA TermNextInv == TermInv /\ [TermNext]_termVars => TermInv'
<1> SUFFICES ASSUME TermInv, [TermNext]_termVars PROVE TermInv'
  OBVIOUS
<1>1. CASE UNCHANGED termVars
  <2>1. UNCHANGED <<creation, initialising, pty, instance, current, objects, registered, made, finalised, closing, overlap>>
    BY <1>1 DEF termVars
  <2> QED
    BY <2>1 DEF TermInv, TermTypes, EntriesKeep, StubStays, TermOneLive, TermKeeps
<1> QED
  BY <1>1, TermCreateInv, TermSpawnInv, TermFailsInv, PtyEndsInv, PtyExitInv, TermInitialisedInv,
     TermKillInv, TermWindowInv, TermClearedInv, TermSubmitInv, CheckpointMadeInv,
     CheckpointFailsInv DEF TermNext

\* The invariant says what a terminal may rely on.
LEMMA TermInvSafe == TermInv => TermSafe
<1> SUFFICES ASSUME TermInv PROVE TermSafe
  OBVIOUS
<1> USE DEF TermInv
<1>1. TermTypeOK
  BY TermAssumption DEF TermTypes, TermTypeOK, Ptys, EntriesKeep
<1>2. ASSUME NEW c \in 1..Len(made), made[c] = current
      PROVE \/ c \in finalised \/ c = objects[current].checkpoint
            \/ objects[current].making /\ c = objects[current].previous
  <2>1. current \in Objects
    BY <1>2 DEF TermTypes
  <2> QED
    BY <1>2, <2>1 DEF EntriesKeep, EntryKeeps, Kept
<1> QED
  BY <1>1, <1>2 DEF TermSafe, TermCheckpointsKept

\* For any number of creations, ends of processes, closings of the window and prompts of
\* an id: the pty that runs is the one the manager has, a late end does not tear down its
\* successor, and no checkpoint of it is lost (ipc/terminal-handlers.ts, terminal/manager.ts).
THEOREM TermAlwaysSafe == TermSpec => []TermSafe
<1>1. TermInit => TermInv
  BY TermInitInv
<1>2. TermInv /\ [TermNext]_termVars => TermInv'
  BY TermNextInv
<1>3. TermInv => TermSafe
  BY TermInvSafe
<1> QED
  BY <1>1, <1>2, <1>3, PTL DEF TermSpec
-----------------------------------------------------------------------------
(***************************************************************************)
(* The changes of each turn: what a turn is shown is what it changed.      *)
(***************************************************************************)

Snapshots == Nat \cup {NoSnapshot}
Diff == [turn : Nat, from : Snapshots, to : Snapshots]

TrackTyped ==
  /\ work \in Nat /\ registers \in 0..MaxRegisters
  /\ tracked \in BOOLEAN /\ turnOpen \in BOOLEAN
  /\ (turnOpen => tracked) /\ (tracked => registers \in Regs)
  /\ baseline \in [Regs -> Snapshots] /\ turnCount \in [Regs -> Nat]
  /\ line \in [Regs -> Seq(Nat)] /\ published \in [Regs -> Seq(Diff)]
  /\ capturing \in [Regs -> [on : BOOLEAN, first : BOOLEAN]]

\* The first capture comes before all turns, and that of a turn is of one that waits.
OneCapture ==
  \A r \in Regs :
    /\ capturing[r].first => capturing[r].on /\ published[r] = <<>>
    /\ capturing[r].on /\ ~capturing[r].first => line[r] # <<>>

\* Registrations to come.
Untouched ==
  \A r \in Regs : r > registers =>
    line[r] = <<>> /\ published[r] = <<>> /\ turnCount[r] = 0 /\ capturing[r] = NoCapture

\* The turns that wait follow those that were published, as long as the id is theirs.
Numbered ==
  \A r \in Regs : Mine(r) =>
    /\ turnCount[r] = Len(published[r]) + Len(line[r])
    /\ \A i \in 1..Len(line[r]) : line[r][i] = Len(published[r]) + i

\* The next turn is compared with what the last one was shown to have left.
FromLast ==
  \A r \in Regs : published[r] # <<>> => baseline[r] = published[r][Len(published[r])].to

TrackInv == TrackTyped /\ OneCapture /\ Untouched /\ Numbered /\ FromLast /\ TurnDiffsFollow
-----------------------------------------------------------------------------
\* What is appended comes last, and the rest stays where it is.
LEMMA Appended ==
  ASSUME NEW S, NEW s \in Seq(S), NEW e \in S
  PROVE /\ Append(s, e) \in Seq(S) /\ Append(s, e) # <<>>
        /\ Len(s) \in Nat /\ Len(Append(s, e)) = Len(s) + 1
        /\ \A i \in 1..Len(s) : Append(s, e)[i] = s[i]
        /\ Append(s, e)[Len(s) + 1] = e
<1>1. Len(s) \in Nat /\ Append(s, e) \in Seq(S) /\ Len(Append(s, e)) = Len(s) + 1
  BY LenProperties
<1>2. Append(s, e) # <<>>
  BY <1>1, EmptySeq
<1>3. \A i \in 1..Len(s) : Append(s, e)[i] = s[i]
  BY <1>1
<1>4. Append(s, e)[Len(s) + 1] = e
  BY <1>1
<1> QED
  BY <1>1, <1>2, <1>3, <1>4

LEMMA TrackInvInit == TrackInit => TrackInv
<1> SUFFICES ASSUME TrackInit PROVE TrackInv
  OBVIOUS
<1> USE TurnAssumption DEF TrackInit
<1>1. TrackTyped
  <2>1. <<>> \in Seq(Nat) /\ <<>> \in Seq(Diff) /\ NoSnapshot \in Snapshots
    BY EmptySeq DEF Snapshots
  <2>2. NoCapture \in [on : BOOLEAN, first : BOOLEAN]
    BY DEF NoCapture
  <2>3. published \in [Regs -> Seq(Diff)] /\ line \in [Regs -> Seq(Nat)]
    BY <2>1
  <2>4. capturing \in [Regs -> [on : BOOLEAN, first : BOOLEAN]] /\ baseline \in [Regs -> Snapshots]
    BY <2>1, <2>2
  <2>5. /\ work \in Nat /\ registers \in 0..MaxRegisters /\ tracked = FALSE /\ turnOpen = FALSE
        /\ turnCount \in [Regs -> Nat]
    OBVIOUS
  <2> QED
    BY <2>3, <2>4, <2>5 DEF TrackTyped
<1>2. OneCapture /\ Untouched /\ FromLast
  BY DEF OneCapture, Untouched, FromLast, NoCapture
<1>3. Numbered /\ TurnDiffsFollow
  BY DEF Numbered, TurnDiffsFollow, Mine
<1> QED
  BY <1>1, <1>2, <1>3 DEF TrackInv

LEMMA RegsAreNumbers == ASSUME NEW r \in Regs PROVE r \in Nat
BY TurnAssumption DEF Regs

LEMMA TrackWorkStep == ASSUME TrackInv, TrackWork PROVE TrackInv'
BY DEF TrackInv, TrackWork, TrackTyped, OneCapture, Untouched, Numbered, FromLast, TurnDiffsFollow, Mine

LEMMA TrackUnregisterStep == ASSUME TrackInv, TrackUnregister PROVE TrackInv'
<1>1. /\ tracked' = FALSE /\ turnOpen' = FALSE
      /\ UNCHANGED <<work, registers, baseline, turnCount, line, capturing, published, turns>>
  BY DEF TrackUnregister
<1>2. TrackTyped' /\ OneCapture' /\ Untouched'
  BY <1>1 DEF TrackInv, TrackTyped, OneCapture, Untouched
<1>3. Numbered'
  BY <1>1 DEF Numbered, Mine
<1>4. FromLast' /\ TurnDiffsFollow'
  BY <1>1 DEF TrackInv, FromLast, TurnDiffsFollow
<1> QED
  BY <1>2, <1>3, <1>4 DEF TrackInv

LEMMA TrackStartStep == ASSUME TrackInv, TrackStart PROVE TrackInv'
BY DEF TrackInv, TrackStart, TrackTyped, OneCapture, Untouched, Numbered, FromLast,
       TurnDiffsFollow, Mine

\* A new registration begins with nothing.
LEMMA TrackRegisterStep == ASSUME TrackInv, TrackRegister PROVE TrackInv'
<1> DEFINE n == registers + 1
<1>1. /\ n \in Regs /\ n > registers /\ registers \in Nat /\ registers' = n
  BY TurnAssumption DEF TrackRegister, TrackInv, TrackTyped, Regs
<1>2. /\ tracked' = TRUE /\ turnOpen' = FALSE
      /\ capturing' = [capturing EXCEPT ![n] = [on |-> TRUE, first |-> TRUE]]
      /\ UNCHANGED <<work, baseline, turnCount, line, published, turns>>
  BY DEF TrackRegister
<1>3. /\ line[n] = <<>> /\ published[n] = <<>> /\ turnCount[n] = 0
  BY <1>1 DEF TrackInv, Untouched
<1>4. /\ capturing' \in [Regs -> [on : BOOLEAN, first : BOOLEAN]]
      /\ capturing'[n] = [on |-> TRUE, first |-> TRUE]
      /\ \A r \in Regs : r # n => capturing'[r] = capturing[r]
  BY <1>1, <1>2 DEF TrackInv, TrackTyped
<1> HIDE DEF n
<1>5. TrackTyped'
  <2>1. n \in 0..MaxRegisters
    BY <1>1, TurnAssumption DEF Regs
  <2> QED
    BY <1>1, <1>2, <1>4, <2>1 DEF TrackInv, TrackTyped
<1>6. OneCapture'
  BY <1>2, <1>3, <1>4 DEF TrackInv, OneCapture
<1>7. Untouched'
  BY <1>1, <1>2, <1>4, RegsAreNumbers DEF TrackInv, Untouched, n
<1>8. Numbered'
  <2>1. Len(<<>>) = 0 /\ \A r \in Regs : Mine(r)' => r = n
    BY <1>1 DEF Mine
  <2>2. turnCount'[n] = Len(published'[n]) + Len(line'[n]) /\ 1..Len(line'[n]) = {}
    BY <1>2, <1>3, <2>1
  <2> QED
    BY <2>1, <2>2 DEF Numbered
<1>9. FromLast' /\ TurnDiffsFollow'
  BY <1>2 DEF TrackInv, FromLast, TurnDiffsFollow
<1> QED
  BY <1>5, <1>6, <1>7, <1>8, <1>9 DEF TrackInv

LEMMA TrackFinishStep == ASSUME TrackInv, TrackFinish PROVE TrackInv'
<1> DEFINE n == registers
           turn == turnCount[n] + 1
<1>1. /\ n \in Regs /\ turnOpen' = FALSE /\ Mine(n)
      /\ turnCount' = [turnCount EXCEPT ![n] = turn]
      /\ line' = [line EXCEPT ![n] = Append(line[n], turn)]
      /\ UNCHANGED <<work, registers, tracked, baseline, capturing, published, turns>>
  BY DEF TrackFinish, TrackInv, TrackTyped, Mine
<1>2. /\ turnCount[n] \in Nat /\ line[n] \in Seq(Nat) /\ turn \in Nat /\ published[n] \in Seq(Diff)
  BY <1>1 DEF TrackInv, TrackTyped
<1> DEFINE l == Append(line[n], turn)
<1>3. /\ l \in Seq(Nat) /\ Len(l) = Len(line[n]) + 1 /\ l # <<>>
      /\ \A i \in 1..Len(line[n]) : l[i] = line[n][i]
      /\ l[Len(line[n]) + 1] = turn /\ Len(line[n]) \in Nat /\ Len(published[n]) \in Nat
  BY <1>2, Appended, LenProperties
<1>4. turnCount[n] = Len(published[n]) + Len(line[n])
  BY <1>1 DEF TrackInv, Numbered
<1> HIDE DEF l, turn
<1>5. /\ turnCount' \in [Regs -> Nat] /\ line' \in [Regs -> Seq(Nat)]
      /\ turnCount'[n] = turn /\ line'[n] = l
      /\ \A r \in Regs : r # n => turnCount'[r] = turnCount[r] /\ line'[r] = line[r]
  BY <1>1, <1>2, <1>3 DEF TrackInv, TrackTyped, l
<1>6. TrackTyped'
  BY <1>1, <1>5 DEF TrackInv, TrackTyped
<1>7. OneCapture' /\ FromLast' /\ TurnDiffsFollow'
  BY <1>1, <1>3, <1>5 DEF TrackInv, OneCapture, FromLast, TurnDiffsFollow
<1>8. Untouched'
  BY <1>1, <1>5, RegsAreNumbers DEF TrackInv, Untouched
<1>9. Numbered'
  <2> SUFFICES ASSUME NEW r \in Regs, Mine(r)
               PROVE /\ turnCount'[r] = Len(published[r]) + Len(line'[r])
                     /\ \A i \in 1..Len(line'[r]) : line'[r][i] = Len(published[r]) + i
    BY <1>1 DEF Numbered, Mine
  <2>1. r = n
    BY DEF Mine
  <2>2. turn = Len(published[n]) + Len(l)
    <3> DEFINE out == Len(published[n])
               waiting == Len(line[n])
    <3>1. /\ Len(l) = waiting + 1 /\ waiting \in Nat /\ out \in Nat
          /\ turnCount[n] = out + waiting
      BY <1>3, <1>4
    <3> HIDE DEF out, waiting
    <3>2. turn = out + Len(l)
      BY <3>1 DEF turn
    <3> QED
      BY <3>2 DEF out
  <2>3. ASSUME NEW i \in 1..Len(l) PROVE l[i] = Len(published[n]) + i
    <3>1. CASE i = Len(line[n]) + 1
      BY <1>3, <2>2, <3>1
    <3>2. CASE i # Len(line[n]) + 1
      <4>1. i \in 1..Len(line[n])
        BY <1>2, <1>3, <3>2
      <4> QED
        BY <1>1, <1>3, <4>1 DEF TrackInv, Numbered
    <3> QED
      BY <3>1, <3>2
  <2> QED
    BY <1>5, <2>1, <2>2, <2>3
<1> QED
  BY <1>6, <1>7, <1>8, <1>9 DEF TrackInv

\* Turns are only dropped from a line whose registration has lost the id.
LEMMA TrackBeginsStep == ASSUME TrackInv, NEW r \in Regs, TrackBegins(r) PROVE TrackInv'
<1>1. line[r] # <<>> /\ ~capturing[r].on /\ line[r] \in Seq(Nat)
  BY DEF TrackBegins, TrackInv, TrackTyped
<1>2. UNCHANGED <<work, registers, tracked, baseline, turnOpen, turnCount, published, turns>>
  BY DEF TrackBegins
<1>3. ~(r > registers)
  BY <1>1 DEF TrackInv, Untouched
<1>4. CASE Mine(r)
  <2>1. /\ capturing' = [capturing EXCEPT ![r] = [on |-> TRUE, first |-> FALSE]] /\ UNCHANGED line
    BY <1>4 DEF TrackBegins
  <2>2. /\ capturing' \in [Regs -> [on : BOOLEAN, first : BOOLEAN]]
        /\ capturing'[r] = [on |-> TRUE, first |-> FALSE]
        /\ \A q \in Regs : q # r => capturing'[q] = capturing[q]
    BY <2>1 DEF TrackInv, TrackTyped
  <2>3. TrackTyped'
    BY <1>2, <2>1, <2>2 DEF TrackInv, TrackTyped
  <2>4. OneCapture'
    BY <1>1, <1>2, <2>1, <2>2 DEF TrackInv, OneCapture
  <2>5. Untouched'
    BY <1>2, <1>3, <2>1, <2>2 DEF TrackInv, Untouched
  <2>6. Numbered' /\ FromLast' /\ TurnDiffsFollow'
    BY <1>2, <2>1 DEF TrackInv, Numbered, FromLast, TurnDiffsFollow, Mine
  <2> QED
    BY <2>3, <2>4, <2>5, <2>6 DEF TrackInv
<1>5. CASE ~Mine(r)
  <2>1. line' = [line EXCEPT ![r] = Tail(@)] /\ UNCHANGED capturing
    BY <1>5 DEF TrackBegins
  <2>2. /\ line' \in [Regs -> Seq(Nat)]
        /\ \A q \in Regs : q # r => line'[q] = line[q]
    BY <1>1, <2>1 DEF TrackInv, TrackTyped
  <2>3. TrackTyped'
    BY <1>2, <2>1, <2>2 DEF TrackInv, TrackTyped
  <2>4. OneCapture'
    BY <1>1, <1>2, <2>1, <2>2 DEF TrackInv, OneCapture
  <2>5. Untouched'
    BY <1>2, <1>3, <2>1, <2>2 DEF TrackInv, Untouched
  <2>6. FromLast' /\ TurnDiffsFollow'
    BY <1>2 DEF TrackInv, FromLast, TurnDiffsFollow
  <2>7. Numbered'
    <3>1. \A q \in Regs : Mine(q)' => Mine(q) /\ q # r
      BY <1>2, <1>5 DEF Mine
    <3> QED
      BY <1>2, <2>2, <3>1 DEF TrackInv, Numbered
  <2> QED
    BY <2>3, <2>4, <2>5, <2>6, <2>7 DEF TrackInv
<1> QED
  BY <1>4, <1>5

LEMMA TrackFirstStep == ASSUME TrackInv, NEW r \in Regs, TrackFirst(r) PROVE TrackInv'
<1>1. /\ capturing[r].first /\ published[r] = <<>>
      /\ UNCHANGED <<work, registers, tracked, turnOpen, turnCount, line, published, turns>>
  BY DEF TrackFirst, TrackInv, OneCapture
<1>2. ~(r > registers)
  BY <1>1 DEF TrackInv, Untouched, NoCapture
<1>3. /\ baseline' \in [Regs -> Snapshots]
      /\ \A q \in Regs : q # r => baseline'[q] = baseline[q]
  BY DEF TrackFirst, TrackInv, TrackTyped, Snapshots
<1>4. /\ capturing' \in [Regs -> [on : BOOLEAN, first : BOOLEAN]]
      /\ capturing'[r] = NoCapture /\ ~NoCapture.on /\ ~NoCapture.first
      /\ \A q \in Regs : q # r => capturing'[q] = capturing[q]
  BY DEF TrackFirst, TrackInv, TrackTyped, NoCapture
<1>5. TrackTyped'
  BY <1>1, <1>3, <1>4 DEF TrackInv, TrackTyped
<1>6. OneCapture'
  BY <1>1, <1>4 DEF TrackInv, OneCapture
<1>7. Untouched'
  BY <1>1, <1>2, <1>4 DEF TrackInv, Untouched
<1>8. Numbered' /\ TurnDiffsFollow'
  BY ZenonT(30), <1>1 DEF TrackInv, Numbered, TurnDiffsFollow, Mine
<1>9. FromLast'
  BY <1>1, <1>3 DEF TrackInv, FromLast
<1> QED
  BY <1>5, <1>6, <1>7, <1>8, <1>9 DEF TrackInv

\* The end of a capture: the turn is published by its own terminal, in its place.
LEMMA CaptureOverStep ==
  ASSUME TrackInv, NEW r \in Regs, CaptureOver(r), NEW to \in Snapshots,
         IF Mine(r) THEN Publish(r, to) /\ baseline' = [baseline EXCEPT ![r] = to]
         ELSE UNCHANGED <<published, baseline>>
  PROVE TrackInv'
<1>1. /\ line[r] # <<>> /\ line[r] \in Seq(Nat) /\ published[r] \in Seq(Diff) /\ baseline[r] \in Snapshots
      /\ UNCHANGED <<work, registers, tracked, turnOpen, turnCount, turns>>
      /\ line' = [line EXCEPT ![r] = Tail(line[r])] /\ capturing' = [capturing EXCEPT ![r] = NoCapture]
  BY DEF CaptureOver, TrackInv, TrackTyped, OneCapture
<1>2. ~(r > registers)
  BY <1>1 DEF TrackInv, Untouched
<1>3. /\ capturing' \in [Regs -> [on : BOOLEAN, first : BOOLEAN]]
      /\ capturing'[r] = NoCapture /\ ~NoCapture.on /\ ~NoCapture.first
      /\ \A q \in Regs : q # r => capturing'[q] = capturing[q]
  BY <1>1 DEF TrackInv, TrackTyped, NoCapture
<1>4. /\ Tail(line[r]) \in Seq(Nat) /\ Len(line[r]) \in Nat \ {0} /\ Len(Tail(line[r])) = Len(line[r]) - 1
      /\ Len(published[r]) \in Nat /\ Head(line[r]) = line[r][1] /\ Head(line[r]) \in Nat
      /\ \A i \in 1..Len(Tail(line[r])) : Tail(line[r])[i] = line[r][i + 1]
  BY <1>1, HeadTailProperties, EmptySeq, LenProperties
<1>5. /\ line' \in [Regs -> Seq(Nat)] /\ line'[r] = Tail(line[r])
      /\ \A q \in Regs : q # r => line'[q] = line[q]
  BY <1>1, <1>4 DEF TrackInv, TrackTyped
<1>6. CASE ~Mine(r)
  <2>1. UNCHANGED <<published, baseline>>
    BY <1>6
  <2>2. TrackTyped'
    BY <1>1, <1>3, <1>5, <2>1 DEF TrackInv, TrackTyped
  <2>3. OneCapture'
    BY <1>3, <1>5, <2>1 DEF TrackInv, OneCapture
  <2>4. Untouched'
    BY <1>1, <1>2, <1>3, <1>5, <2>1 DEF TrackInv, Untouched
  <2>5. Numbered'
    BY <1>1, <1>5, <1>6, <2>1 DEF TrackInv, Numbered, Mine
  <2>6. FromLast' /\ TurnDiffsFollow'
    BY <2>1 DEF TrackInv, FromLast, TurnDiffsFollow
  <2> QED
    BY <2>2, <2>3, <2>4, <2>5, <2>6 DEF TrackInv
<1>7. CASE Mine(r)
  <2> DEFINE d == [turn |-> Head(line[r]), from |-> baseline[r], to |-> to]
             p == Append(published[r], d)
  <2>1. d \in Diff /\ d.turn = Head(line[r]) /\ d.from = baseline[r] /\ d.to = to
    BY <1>1, <1>4 DEF Diff
  <2>2. published' = [published EXCEPT ![r] = p] /\ baseline' = [baseline EXCEPT ![r] = to]
    BY <1>7 DEF Publish
  <2> HIDE DEF d
  <2>3. /\ p \in Seq(Diff) /\ Len(p) = Len(published[r]) + 1 /\ p # <<>> /\ p[Len(p)] = d
        /\ \A i \in 1..Len(published[r]) : p[i] = published[r][i]
    BY <1>1, <2>1, Appended
  <2> HIDE DEF p
  <2>4. /\ published' \in [Regs -> Seq(Diff)] /\ baseline' \in [Regs -> Snapshots]
        /\ published'[r] = p /\ baseline'[r] = to
        /\ \A q \in Regs : q # r => published'[q] = published[q] /\ baseline'[q] = baseline[q]
    BY <2>2, <2>3 DEF TrackInv, TrackTyped
  <2>5. TrackTyped'
    BY <1>1, <1>3, <1>5, <2>4 DEF TrackInv, TrackTyped
  <2>6. OneCapture'
    BY <1>3, <1>5, <2>4 DEF TrackInv, OneCapture
  <2>7. Untouched'
    BY <1>1, <1>2, <1>3, <1>5, <2>4 DEF TrackInv, Untouched
  <2>8. Numbered'
    <3>1. /\ turnCount[r] = Len(published[r]) + Len(line[r])
          /\ \A i \in 1..Len(line[r]) : line[r][i] = Len(published[r]) + i
      BY <1>7 DEF TrackInv, Numbered
    <3>2. turnCount[r] = Len(p) + Len(Tail(line[r]))
      <4> DEFINE out == Len(published[r])
                 waiting == Len(line[r])
                 rest == Len(Tail(line[r]))
      <4>1. /\ Len(p) = out + 1 /\ rest = waiting - 1
            /\ waiting \in Nat \ {0} /\ out \in Nat /\ turnCount[r] = out + waiting
        BY <1>4, <2>3, <3>1
      <4> HIDE DEF out, waiting, rest
      <4>2. turnCount[r] = Len(p) + rest
        BY <4>1
      <4> QED
        BY <4>2 DEF rest
    <3>3. \A i \in 1..Len(Tail(line[r])) : Tail(line[r])[i] = Len(p) + i
      BY <1>1, <1>4, <2>3, <3>1
    <3>4. \A q \in Regs : Mine(q)' => q = r
      BY <1>1, <1>7 DEF Mine
    <3> QED
      BY <1>1, <1>5, <2>4, <3>2, <3>3, <3>4 DEF Numbered
  <2>9. FromLast'
    BY <2>1, <2>3, <2>4 DEF TrackInv, FromLast
  <2>10. TurnDiffsFollow'
    <3>1. ASSUME NEW i \in 1..Len(p) PROVE p[i].turn = i /\ (i > 1 => p[i].from = p[i - 1].to)
      <4>1. CASE i \in 1..Len(published[r])
        <5>1. p[i] = published[r][i] /\ (i > 1 => i - 1 \in 1..Len(published[r]))
          BY <1>1, <2>3, <4>1
        <5>2. published[r][i].turn = i /\ (i > 1 => published[r][i].from = published[r][i - 1].to)
          BY <4>1 DEF TrackInv, TurnDiffsFollow
        <5>3. i > 1 => p[i - 1] = published[r][i - 1]
          BY <2>3, <5>1
        <5> QED
          BY <5>1, <5>2, <5>3
      <4>2. CASE i = Len(published[r]) + 1
        <5>1. p[i] = d /\ d.turn = i
          <6>1. 1 \in 1..Len(line[r])
            BY <1>4
          <6>2. line[r][1] = Len(published[r]) + 1
            BY <1>7, <6>1 DEF TrackInv, Numbered
          <6> QED
            BY <1>4, <2>1, <2>3, <4>2, <6>2
        <5>2. ASSUME i > 1 PROVE baseline[r] = p[i - 1].to
          <6>1. i - 1 = Len(published[r]) /\ i - 1 \in 1..Len(published[r]) /\ published[r] # <<>>
            BY <1>1, <4>2, <5>2
          <6> QED
            BY <2>3, <6>1 DEF TrackInv, FromLast
        <5> QED
          BY <2>1, <5>1, <5>2
      <4> QED
        BY <1>1, <2>3, <4>1, <4>2
    <3> QED
      BY <2>4, <3>1 DEF TrackInv, TurnDiffsFollow
  <2> QED
    BY <2>5, <2>6, <2>7, <2>8, <2>9, <2>10 DEF TrackInv
<1> QED
  BY <1>6, <1>7

LEMMA TrackCaptureEndsStep ==
  ASSUME TrackInv, NEW r \in Regs, TrackCaptured(r) \/ TrackFails(r) PROVE TrackInv'
<1>1. work \in Snapshots /\ NoSnapshot \in Snapshots
  BY DEF TrackInv, TrackTyped, Snapshots
<1> QED
  BY <1>1, CaptureOverStep DEF TrackCaptured, TrackFails
-----------------------------------------------------------------------------
\* Every step keeps the invariant.
LEMMA TrackInvNext == TrackInv /\ [TrackNext]_trackVars => TrackInv'
<1> SUFFICES ASSUME TrackInv, [TrackNext]_trackVars PROVE TrackInv'
  OBVIOUS
<1>1. CASE UNCHANGED trackVars
  BY <1>1 DEF trackVars, TrackInv, TrackTyped, OneCapture, Untouched, Numbered, FromLast,
              TurnDiffsFollow, Mine
<1>2. CASE TrackNext
  BY <1>2, TrackWorkStep, TrackRegisterStep, TrackUnregisterStep, TrackStartStep, TrackFinishStep,
     TrackBeginsStep, TrackFirstStep, TrackCaptureEndsStep DEF TrackNext
<1> QED
  BY <1>1, <1>2

\* Only the terminal that owns the id publishes.
LEMMA TrackOwned ==
  TrackInv /\ [TrackNext]_trackVars => [\A r \in Regs : published'[r] # published[r] => Mine(r)]_trackVars
<1> SUFFICES ASSUME TrackInv, TrackNext, NEW q \in Regs, published'[q] # published[q] PROVE Mine(q)
  BY DEF trackVars
<1>1. PICK r \in Regs : (TrackCaptured(r) \/ TrackFails(r)) /\ Mine(r)
  BY DEF TrackNext, TrackWork, TrackRegister, TrackUnregister, TrackStart, TrackFinish, TrackBegins,
         TrackFirst, TrackCaptured, TrackFails
<1>2. \E to : Publish(r, to)
  BY <1>1 DEF TrackCaptured, TrackFails
<1>3. q = r
  BY <1>2 DEF Publish, TrackInv, TrackTyped
<1> QED
  BY <1>1, <1>3

LEMMA TrackInvTypes == TrackInv => TrackTypeOK /\ TurnDiffsFollow
BY DEF TrackInv, TrackTyped, OneCapture, Snapshots, TrackTypeOK

\* A turn is shown what it changed, all of it, nothing else, and in its own terminal,
\* whichever captures fail and whichever terminals come and go (turn-change-tracker.ts:50-69).
THEOREM TurnDiffsAlwaysTrue == TrackSpec => TurnDiffsTrue
<1> QED
  BY TrackInvInit, TrackInvNext, TrackOwned, TrackInvTypes, PTL DEF TrackSpec, TurnDiffsTrue, TurnDiffsOwned
-----------------------------------------------------------------------------
(***************************************************************************)
(* The account of a session counts nothing twice and leaves nothing out.   *)
(* The invariant, Account, says that what is booked is exactly what the row *)
(* of the session says it is, in the way of counting the row is locked to. *)
(***************************************************************************)

\* Before a cumulative account the events in `identities' are what is booked; of a
\* cumulative account it is the interval of the counter, while the account goes on.
Account ==
  /\ mode # "cumulative" => sourceEpoch = 0 /\ counters = 0 /\ since = 0
  /\ mode = "none" => sourceSize = 0
  /\ mode # "events" => \A k \in Units : identities[k] = 0
  /\ mode # "cumulative" => \A e \in Epochs, k \in Units : booked[<<e, k>>] = IF identities[k] = e THEN 1 ELSE 0
  /\ mode = "events" => \A k \in 1..sourceSize : identities[k] # 0
  /\ mode = "cumulative" => \A u \in Epochs \X Units : booked[u] <= 1
  /\ mode = "cumulative" /\ ~Paused =>
       /\ counters = sourceSize /\ (sourceEpoch = 0 => counters = 0)
       /\ \A e \in Epochs, k \in Units :
            booked[<<e, k>>] = IF e = sourceEpoch /\ since < k /\ k <= counters THEN 1 ELSE 0

UsageInv == UsageTypeOK /\ Account

\* What a reader may record.
Observations == [mode : {"events", "cumulative"}, now : 0..MaxClock, epoch : Epochs, n : 0..MaxUnits, sized : BOOLEAN]

\* Nothing is recorded before a row exists (usage-ledger.ts:84).
LEMMA UsageInitHolds == UsageInit => UsageInv
  BY UsageAssumption DEF UsageInit, UsageInv, UsageTypeOK, Account, Readers, NoReader, Units, Epochs, Paused

\* What the readers hand over is an observation made by now (history.ts:344-353,
\* corpus-scan.ts:194-223).
LEMMA Observed ==
  ASSUME UsageTypeOK
  PROVE  /\ Polled \in Observations /\ Polled.now <= clock
         /\ Scanned \in Observations /\ Scanned.now <= clock
  BY UsageAssumption DEF UsageTypeOK, Readers, Polled, Scanned, Observations, Epochs

\* Events: each that is new is booked with its identity (usage-ledger.ts:104-175).
LEMMA EventsKeep ==
  ASSUME UsageInv, NEW o \in Observations, o.now <= clock, ~Ignored(o), o.mode = "events",
         mode' = o.mode, updatedAt' = o.now, RecordEvents(o)
  PROVE  /\ mode' = "events" /\ issue' \in {"none", "event-changed"} /\ updatedAt' \in 0..clock
         /\ counters' = 0 /\ since' = 0 /\ sourceEpoch' = 0 /\ sourceSize' \in 0..MaxUnits
         /\ identities' \in [Units -> 0..MaxEpochs] /\ booked' \in [Epochs \X Units -> Nat]
         /\ \A e \in Epochs, k \in Units : booked'[<<e, k>>] = IF identities'[k] = e THEN 1 ELSE 0
         /\ \A k \in 1..sourceSize' : identities'[k] # 0
<1>1. mode # "cumulative" /\ mode \in {"none", "events"}
  BY DEF UsageInv, UsageTypeOK, Ignored, Locked
<1>2. o.epoch \in Epochs /\ o.n \in 0..MaxUnits /\ o.now \in Nat /\ Epochs \subseteq Nat \ {0} /\ Units \subseteq Nat
  BY UsageAssumption DEF Observations, Epochs, Units
<1>3. identities' \in [Units -> 0..MaxEpochs] /\ \A k \in Units : identities'[k] = IF k \in Fresh(o) THEN o.epoch ELSE identities[k]
  BY <1>2, UsageAssumption DEF RecordEvents, UsageInv, UsageTypeOK, Epochs
<1>4. \A u \in Epochs \X Units : booked'[u] = IF u[1] = o.epoch /\ u[2] \in Fresh(o) THEN booked[u] + 1 ELSE booked[u]
  BY DEF RecordEvents
<1>5. booked' \in [Epochs \X Units -> Nat]
  BY DEF RecordEvents, UsageInv, UsageTypeOK
<1>6. ASSUME NEW e \in Epochs, NEW k \in Units PROVE booked'[<<e, k>>] = IF identities'[k] = e THEN 1 ELSE 0
  <2>1. booked'[<<e, k>>] = IF e = o.epoch /\ k \in Fresh(o) THEN booked[<<e, k>>] + 1 ELSE booked[<<e, k>>]
    BY <1>4
  <2>2. booked[<<e, k>>] = IF identities[k] = e THEN 1 ELSE 0
    BY <1>1 DEF UsageInv, Account
  <2>3. k \in Fresh(o) => identities[k] = 0
    BY DEF Fresh
  <2> QED BY <2>1, <2>2, <2>3, <1>2, <1>3
<1>7. sourceSize' \in 0..MaxUnits /\ \A k \in 1..sourceSize' : identities'[k] # 0
  <2>1. sourceSize' = IF o.sized THEN o.n ELSE sourceSize
    BY DEF RecordEvents
  <2>2. \A k \in 1..sourceSize : identities[k] # 0
    BY <1>1 DEF UsageInv, Account
  <2>3. \A k \in 1..o.n : k \in Fresh(o) \/ identities[k] # 0
    BY DEF Fresh
  <2>4. sourceSize \in 0..MaxUnits
    BY DEF UsageInv, UsageTypeOK
  <2>5. CASE o.sized
    <3>1. sourceSize' = o.n /\ \A k \in 1..o.n : k \in Units
      BY <2>1, <2>5, <1>2, UsageAssumption DEF Units
    <3>2. o.epoch # 0
      BY <1>2
    <3> QED BY <3>1, <3>2, <2>3, <1>2, <1>3
  <2>6. CASE ~o.sized
    <3>1. sourceSize' = sourceSize /\ \A k \in 1..sourceSize : k \in Units
      BY <2>1, <2>4, <2>6, UsageAssumption DEF Units
    <3>2. o.epoch # 0
      BY <1>2
    <3> QED BY <3>1, <3>2, <2>2, <2>4, <1>3
  <2> QED BY <2>5, <2>6
<1>8. counters' = 0 /\ since' = 0 /\ sourceEpoch' = 0
  BY <1>1 DEF RecordEvents, UsageInv, Account
<1>9. mode' = "events" /\ issue' \in {"none", "event-changed"}
  BY DEF RecordEvents
<1>10. updatedAt' \in 0..clock
  BY <1>2, UsageAssumption DEF UsageInv, UsageTypeOK
<1> QED BY <1>3, <1>5, <1>6, <1>7, <1>8, <1>9, <1>10

\* A counter: the interval since the one before is booked, unless the file is not the one
\* that was read before (usage-ledger.ts:176-205).
LEMMA CounterKeeps ==
  ASSUME UsageInv, NEW o \in Observations, o.now <= clock, ~Ignored(o), o.mode = "cumulative",
         mode' = o.mode, updatedAt' = o.now, RecordCounter(o)
  PROVE  /\ mode' = "cumulative" /\ issue' \in {"none", "counter-source-changed"} /\ updatedAt' \in 0..clock
         /\ counters' \in 0..MaxUnits /\ since' \in 0..counters'
         /\ sourceSize' \in 0..MaxUnits /\ sourceEpoch' \in Epochs
         /\ identities' = identities /\ \A k \in Units : identities[k] = 0
         /\ booked' \in [Epochs \X Units -> Nat] /\ \A e \in Epochs, k \in Units : booked'[<<e, k>>] <= 1
         /\ issue' = "none" =>
              /\ counters' = sourceSize'
              /\ \A e \in Epochs, k \in Units :
                   booked'[<<e, k>>] = IF e = sourceEpoch' /\ since' < k /\ k <= counters' THEN 1 ELSE 0
<1>1. mode \in {"none", "cumulative"} /\ ~Paused
  BY DEF UsageInv, UsageTypeOK, Ignored, Locked
<1>2. o.epoch \in Epochs /\ o.n \in 0..MaxUnits /\ o.now \in Nat /\ Epochs \subseteq Nat \ {0} /\ Units \subseteq Nat
  BY UsageAssumption DEF Observations, Epochs, Units
<1>3. /\ counters \in 0..MaxUnits /\ since \in 0..counters /\ sourceEpoch \in Nat /\ clock \in Nat
      /\ booked \in [Epochs \X Units -> Nat]
  BY UsageAssumption DEF UsageInv, UsageTypeOK
<1>4. counters = sourceSize /\ (sourceEpoch = 0 => counters = 0) /\ \A k \in Units : identities[k] = 0
  BY <1>1 DEF UsageInv, Account
<1>5. \A e \in Epochs, k \in Units : booked[<<e, k>>] = IF e = sourceEpoch /\ since < k /\ k <= counters THEN 1 ELSE 0
  <2>1. CASE mode = "none"
    <3>1. sourceEpoch = 0 /\ \A e \in Epochs, k \in Units : booked[<<e, k>>] = IF identities[k] = e THEN 1 ELSE 0
      BY <2>1 DEF UsageInv, Account
    <3>2. ASSUME NEW e \in Epochs, NEW k \in Units PROVE booked[<<e, k>>] = 0 /\ e # sourceEpoch
      <4>1. identities[k] = 0 /\ e # 0
        BY <1>2, <1>4
      <4>2. booked[<<e, k>>] = IF identities[k] = e THEN 1 ELSE 0
        BY <3>1
      <4> QED BY <4>1, <4>2, <3>1
    <3> QED BY <3>2
  <2>2. CASE mode = "cumulative"
    BY <1>1, <2>2 DEF UsageInv, Account
  <2> QED BY <1>1, <2>1, <2>2
<1>6. sourceSize' = o.n /\ sourceEpoch' = o.epoch /\ identities' = identities
  BY DEF RecordCounter
<1>7. CASE Rewritten(o)
  <2>1. issue' = "counter-source-changed" /\ counters' = counters /\ since' = since /\ booked' = booked
    BY <1>7 DEF RecordCounter
  <2>2. ASSUME NEW e \in Epochs, NEW k \in Units PROVE booked[<<e, k>>] <= 1
    <3>1. booked[<<e, k>>] = IF e = sourceEpoch /\ since < k /\ k <= counters THEN 1 ELSE 0
      BY <1>5
    <3>2. booked[<<e, k>>] \in {0, 1}
      BY <3>1, Zenon
    <3> QED BY <3>2
  <2> QED BY <2>1, <2>2, <1>2, <1>3, <1>4, <1>6
<1>8. CASE ~Rewritten(o)
  <2>1. /\ issue' = "none" /\ counters' = o.n /\ since' = IF sourceEpoch = 0 THEN o.n ELSE since
        /\ booked' = [u \in Epochs \X Units |-> IF u[1] = o.epoch /\ u[2] \in Counted(o) THEN booked[u] + 1 ELSE booked[u]]
    BY <1>8 DEF RecordCounter
  <2>2. sourceEpoch = 0 \/ (o.epoch = sourceEpoch /\ counters <= o.n)
    BY <1>8, <1>2, <1>3, <1>4 DEF Rewritten
  <2>3. counters' \in 0..MaxUnits /\ since' \in 0..counters'
    BY <2>1, <2>2, <1>2, <1>3
  <2>4. booked' \in [Epochs \X Units -> Nat]
    BY <2>1, <1>3
  <2>5. ASSUME NEW e \in Epochs, NEW k \in Units
        PROVE  booked'[<<e, k>>] = IF e = sourceEpoch' /\ since' < k /\ k <= counters' THEN 1 ELSE 0
    <3>1. booked'[<<e, k>>] = IF e = o.epoch /\ k \in Counted(o) THEN booked[<<e, k>>] + 1 ELSE booked[<<e, k>>]
      BY <2>1
    <3>2. k \in Counted(o) <=> sourceEpoch # 0 /\ counters < k /\ k <= o.n
      BY <1>2, <1>3 DEF Counted, Units
    <3>3. booked[<<e, k>>] = IF e = sourceEpoch /\ since < k /\ k <= counters THEN 1 ELSE 0
      BY <1>5
    <3>4. CASE sourceEpoch = 0
      BY <3>1, <3>2, <3>3, <3>4, <2>1, <1>2
    <3>5. CASE sourceEpoch # 0
      <4>1. since' = since /\ counters' = o.n /\ sourceEpoch' = sourceEpoch /\ o.epoch = sourceEpoch /\ counters <= o.n
        BY <3>5, <2>1, <2>2, <1>6
      <4> QED BY <4>1, <3>1, <3>2, <3>3, <3>5, <1>2, <1>3
    <3> QED BY <3>4, <3>5
  <2>6. ASSUME NEW e \in Epochs, NEW k \in Units PROVE booked'[<<e, k>>] <= 1
    <3>1. booked'[<<e, k>>] = IF e = sourceEpoch' /\ since' < k /\ k <= counters' THEN 1 ELSE 0
      BY <2>5
    <3>2. booked'[<<e, k>>] \in {0, 1}
      BY <3>1, Zenon
    <3> QED BY <3>2
  <2>7. mode' = "cumulative" /\ updatedAt' \in 0..clock
    BY <1>2, UsageAssumption DEF UsageInv, UsageTypeOK
  <2> QED BY <2>1, <2>3, <2>4, <2>5, <2>6, <2>7, <1>2, <1>4, <1>6
<1> QED BY <1>7, <1>8

\* The type invariant in two parts: of the file and the readers, and of the row.
OutsideOK ==
  /\ engine \in {"codex", "claude"} /\ epoch \in Epochs /\ written \in 0..MaxUnits /\ clock \in 0..MaxClock
  /\ poll \in Readers /\ scan \in Readers /\ poll.now <= clock /\ scan.now <= clock
RowOK ==
  /\ mode \in {"none", "events", "cumulative"}
  /\ issue \in {"none", "unreadable", "source-unavailable", "counter-source-changed", "event-changed"}
  /\ counters \in 0..MaxUnits /\ since \in 0..counters /\ updatedAt \in 0..clock
  /\ sourceSize \in 0..MaxUnits /\ sourceEpoch \in 0..MaxEpochs
  /\ identities \in [Units -> 0..MaxEpochs] /\ booked \in [Epochs \X Units -> Nat]

LEMMA TypeParts == (UsageTypeOK <=> OutsideOK /\ RowOK) /\ (UsageTypeOK' <=> OutsideOK' /\ RowOK')
  BY DEF UsageTypeOK, OutsideOK, RowOK

\* What does not touch the row keeps what is said of it.
LEMMA RowFrame ==
  ASSUME UsageInv, UNCHANGED rowVars, clock' \in Nat, clock <= clock'
  PROVE  RowOK' /\ Account'
<1>1. RowOK /\ Account /\ clock \in Nat
  BY UsageAssumption DEF UsageInv, UsageTypeOK, RowOK
<1>2. RowOK'
  BY <1>1 DEF RowOK, rowVars
<1>3. Account'
  BY <1>1 DEF Account, Paused, rowVars
<1> QED BY <1>2, <1>3

\* An issue that does not pause the account, of a row that is not paused, changes nothing
\* of it (usage-ledger.ts:103, 242-245).
LEMMA IssueFrame ==
  ASSUME UsageInv, clock' = clock, ~Paused, mode # "none", issue' \in {"unreadable", "source-unavailable"}, mode' = mode,
         updatedAt' \in 0..clock, UNCHANGED <<counters, since, sourceSize, sourceEpoch, identities, booked>>
  PROVE  RowOK' /\ Account'
<1>1. RowOK /\ Account
  BY DEF UsageInv, UsageTypeOK, RowOK
<1>2. RowOK'
  BY <1>1 DEF RowOK
<1>3. Account'
  BY <1>1 DEF Account, Paused
<1> QED BY <1>2, <1>3

\* The first thing recorded of a session may be an issue (usage-ledger.ts:84, 103).
LEMMA FirstIssue ==
  ASSUME UsageInv, clock' = clock, mode = "none", mode' \in {"events", "cumulative"}, issue' = "unreadable",
         updatedAt' \in 0..clock, UNCHANGED <<counters, since, sourceSize, sourceEpoch, identities, booked>>
  PROVE  RowOK' /\ Account'
<1>1. RowOK /\ Account
  BY DEF UsageInv, UsageTypeOK, RowOK
<1>2. /\ sourceEpoch = 0 /\ counters = 0 /\ since = 0 /\ sourceSize = 0 /\ \A k \in Units : identities[k] = 0
      /\ \A e \in Epochs, k \in Units : booked[<<e, k>>] = IF identities[k] = e THEN 1 ELSE 0
  BY <1>1 DEF Account
<1>3. \A e \in Epochs : e # 0
  BY DEF Epochs
<1>4. \A e \in Epochs, k \in Units : booked[<<e, k>>] = 0
  BY <1>2, <1>3
<1>5. \A u \in Epochs \X Units : booked[u] = 0
  BY <1>4
<1>6. RowOK'
  BY <1>1 DEF RowOK
<1>7. Account'
  BY <1>2, <1>3, <1>4, <1>5 DEF Account, Paused
<1> QED BY <1>6, <1>7

\* record keeps the account, of events, of a counter, or of an issue (usage-ledger.ts:75-214).
LEMMA RecordKeeps ==
  ASSUME UsageInv, clock' = clock, NEW o \in Observations, o.now <= clock, Record(o) \/ RecordIssue(o)
  PROVE  RowOK' /\ Account'
<1>1. CASE Ignored(o)
  BY <1>1, RowFrame, UsageAssumption DEF Record, RecordIssue, UsageInv, UsageTypeOK
<1>2. CASE ~Ignored(o) /\ RecordIssue(o)
  <2>1. /\ mode' = o.mode /\ updatedAt' = o.now /\ issue' = "unreadable"
        /\ UNCHANGED <<counters, since, sourceSize, sourceEpoch, identities, booked>>
    BY <1>2 DEF RecordIssue
  <2>2. ~Paused /\ (mode = "none" \/ mode = o.mode)
    BY <1>2 DEF Ignored, Locked
  <2>3. o.mode \in {"events", "cumulative"} /\ updatedAt' \in 0..clock
    BY <2>1 DEF Observations, UsageInv, UsageTypeOK
  <2>4. CASE mode = "none"
    BY <2>1, <2>3, <2>4, FirstIssue
  <2>5. CASE mode = o.mode
    <3>1. mode' = mode /\ mode # "none"
      BY <2>1, <2>3, <2>5
    <3> QED BY <3>1, <2>1, <2>2, <2>3, IssueFrame
  <2> QED BY <2>2, <2>4, <2>5
<1>3. CASE ~Ignored(o) /\ o.mode = "events" /\ Record(o)
  <2>1. mode' = o.mode /\ updatedAt' = o.now /\ RecordEvents(o)
    BY <1>3 DEF Record
  <2>2. /\ mode' = "events" /\ issue' \in {"none", "event-changed"} /\ updatedAt' \in 0..clock
        /\ counters' = 0 /\ since' = 0 /\ sourceEpoch' = 0 /\ sourceSize' \in 0..MaxUnits
        /\ identities' \in [Units -> 0..MaxEpochs] /\ booked' \in [Epochs \X Units -> Nat]
        /\ \A e \in Epochs, k \in Units : booked'[<<e, k>>] = IF identities'[k] = e THEN 1 ELSE 0
        /\ \A k \in 1..sourceSize' : identities'[k] # 0
    BY <1>3, <2>1, EventsKeep
  <2>3. RowOK'
    BY <2>2, UsageAssumption DEF RowOK
  <2>4. Account'
    BY <2>2 DEF Account, Paused
  <2> QED BY <2>3, <2>4
<1>4. CASE ~Ignored(o) /\ o.mode = "cumulative" /\ Record(o)
  <2>1. mode' = o.mode /\ updatedAt' = o.now /\ RecordCounter(o)
    BY <1>4 DEF Record
  <2>2. /\ mode' = "cumulative" /\ issue' \in {"none", "counter-source-changed"} /\ updatedAt' \in 0..clock
        /\ counters' \in 0..MaxUnits /\ since' \in 0..counters'
        /\ sourceSize' \in 0..MaxUnits /\ sourceEpoch' \in Epochs
        /\ identities' = identities /\ \A k \in Units : identities[k] = 0
        /\ booked' \in [Epochs \X Units -> Nat] /\ \A e \in Epochs, k \in Units : booked'[<<e, k>>] <= 1
        /\ issue' = "none" =>
             /\ counters' = sourceSize'
             /\ \A e \in Epochs, k \in Units :
                  booked'[<<e, k>>] = IF e = sourceEpoch' /\ since' < k /\ k <= counters' THEN 1 ELSE 0
    BY <1>4, <2>1, CounterKeeps
  <2>3. RowOK'
    BY <2>2, UsageAssumption DEF RowOK, UsageInv, UsageTypeOK, Epochs
  <2>4. \A u \in Epochs \X Units : booked'[u] <= 1
    BY <2>2
  <2>5. sourceEpoch' # 0
    BY <2>2 DEF Epochs
  <2>6. Account'
    BY <2>2, <2>4, <2>5 DEF Account, Paused
  <2> QED BY <2>3, <2>6
<1> QED BY <1>1, <1>2, <1>3, <1>4 DEF Observations

\* Every step keeps the account: the agent's and the clock's do not touch it, a reader
\* that starts or sees the file does not, and one that ends records or leaves it.
LEMMA StepKeeps ==
  ASSUME UsageInv, [UsageNext]_usageVars
  PROVE  UsageInv'
<1>1. OutsideOK /\ clock \in Nat
  BY UsageAssumption, TypeParts DEF UsageInv, OutsideOK
<1>2. NoReader \in Readers /\ NoReader.now = 0
  BY UsageAssumption DEF NoReader, Readers, Epochs
<1>3. ASSUME UNCHANGED rowVars, OutsideOK', clock <= clock' PROVE UsageInv'
  BY <1>1, <1>3, RowFrame, TypeParts, UsageAssumption DEF UsageInv, OutsideOK
<1>4. CASE Consume
  BY <1>1, <1>3, <1>4, UsageAssumption DEF Consume, OutsideOK
<1>5. ASSUME NEW n \in 0..MaxUnits, Rewrite(n) PROVE UsageInv'
  BY <1>1, <1>3, <1>5, UsageAssumption DEF Rewrite, OutsideOK, Epochs
<1>6. CASE UsageTick
  BY <1>1, <1>3, <1>6, UsageAssumption DEF UsageTick, OutsideOK, Readers
<1>7. CASE PollReads
  <2>1. poll' \in Readers /\ poll'.now = 0
    BY <1>1, <1>2, <1>7 DEF PollReads, OutsideOK, NoReader, Readers
  <2> QED BY <2>1, <1>1, <1>3, <1>7 DEF PollReads, OutsideOK, fileVars
<1>8. CASE PollRecords \/ PollFails \/ ScanRecords \/ ScanFails
  <2>1. OutsideOK' /\ clock' = clock
    BY <1>1, <1>2, <1>8 DEF PollRecords, PollFails, ScanRecords, ScanFails, OutsideOK, fileVars
  <2>2. CASE UNCHANGED rowVars
    BY <2>1, <2>2, <1>1, <1>3
  <2>3. CASE \E o \in {Polled, Scanned} : Record(o) \/ RecordIssue(o)
    <3>1. PICK o \in {Polled, Scanned} : Record(o) \/ RecordIssue(o)
      BY <2>3
    <3>2. o \in Observations /\ o.now <= clock
      BY Observed DEF UsageInv
    <3>3. RowOK' /\ Account'
      BY <2>1, <3>1, <3>2, RecordKeeps
    <3> QED BY <2>1, <3>3, TypeParts DEF UsageInv
  <2> QED BY <1>8, <2>2, <2>3 DEF PollRecords, PollFails, ScanRecords, ScanFails
<1>9. CASE PollMissing
  <2>1. OutsideOK' /\ clock' = clock
    BY <1>1, <1>9 DEF PollMissing, OutsideOK, fileVars
  <2>2. CASE issue' = issue
    BY <2>1, <2>2, <1>1, <1>3, <1>9 DEF PollMissing, rowVars
  <2>3. CASE mode # "none" /\ issue = "none"
    <3>1. ~Paused /\ issue' = "source-unavailable" /\ mode' = mode /\ updatedAt' = updatedAt
      BY <2>3, <1>9 DEF PollMissing, Paused
    <3>2. updatedAt \in 0..clock
      BY DEF UsageInv, UsageTypeOK
    <3>3. RowOK' /\ Account'
      BY <3>1, <3>2, <2>1, <2>3, <1>9, IssueFrame DEF PollMissing
    <3> QED BY <2>1, <3>3, TypeParts DEF UsageInv
  <2> QED BY <1>9, <2>2, <2>3 DEF PollMissing
<1>10. CASE ScanTimer \/ ScanStarts \/ ScanReads
  <2>1. UNCHANGED <<fileVars, poll, rowVars>>
    BY <1>10 DEF ScanTimer, ScanStarts, ScanReads
  <2>2. scan' \in Readers /\ scan'.now <= clock
    <3>1. CASE ScanTimer
      BY <1>1, <1>2, <3>1 DEF ScanTimer
    <3>2. CASE ScanStarts
      <4>1. scan' = [NoReader EXCEPT !.at = "started", !.now = clock] /\ clock \in 0..MaxClock
        BY <1>1, <3>2 DEF ScanStarts, OutsideOK
      <4>2. NoReader \in Readers => scan' \in Readers /\ scan'.now = clock
        BY <4>1 DEF Readers
      <4> QED BY <4>2, <1>1, <1>2
    <3>3. CASE ScanReads
      <4>1. mode \in {"none", "events", "cumulative"}
        BY DEF UsageInv, UsageTypeOK
      <4>2. scan' = NoReader \/ scan' = [scan EXCEPT !.at = "read", !.epoch = epoch, !.n = written, !.mode = mode]
        BY <3>3 DEF ScanReads
      <4>3. scan \in Readers /\ scan.now <= clock /\ epoch \in Epochs /\ written \in 0..MaxUnits
        BY <1>1 DEF OutsideOK
      <4>4. CASE scan' = NoReader
        BY <4>4, <1>1, <1>2
      <4>5. CASE scan' = [scan EXCEPT !.at = "read", !.epoch = epoch, !.n = written, !.mode = mode]
        BY <4>1, <4>3, <4>5 DEF Readers
      <4> QED BY <4>2, <4>4, <4>5
    <3> QED BY <1>10, <3>1, <3>2, <3>3
  <2>3. OutsideOK' /\ clock' = clock /\ UNCHANGED rowVars
    BY <2>1, <2>2, <1>1 DEF OutsideOK, fileVars
  <2> QED BY <2>3, <1>1, <1>3
<1>11. CASE UNCHANGED usageVars
  <2>1. OutsideOK' /\ clock' = clock /\ UNCHANGED rowVars
    BY <1>1, <1>11 DEF usageVars, fileVars, OutsideOK
  <2> QED BY <2>1, <1>1, <1>3
<1> QED BY <1>4, <1>5, <1>6, <1>7, <1>8, <1>9, <1>10, <1>11 DEF UsageNext

LEMMA UsageInvHolds == UsageSpec => []UsageInv
  BY UsageInitHolds, StepKeeps, PTL DEF UsageSpec
-----------------------------------------------------------------------------
\* Every variable of the account and of its readers has its type (usage-ledger.ts:22-41).
THEOREM UsageTypeCorrect == UsageSpec => []UsageTypeOK
<1>1. UsageInv => UsageTypeOK
  BY DEF UsageInv
<1> QED BY <1>1, UsageInvHolds, PTL

\* Nothing is counted twice, for any number of units, rewritings and times, whoever
\* records what and in whichever order (usage-ledger.ts:110-166, 178-190).
THEOREM UsageOnce == UsageSpec => []UsageCountedOnce
<1>1. UsageInv => UsageCountedOnce
  <2> SUFFICES ASSUME UsageInv, NEW e \in Epochs, NEW k \in Units PROVE booked[<<e, k>>] <= 1
    BY DEF UsageCountedOnce
  <2> QED BY DEF UsageInv, UsageTypeOK, Account
<1> QED BY <1>1, UsageInvHolds, PTL

\* And nothing is left out: every event up to the size at which a scan skips the file is
\* booked, and of a counter every unit since the first (usage-ledger.ts:174-175, 192-200).
THEOREM UsageWhole == UsageSpec => []UsageComplete
<1>1. UsageInv => UsageComplete
  <2> SUFFICES ASSUME UsageInv PROVE UsageComplete
    OBVIOUS
  <2>1. ASSUME mode = "events", NEW k \in 1..sourceSize
        PROVE  identities[k] # 0 /\ booked[<<identities[k], k>>] = 1
    <3>1. k \in Units /\ identities[k] # 0
      BY <2>1, UsageAssumption DEF UsageInv, UsageTypeOK, Account, Units
    <3>2. identities[k] \in Epochs
      BY <3>1, UsageAssumption DEF UsageInv, UsageTypeOK, Epochs
    <3> QED BY <2>1, <3>1, <3>2 DEF UsageInv, Account
  <2>2. ASSUME mode = "cumulative", ~Paused, sourceEpoch # 0, NEW k \in Units
        PROVE  booked[<<sourceEpoch, k>>] = IF since < k /\ k <= counters THEN 1 ELSE 0
    <3>1. sourceEpoch \in Epochs
      BY <2>2, UsageAssumption DEF UsageInv, UsageTypeOK, Epochs
    <3> QED BY <2>2, <3>1 DEF UsageInv, Account
  <2> QED BY <2>1, <2>2 DEF UsageComplete
<1> QED BY <1>1, UsageInvHolds, PTL

\* So the account is what the engines wrote: the invariant that the runs check
\* (usage-ledger.ts:75-214).
THEOREM UsageTrue == UsageSpec => []UsageBooked
<1>1. UsageTypeOK /\ UsageCountedOnce /\ UsageComplete => UsageBooked
  BY DEF UsageBooked
<1> QED BY <1>1, UsageTypeCorrect, UsageOnce, UsageWhole, PTL
=============================================================================
