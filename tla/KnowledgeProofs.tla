------------------------ MODULE KnowledgeProofs ------------------------
(***************************************************************************)
(* Theorems about the knowledge of JanusX. Of FactReview, for any          *)
(* candidates, sources, texts, failures and crashes: approvals are whole   *)
(* or have not happened, readers see what an approval on record left, and  *)
(* nothing that was forgotten is shown. Of KnowledgeQueue, for any         *)
(* observations, workspaces, failures and crashes: cursors move forward    *)
(* and pass nothing that was not looked at, and no wakeup of an            *)
(* observation is lost. Of ObservationStore, for any events, callers,      *)
(* months, failures and crashes: an event is recorded once, and no         *)
(* rewriting of a file loses a line or revives one.                        *)
(***************************************************************************)
EXTENDS FactReview, KnowledgeQueue, ObservationStore, Integers, FiniteSetTheorems, SequenceTheorems,
        WellFoundedInduction, TLAPS
-----------------------------------------------------------------------------
(***************************************************************************)
(* Review of facts.                                                        *)
(***************************************************************************)

Rows == [Facts -> Row]
Entry == [status : {"none", "proposed", "rejected", "applied"}, bound : SUBSET Sources]
Queues == [Facts -> Entry]
Barrier == [facts : SUBSET Facts, candidates : SUBSET Facts, sources : SUBSET Sources, texts : SUBSET Texts]
Plan == [fact : Facts, truths : Rows \X Rows, queues : Queues \X Queues]
Planned == {"journal", "facts", "candidates", "audit"}
Writing == {"facts", "candidates", "audit"}
Undone == {"recover", "facts again", "candidates again", "unlink"}
Plain == {"none", "release"} \cup Undone

ReaderType ==
  \/ reader = NotReading
  \/ reader \in [at : {"facts"}, since : Barrier]
  \/ reader \in [at : {"forgotten"}, since : Barrier, rows : Rows, whole : Rows]
  \/ reader \in [at : {"revoked", "check"}, since : Barrier, rows : Rows, whole : Rows, shown : SUBSET Facts]

FactTyped ==
  /\ truth \in Rows /\ settled \in Rows /\ proposals \in Queues /\ audited \subseteq Facts
  /\ forgotten \in Barrier /\ revoked \in Barrier /\ secrets \in Barrier
  /\ same \in BOOLEAN /\ asked \in 0..MaxAsked /\ factFaults \in 0..MaxFactFaults
  /\ journal = NoJournal \/ journal \in Plan
  /\ work \in [op : Plain] \/ work \in [op : Planned \cup {"recover"}, fact : Facts, truths : Rows \X Rows, queues : Queues \X Queues]
  /\ ReaderType

\* A fact is archived when another replaces it, and no fact replaces itself in the end.
Versioned(rows) ==
  /\ \A f \in Facts :
       /\ rows[f].status = "archived" <=> \E g \in Facts : rows[g].over = f
       /\ rows[f].status = "none" => rows[f].over = NoFact
  /\ \A S \in SUBSET Facts : S # {} => \E g \in S : \A h \in S : rows[h].over # g
OneValue(rows, b, r) ==
  \A f, g \in Shown(rows, b, r) : {Says[f], Says[g]} \notin Rivals
Consistent(rows, b, r) == Versioned(rows) /\ OneValue(rows, b, r)

\* The candidates that are applied are those whose approval is on record.
Recorded(queues, record) == \A f \in Facts : queues[f].status = "applied" <=> f \in record

\* What an approval is about to write, and what it would go back to.
Whole(p, b, r) ==
  /\ Consistent(p.truths[1], b, r) /\ Consistent(p.truths[2], b, r)
  /\ p.queues[2] = [p.queues[1] EXCEPT ![p.fact].status = "applied"]

\* The journal holds what is settled, before or after its approval.
Journalled ==
  journal # NoJournal =>
    /\ Whole(journal, forgotten, revoked) /\ settled = journal.truths[Side] /\ Recorded(journal.queues[Side], audited)
\* Without one the files do.
Clean == journal = NoJournal => truth = settled /\ Recorded(proposals, audited)
\* What whoever has the lock has done.
Progress ==
  /\ work.op \in Planned => Whole(work, forgotten, revoked) /\ work.fact \notin audited
  /\ work.op = "journal" => journal = NoJournal /\ truth = work.truths[1] /\ proposals = work.queues[1]
  /\ work.op \in Writing => journal = [fact |-> work.fact, truths |-> work.truths, queues |-> work.queues]
  /\ work.op \in Undone => journal # NoJournal
  /\ work.op = "release" => journal = NoJournal
  /\ work.op \in {"candidates again", "unlink"} => truth = settled
  /\ work.op = "unlink" => Recorded(proposals, audited)

\* Who reads beside a recovery is disturbed by it.
ReadsWhole ==
  /\ reader.at \in {"forgotten", "revoked", "check"} /\ same => reader.rows = reader.whole \/ journal # NoJournal
  /\ reader # NotReading /\ same => work.op \notin {"facts again", "candidates again", "unlink"}

Covered(b) ==
  /\ b.facts \subseteq forgotten.facts /\ b.texts \subseteq forgotten.texts
  /\ b.sources \subseteq forgotten.sources \cup revoked.sources
\* What has to be withheld is behind a barrier, and kept out of what is about to be shown.
Withheld ==
  /\ Covered(secrets) /\ (reader # NotReading => Covered(reader.since))
  /\ reader.at \in {"revoked", "check"} =>
       \A f \in reader.shown :
         /\ f \notin reader.since.facts /\ reader.rows[f].over \notin reader.since.facts
         /\ Says[f] \notin reader.since.texts
         /\ reader.rows[f].sources \cap reader.since.sources \subseteq
              (IF reader.at = "check" THEN {} ELSE revoked.sources)

FactInv ==
  /\ FactTyped /\ Versioned(truth) /\ Consistent(settled, forgotten, revoked)
  /\ Journalled /\ Clean /\ Progress /\ ReadsWhole /\ Withheld
-----------------------------------------------------------------------------
LEMMA FactInvInit == FactInit => FactInv
<1> SUFFICES ASSUME FactInit PROVE FactInv
  OBVIOUS
<1> USE FactAssumption DEF FactInit
<1>1. truth \in Rows /\ \A f \in Facts : truth[f].status = "none" /\ truth[f].over = NoFact
  BY DEF Rows, Row, NoRow
<1>2. proposals \in Queues /\ \A f \in Facts : proposals[f].status = "none"
  BY DEF Queues, Entry
<1>3. Nothing \in Barrier
  BY DEF Nothing, Barrier
<1>4. FactTyped
  BY <1>1, <1>2, <1>3 DEF FactTyped, ReaderType, Unlocked, Plain, NotReading
<1>5. Versioned(truth)
  BY <1>1 DEF Versioned
<1>6. Consistent(settled, forgotten, revoked)
  <2>1. Shown(settled, forgotten, revoked) = {}
    BY <1>1 DEF Shown
  <2> QED
    BY <2>1, <1>5 DEF Consistent, OneValue
<1>7. Journalled /\ Clean
  BY <1>2 DEF Journalled, Clean, Recorded
<1>8. Progress /\ ReadsWhole
  BY DEF Progress, ReadsWhole, Unlocked, Planned, Writing, Undone, NotReading
<1>9. Withheld
  BY <1>3 DEF Withheld, Covered, NotReading, Nothing
<1> QED
  BY <1>4, <1>5, <1>6, <1>7, <1>8, <1>9 DEF FactInv
-----------------------------------------------------------------------------
(* The operators.                                                         *)
LEMMA JoinedBarriers ==
  ASSUME NEW a \in Barrier, NEW b \in Barrier
  PROVE  /\ Joined(a, b) \in Barrier
         /\ Joined(a, b).facts = a.facts \cup b.facts /\ Joined(a, b).texts = a.texts \cup b.texts
         /\ Joined(a, b).sources = a.sources \cup b.sources
<1>1. DOMAIN a = {"facts", "candidates", "sources", "texts"}
  BY DEF Barrier
<1> DEFINE keys == {"facts", "candidates", "sources", "texts"}
           k == [facts |-> a.facts \cup b.facts, candidates |-> a.candidates \cup b.candidates,
                 sources |-> a.sources \cup b.sources, texts |-> a.texts \cup b.texts]
<1>2. k = [x \in keys |-> k[x]]
  OBVIOUS
<1>3. /\ k["facts"] = a["facts"] \cup b["facts"] /\ k["candidates"] = a["candidates"] \cup b["candidates"]
      /\ k["sources"] = a["sources"] \cup b["sources"] /\ k["texts"] = a["texts"] \cup b["texts"]
  OBVIOUS
<1>4. k \in Barrier
  BY DEF Barrier
<1> HIDE DEF k
<1>5. \A x \in keys : k[x] = a[x] \cup b[x]
  BY <1>3
<1>6. k = [x \in keys |-> a[x] \cup b[x]]
  BY <1>2, <1>5, Zenon
<1>7. k = Joined(a, b)
  BY <1>1, <1>6 DEF Joined
<1> QED
  BY <1>3, <1>4, <1>7

\* What is shown behind higher barriers was shown behind lower ones.
LEMMA LessShown ==
  ASSUME NEW rows, NEW b, NEW r, NEW c, NEW s,
         b.facts \subseteq c.facts, b.texts \subseteq c.texts, b.sources \subseteq c.sources,
         r.facts \subseteq s.facts, r.sources \subseteq s.sources
  PROVE  Shown(rows, c, s) \subseteq Shown(rows, b, r)
  BY DEF Shown, Forgets, Revokes

LEMMA AtMostOne ==
  ASSUME NEW S \in SUBSET Facts, Cardinality(S) <= 1, NEW x \in S, NEW y \in S
  PROVE  x = y
<1>1. IsFiniteSet(S)
  BY FactAssumption, FS_Subset
<1>2. IsFiniteSet(S \ {x}) /\ Cardinality(S \ {x}) = Cardinality(S) - 1
  BY <1>1, FS_RemoveElement
<1>3. Cardinality(S \ {x}) \in Nat /\ Cardinality(S) \in Nat
  BY <1>1, <1>2, FS_CardinalityType
<1>4. Cardinality(S \ {x}) = 0
  BY <1>2, <1>3
<1>5. S \ {x} = {}
  BY <1>2, <1>4, FS_EmptySet
<1> QED
  BY <1>5

\* A version replaced by a new fact.
LEMMA ReplacedVersioned ==
  ASSUME NEW rows \in Rows, Versioned(rows), NEW f \in Facts, rows[f].status = "none",
         NEW g \in Facts, rows[g].status = "active", NEW after,
         after = [rows EXCEPT ![g].status = "archived", ![f] = New(f, g)]
  PROVE  after \in Rows /\ Versioned(after)
<1> USE FactAssumption
<1>1. f # g
  OBVIOUS
<1>2. New(f, g) \in Row /\ New(f, g).status = "active" /\ New(f, g).over = g
  BY DEF New, Row
<1> DEFINE d == [rows[g] EXCEPT !.status = "archived"]
<1>3. d \in Row /\ d.status = "archived" /\ d.over = rows[g].over
  BY DEF Rows, Row
<1>4. after = [rows EXCEPT ![g] = d, ![f] = New(f, g)]
  OBVIOUS
<1> HIDE DEF d
<1>5. after \in Rows
  BY <1>2, <1>3, <1>4 DEF Rows
<1>6. /\ after[f] = New(f, g) /\ after[g] = d
      /\ \A h \in Facts \ {f, g} : after[h] = rows[h]
  BY <1>1, <1>4 DEF Rows
<1>7. \A h \in Facts : rows[h].over # f /\ rows[h].over # g
  BY DEF Versioned
<1>8. rows[f].over = NoFact /\ \A h \in Facts \ {f} : after[h].over = rows[h].over
  BY <1>3, <1>6 DEF Versioned
<1>9. ASSUME NEW h \in Facts
      PROVE  /\ after[h].status = "archived" <=> \E k \in Facts : after[k].over = h
             /\ after[h].status = "none" => after[h].over = NoFact
  <2>1. \A k \in Facts \ {f} : after[k].over = rows[k].over
    BY <1>8
  <2>2. after[f].over = g
    BY <1>2, <1>6
  <2>3. CASE h = g
    BY <2>2, <2>3, <1>3, <1>6
  <2>4. CASE h = f
    BY <2>1, <2>2, <2>4, <1>1, <1>2, <1>6, <1>7
  <2>5. CASE h # f /\ h # g
    <3>1. after[h] = rows[h]
      BY <2>5, <1>6
    <3>2. (\E k \in Facts : after[k].over = h) <=> \E k \in Facts : rows[k].over = h
      BY <2>1, <2>2, <2>5, <1>8, <1>7
    <3> QED
      BY <3>1, <3>2 DEF Versioned
  <2> QED
    BY <2>3, <2>4, <2>5
<1>10. ASSUME NEW S \in SUBSET Facts, S # {}
       PROVE \E h \in S : \A k \in S : after[k].over # h
  <2>1. CASE f \in S
    <3>1. \A k \in S : after[k].over # f
      BY <1>1, <1>2, <1>6, <1>7, <1>8
    <3> QED
      BY <2>1, <3>1
  <2>2. CASE f \notin S
    <3>1. PICK h \in S : \A k \in S : rows[k].over # h
      BY <1>10 DEF Versioned
    <3> QED
      BY ZenonT(30), <2>2, <3>1, <1>8
  <2> QED
    BY <2>1, <2>2
<1> QED
  BY <1>5, <1>9, <1>10 DEF Versioned

\* Facts that are added, or that gain sources, replace nothing.
LEMMA VersionsStay ==
  ASSUME NEW rows \in Rows, Versioned(rows), NEW after \in Rows,
         \A h \in Facts : /\ after[h].over = rows[h].over
                          /\ \/ after[h].status = rows[h].status
                             \/ rows[h].status = "none" /\ after[h].status = "active"
  PROVE  Versioned(after)
<1>1. \A h \in Facts : /\ after[h].status = "archived" <=> rows[h].status = "archived"
                       /\ after[h].status = "none" => rows[h].status = "none"
  OBVIOUS
<1>2. ASSUME NEW S \in SUBSET Facts, S # {}
      PROVE \E g \in S : \A h \in S : after[h].over # g
  <2>1. PICK g \in S : \A h \in S : rows[h].over # g
    BY <1>2 DEF Versioned
  <2> QED
    BY <2>1
<1> QED
  BY <1>1, <1>2 DEF Versioned

\* What is shown of an approval, besides what was shown before, is its own fact.
LEMMA OneValueKept ==
  ASSUME NEW rows \in Rows, NEW b, NEW r, OneValue(rows, b, r), NEW after \in Rows, NEW f \in Facts,
         \A h \in Shown(after, b, r) : h = f \/ (h \in Shown(rows, b, r) /\ {Says[f], Says[h]} \notin Rivals)
  PROVE  OneValue(after, b, r)
<1> SUFFICES ASSUME NEW g \in Shown(after, b, r), NEW h \in Shown(after, b, r)
             PROVE {Says[g], Says[h]} \notin Rivals
  BY DEF OneValue
<1>1. CASE g # f /\ h # f
  BY <1>1 DEF OneValue
<1>2. CASE g = f /\ h = f
  <2>1. {Says[g], Says[h]} = {Says[f]} /\ Says[f] \in Texts
    BY <1>2, FactAssumption
  <2> QED
    BY <2>1, FactAssumption
<1>3. CASE g = f /\ h # f
  BY <1>3
<1>4. CASE g # f /\ h = f
  <2>1. {Says[g], Says[h]} = {Says[f], Says[g]}
    BY <1>4
  <2> QED
    BY <1>4, <2>1
<1> QED
  BY <1>1, <1>2, <1>3, <1>4

\* Whether a fact is shown depends on its own row.
LEMMA ShownRow ==
  ASSUME NEW rows, NEW after, NEW b, NEW r, NEW h \in Shown(after, b, r), after[h] = rows[h]
  PROVE  h \in Shown(rows, b, r)
  BY DEF Shown, Forgets, Revokes

\* The facts as an approval leaves them.
LEMMA AfterConsistent ==
  ASSUME truth \in Rows, Consistent(truth, forgotten, revoked), NEW f \in Facts, truth[f].status = "none",
         Cardinality(Conflicts(f)) <= 1
  PROVE  After(f) \in Rows /\ Consistent(After(f), forgotten, revoked)
<1> USE FactAssumption
<1> DEFINE S == Shown(truth, forgotten, revoked)
<1>1. Versioned(truth) /\ OneValue(truth, forgotten, revoked) /\ S \in SUBSET Facts
  BY DEF Consistent, Shown
<1>2. \A h \in S : truth[h].status = "active" /\ h # f
  BY DEF Shown
<1>3. Conflicts(f) \in SUBSET S /\ \A h \in S \ Conflicts(f) : {Says[f], Says[h]} \notin Rivals
  BY <1>1 DEF Conflicts
<1>4. CASE Conflicts(f) # {}
  <2> DEFINE g == CHOOSE g \in Conflicts(f) : TRUE
  <2>1. g \in Conflicts(f)
    BY <1>4
  <2>2. g \in Facts /\ truth[g].status = "active" /\ f # g
    BY <1>1, <1>2, <1>3, <2>1
  <2>3. \A h \in Conflicts(f) : h = g
    BY <1>1, <1>3, <2>1, AtMostOne
  <2>4. After(f) = Replaced(f, g)
    BY <1>4 DEF After
  <2> HIDE DEF g
  <2> DEFINE after == Replaced(f, g)
  <2>5. after \in Rows /\ Versioned(after)
    BY <1>1, <2>2, ReplacedVersioned DEF Replaced
  <2>6. after[g].status = "archived" /\ \A h \in Facts \ {f, g} : after[h] = truth[h]
    BY <2>2 DEF Replaced, Rows, Row
  <2>7. ASSUME NEW h \in Shown(after, forgotten, revoked), h # f
        PROVE h \in S /\ {Says[f], Says[h]} \notin Rivals
    <3>1. h \in Facts /\ h # g
      BY <2>6 DEF Shown
    <3>2. h \in S
      BY <2>6, <2>7, <3>1, ShownRow
    <3> QED
      BY <1>3, <2>3, <3>1, <3>2
  <2> HIDE DEF after, S
  <2>8. OneValue(after, forgotten, revoked)
    BY <1>1, <2>5, <2>7, OneValueKept DEF S
  <2> QED
    BY <2>4, <2>5, <2>8 DEF Consistent, after
<1>5. CASE Conflicts(f) = {} /\ Duplicates(f) # {}
  <2> DEFINE g == CHOOSE g \in Duplicates(f) : TRUE
             d == [truth[g] EXCEPT !.sources = truth[g].sources \cup Evidence[f]]
             after == [truth EXCEPT ![g] = d]
  <2>1. g \in Duplicates(f)
    BY <1>5
  <2>2. g \in S
    BY <2>1 DEF Duplicates
  <2>3. After(f) = after
    BY <1>5 DEF After
  <2> HIDE DEF g
  <2>4. g \in Facts
    BY <1>1, <2>2
  <2>5. /\ d \in Row /\ d.status = truth[g].status /\ d.over = truth[g].over
        /\ truth[g].sources \subseteq d.sources
    BY <2>4 DEF Rows, Row
  <2> HIDE DEF d
  <2>6. after \in Rows /\ after[g] = d /\ \A h \in Facts \ {g} : after[h] = truth[h]
    BY <2>4, <2>5 DEF Rows
  <2> HIDE DEF after
  <2>7. Versioned(after)
    BY <1>1, <2>5, <2>6, VersionsStay
  <2>8. ASSUME NEW h \in Shown(after, forgotten, revoked)
        PROVE h \in S /\ {Says[f], Says[h]} \notin Rivals
    <3>1. h \in Facts
      BY DEF Shown
    <3>2. h \in S
      BY <2>2, <2>6, <3>1, ShownRow
    <3> QED
      BY <1>3, <1>5, <3>2
  <2> HIDE DEF S
  <2>9. OneValue(after, forgotten, revoked)
    BY <1>1, <2>6, <2>8, OneValueKept DEF S
  <2> QED
    BY <2>3, <2>6, <2>7, <2>9 DEF Consistent
<1>6. CASE Conflicts(f) = {} /\ Duplicates(f) = {}
  <2> DEFINE after == [truth EXCEPT ![f] = New(f, NoFact)]
  <2>1. After(f) = after
    BY <1>6 DEF After
  <2>2. New(f, NoFact) \in Row /\ New(f, NoFact).over = NoFact /\ New(f, NoFact).status = "active"
    BY DEF New, Row
  <2>3. after \in Rows /\ after[f] = New(f, NoFact) /\ \A h \in Facts \ {f} : after[h] = truth[h]
    BY <2>2 DEF Rows
  <2>4. truth[f].over = NoFact
    BY <1>1 DEF Versioned
  <2> HIDE DEF after
  <2>5. Versioned(after)
    BY <1>1, <2>2, <2>3, <2>4, VersionsStay
  <2>6. ASSUME NEW h \in Shown(after, forgotten, revoked), h # f
        PROVE h \in S /\ {Says[f], Says[h]} \notin Rivals
    <3>1. h \in Facts
      BY DEF Shown
    <3>2. h \in S
      BY <2>3, <2>6, <3>1, ShownRow
    <3> QED
      BY <1>3, <1>6, <3>2
  <2> HIDE DEF S
  <2>7. OneValue(after, forgotten, revoked)
    BY <1>1, <2>3, <2>6, OneValueKept DEF S
  <2> QED
    BY <2>1, <2>3, <2>5, <2>7 DEF Consistent
<1> QED
  BY <1>4, <1>5, <1>6
-----------------------------------------------------------------------------
(* Forgetting and revoking.                                               *)
LEMMA BlocksBarrier ==
  ASSUME truth \in Rows, NEW F \in SUBSET Facts, NEW K \in SUBSET Facts,
         NEW sources \in SUBSET Sources, NEW texts \in SUBSET Texts
  PROVE  Blocks(F, K, sources, texts) \in Barrier
<1> DEFINE A == UNION {truth[f].sources : f \in F}
           E == UNION {Evidence[f] : f \in K}
           T == {Says[f] : f \in F \cup K}
<1>1. \A f \in Facts : truth[f].sources \subseteq Sources /\ Evidence[f] \subseteq Sources /\ Says[f] \in Texts
  BY FactAssumption DEF Rows, Row
<1>2. A \subseteq Sources /\ E \subseteq Sources /\ T \subseteq Texts
  BY <1>1
<1>3. Blocks(F, K, sources, texts) =
        [facts |-> F \cup K, candidates |-> K, texts |-> texts \cup T, sources |-> sources \cup A \cup E]
  BY DEF Blocks
<1> HIDE DEF A, E, T
<1>4. texts \cup T \in SUBSET Texts /\ sources \cup A \cup E \in SUBSET Sources /\ F \cup K \in SUBSET Facts
  BY <1>2
<1> QED
  BY <1>3, <1>4 DEF Barrier

\* Going from a fact to what it replaced, and on, one stays among the facts that are closed
\* under that, because no fact replaces itself in the end.
LEMMA VersionsClosed ==
  ASSUME Versioned(truth), NEW facts, NEW sources, NEW texts, NEW F \in SUBSET Facts, NEW K,
         Closed(facts, sources, texts, F, K)
  PROVE  Versions(facts) \subseteq F
<1> SUFFICES ASSUME NEW f \in Versions(facts), f \notin F PROVE FALSE
  OBVIOUS
<1>1. PICK W \in SUBSET Known : f \in W /\ \A g \in W \ facts : \E h \in W : truth[h].over = g
  BY DEF Versions
<1>2. W \ F \in SUBSET Facts /\ W \ F # {}
  BY <1>1 DEF Known
<1>3. PICK g \in W \ F : \A h \in W \ F : truth[h].over # g
  BY <1>2 DEF Versioned
<1>4. facts \subseteq F /\ \A h \in Known : h \in F => truth[h].over # g
  BY <1>3 DEF Closed
<1>5. PICK h \in W : truth[h].over = g
  BY <1>1, <1>3, <1>4
<1> QED
  BY <1>1, <1>3, <1>4, <1>5

LEMMA ReachedCovers ==
  ASSUME truth \in Rows, Versioned(truth), NEW facts,
         NEW sources \in SUBSET Sources, NEW texts \in SUBSET Texts
  PROVE  /\ Reached(facts, sources, texts) \in Barrier
         /\ Versions(facts) \subseteq Reached(facts, sources, texts).facts
         /\ texts \cup {Says[f] : f \in Versions(facts)} \subseteq Reached(facts, sources, texts).texts
         /\ sources \cup UNION {truth[f].sources : f \in Versions(facts)}
              \subseteq Reached(facts, sources, texts).sources
<1> DEFINE Pairs == {p \in (SUBSET Known) \X (SUBSET Queued) : Closed(facts, sources, texts, p[1], p[2])}
           F == {f \in Known : \A p \in Pairs : f \in p[1]}
           K == {f \in Queued : \A p \in Pairs : f \in p[2]}
           V == Versions(facts)
<1>1. Reached(facts, sources, texts) = Blocks(F, K, sources, texts)
  BY DEF Reached
<1>2. Known \in SUBSET Facts /\ Queued \in SUBSET Facts /\ V \in SUBSET Known
  BY DEF Known, Queued, Versions
<1>3. F \in SUBSET Facts /\ K \in SUBSET Facts
  BY <1>2
<1>4. V \subseteq F
  <2> SUFFICES ASSUME NEW f \in V, NEW p \in Pairs PROVE f \in p[1]
    BY <1>2
  <2>1. p[1] \in SUBSET Facts /\ Closed(facts, sources, texts, p[1], p[2])
    BY <1>2
  <2> QED
    BY <2>1, VersionsClosed
<1> HIDE DEF F, K, V
<1>5. Blocks(F, K, sources, texts) \in Barrier
  BY <1>3, BlocksBarrier
<1>6. /\ V \subseteq Blocks(F, K, sources, texts).facts
      /\ texts \cup {Says[f] : f \in V} \subseteq Blocks(F, K, sources, texts).texts
      /\ sources \cup UNION {truth[f].sources : f \in V} \subseteq Blocks(F, K, sources, texts).sources
  BY <1>4 DEF Blocks
<1> QED
  BY <1>1, <1>5, <1>6 DEF V

\* Whoever moves a barrier has the lock, moves it upwards, and covers what it adds to
\* what has to be withheld.
LEMMA BarriersRise ==
  ASSUME FactInv, LockReady, UNCHANGED <<truth, proposals, journal, audited, same, work, reader, factFaults, settled>>,
         asked' \in 0..MaxAsked, forgotten' \in Barrier, revoked' \in Barrier, secrets' \in Barrier,
         forgotten.facts \subseteq forgotten'.facts, forgotten.texts \subseteq forgotten'.texts,
         forgotten.sources \subseteq forgotten'.sources,
         revoked.facts \subseteq revoked'.facts, revoked.sources \subseteq revoked'.sources,
         Covered(secrets)'
  PROVE  FactInv'
<1> USE DEF FactInv
<1>1. FactTyped'
  BY DEF FactTyped, ReaderType
<1>2. Versioned(truth)' /\ Consistent(settled, forgotten, revoked)'
  <2>1. Shown(settled, forgotten', revoked') \subseteq Shown(settled, forgotten, revoked)
    BY LessShown
  <2> QED
    BY <2>1 DEF Consistent, OneValue
<1>3. Journalled' /\ Clean' /\ Progress'
  BY DEF Journalled, Clean, Progress, LockReady, Unlocked, Planned, Writing, Undone
<1>4. ReadsWhole'
  BY DEF ReadsWhole
<1>5. Withheld'
  BY DEF Withheld, Covered
<1> QED
  BY <1>1, <1>2, <1>3, <1>4, <1>5

LEMMA ForgetStep ==
  ASSUME FactInv, NEW facts, NEW sources \in SUBSET Sources, NEW texts \in SUBSET Texts,
         Forget(facts, sources, texts)
  PROVE  FactInv'
<1> DEFINE R == Reached(facts, sources, texts)
           V == Versions(facts)
           S == [facts |-> V, candidates |-> {}, texts |-> texts \cup {Says[f] : f \in V},
                 sources |-> sources \cup UNION {truth[f].sources : f \in V}]
<1>1. truth \in Rows /\ Versioned(truth) /\ forgotten \in Barrier /\ revoked \in Barrier /\ secrets \in Barrier
  BY DEF FactInv, FactTyped
<1>2. /\ R \in Barrier /\ V \subseteq R.facts /\ texts \cup {Says[f] : f \in V} \subseteq R.texts
      /\ sources \cup UNION {truth[f].sources : f \in V} \subseteq R.sources
  BY <1>1, ReachedCovers
<1>3. forgotten' = Joined(forgotten, R) /\ secrets' = Joined(secrets, S)
  BY DEF Forget
<1>4. S.facts \subseteq R.facts /\ S.texts \subseteq R.texts /\ S.sources \subseteq R.sources
  BY <1>2
<1>5. S \in Barrier
  BY <1>2 DEF Barrier
<1> HIDE DEF R, S, V
<1>6. /\ forgotten' \in Barrier /\ secrets' \in Barrier
      /\ forgotten'.facts = forgotten.facts \cup R.facts /\ forgotten'.texts = forgotten.texts \cup R.texts
      /\ forgotten'.sources = forgotten.sources \cup R.sources
      /\ secrets'.facts = secrets.facts \cup S.facts /\ secrets'.texts = secrets.texts \cup S.texts
      /\ secrets'.sources = secrets.sources \cup S.sources
  BY <1>1, <1>2, <1>3, <1>5, JoinedBarriers
<1>7. /\ LockReady /\ asked' \in 0..MaxAsked /\ revoked' = revoked
      /\ UNCHANGED <<truth, proposals, journal, audited, same, work, reader, factFaults, settled>>
  BY FactAssumption DEF Forget, FactInv, FactTyped
<1>8. Covered(secrets)'
  BY <1>4, <1>6, <1>7 DEF FactInv, Withheld, Covered
<1> QED
  BY <1>1, <1>6, <1>7, <1>8, BarriersRise

LEMMA RevokeStep ==
  ASSUME FactInv, NEW o \in Sources, Revoke(o)
  PROVE  FactInv'
<1> DEFINE b == [Nothing EXCEPT !.sources = {o}]
           R == [b EXCEPT !.facts = {f \in Known : Revokes(b, truth, f)} \cup {f \in Queued : RevokesCandidate(b, f)}]
<1>1. truth \in Rows /\ forgotten \in Barrier /\ revoked \in Barrier /\ secrets \in Barrier
  BY DEF FactInv, FactTyped
<1>2. b \in Barrier /\ b.facts = {} /\ b.texts = {} /\ b.sources = {o}
  BY DEF Nothing, Barrier
<1>3. revoked' = Joined(revoked, R) /\ secrets' = Joined(secrets, b)
  BY DEF Revoke
<1> HIDE DEF b
<1>4. R \in Barrier /\ R.sources = {o}
  <2>1. {f \in Known : Revokes(b, truth, f)} \cup {f \in Queued : RevokesCandidate(b, f)} \in SUBSET Facts
    BY DEF Known, Queued
  <2> QED
    BY <1>2, <2>1 DEF Barrier
<1> HIDE DEF R
<1>5. /\ revoked' \in Barrier /\ revoked'.facts = revoked.facts \cup R.facts
      /\ revoked'.sources = revoked.sources \cup {o}
  BY <1>1, <1>3, <1>4, JoinedBarriers
<1>6. /\ secrets' \in Barrier /\ secrets'.facts = secrets.facts /\ secrets'.texts = secrets.texts
      /\ secrets'.sources = secrets.sources \cup {o}
  <2>1. Joined(secrets, b) \in Barrier
    BY <1>1, <1>2, JoinedBarriers
  <2>2. /\ Joined(secrets, b).facts = secrets.facts \cup b.facts
        /\ Joined(secrets, b).texts = secrets.texts \cup b.texts
        /\ Joined(secrets, b).sources = secrets.sources \cup b.sources
    BY <1>1, <1>2, JoinedBarriers
  <2> QED
    BY <1>2, <1>3, <2>1, <2>2
<1>7. /\ LockReady /\ asked' \in 0..MaxAsked /\ forgotten' = forgotten
      /\ UNCHANGED <<truth, proposals, journal, audited, same, work, reader, factFaults, settled>>
  BY FactAssumption DEF Revoke, FactInv, FactTyped
<1>8. Covered(secrets)'
  BY <1>5, <1>6, <1>7 DEF FactInv, Withheld, Covered
<1> QED
  BY <1>1, <1>5, <1>6, <1>7, <1>8, BarriersRise
-----------------------------------------------------------------------------
(* Who reads.                                                             *)
LEMMA ReaderStep ==
  ASSUME FactInv, UNCHANGED <<factFiles, work, factFaults, asked, settled, secrets>>,
         same' \in BOOLEAN, ReaderType', ReadsWhole', Withheld'
  PROVE  FactInv'
<1> USE DEF FactInv, factFiles
<1>1. FactTyped'
  BY DEF FactTyped
<1>2. Versioned(truth)' /\ Consistent(settled, forgotten, revoked)'
  OBVIOUS
<1>3. Journalled' /\ Clean' /\ Progress'
  BY DEF Journalled, Clean, Progress, Side
<1> QED
  BY <1>1, <1>2, <1>3

LEMMA ReadBeginsStep == FactInv /\ ReadBegins => FactInv'
<1> SUFFICES ASSUME FactInv, ReadBegins PROVE FactInv'
  OBVIOUS
<1> USE DEF FactInv, ReadBegins, factFiles
<1>1. ReaderType' /\ reader'.at = "facts" /\ reader'.since = secrets /\ reader'.at # "idle"
  BY DEF ReaderType, FactTyped
<1>2. ReadsWhole'
  BY <1>1 DEF ReadsWhole, Progress, Undone
<1>3. Withheld'
  BY <1>1 DEF Withheld, Covered
<1> QED
  BY <1>1, <1>2, <1>3, ReaderStep

LEMMA ReadFactsStep == FactInv /\ ReadFacts => FactInv'
<1> SUFFICES ASSUME FactInv, ReadFacts PROVE FactInv'
  OBVIOUS
<1> USE DEF FactInv, ReadFacts, Reads, factFiles
<1>1. reader \in [at : {"facts"}, since : Barrier] /\ reader # NotReading
  BY DEF FactTyped, ReaderType, NotReading
<1>2. /\ ReaderType' /\ reader'.at = "forgotten" /\ reader'.since = reader.since
      /\ reader'.rows = truth /\ reader'.whole = settled
  BY <1>1 DEF ReaderType, FactTyped
<1>3. ReadsWhole'
  BY <1>1, <1>2 DEF ReadsWhole, Clean
<1>4. Withheld'
  BY <1>1, <1>2 DEF Withheld, Covered
<1> QED
  BY <1>2, <1>3, <1>4, ReaderStep DEF FactTyped

LEMMA ReadForgottenStep == FactInv /\ ReadForgotten => FactInv'
<1> SUFFICES ASSUME FactInv, ReadForgotten PROVE FactInv'
  OBVIOUS
<1> USE DEF FactInv, ReadForgotten, Reads, factFiles
<1> DEFINE S == Shown(reader.rows, forgotten, Nothing)
<1>1. reader \in [at : {"forgotten"}, since : Barrier, rows : Rows, whole : Rows] /\ reader # NotReading
  BY DEF FactTyped, ReaderType, NotReading
<1>2. S \in SUBSET Facts
  BY DEF Shown
<1>3. reader' = [at |-> "revoked", since |-> reader.since, rows |-> reader.rows, whole |-> reader.whole, shown |-> S]
  OBVIOUS
<1> HIDE DEF S
<1>4. /\ ReaderType' /\ reader'.at = "revoked" /\ reader'.since = reader.since
      /\ reader'.rows = reader.rows /\ reader'.whole = reader.whole /\ reader'.shown = S
  BY <1>1, <1>2, <1>3 DEF ReaderType
<1>5. ReadsWhole'
  BY <1>1, <1>4 DEF ReadsWhole
<1>6. ASSUME NEW f \in S
      PROVE /\ f \notin reader.since.facts /\ reader.rows[f].over \notin reader.since.facts
            /\ Says[f] \notin reader.since.texts
            /\ reader.rows[f].sources \cap reader.since.sources \subseteq revoked.sources
  <2>1. ~Forgets(forgotten, reader.rows, f)
    BY DEF S, Shown
  <2>2. Covered(reader.since)
    BY <1>1 DEF Withheld
  <2> QED
    BY <2>1, <2>2 DEF Forgets, Covered
<1>7. Withheld'
  BY <1>1, <1>4, <1>6 DEF Withheld, Covered
<1> QED
  BY <1>4, <1>5, <1>7, ReaderStep DEF FactTyped

LEMMA ReadRevokedStep == FactInv /\ ReadRevoked => FactInv'
<1> SUFFICES ASSUME FactInv, ReadRevoked PROVE FactInv'
  OBVIOUS
<1> USE DEF FactInv, ReadRevoked, Reads, factFiles
<1> DEFINE S == {f \in reader.shown : ~Revokes(revoked, reader.rows, f)}
<1>1. /\ reader \in [at : {"revoked", "check"}, since : Barrier, rows : Rows, whole : Rows, shown : SUBSET Facts]
      /\ reader # NotReading
  BY DEF FactTyped, ReaderType, NotReading
<1>2. S \in SUBSET Facts
  BY <1>1
<1>3. reader' = [reader EXCEPT !.at = "check", !.shown = S]
  BY <1>1
<1> HIDE DEF S
<1>4. /\ ReaderType' /\ reader'.at = "check" /\ reader'.since = reader.since
      /\ reader'.rows = reader.rows /\ reader'.whole = reader.whole /\ reader'.shown = S
  BY <1>1, <1>2, <1>3 DEF ReaderType
<1>5. ReadsWhole'
  BY <1>1, <1>4 DEF ReadsWhole
<1>6. ASSUME NEW f \in S
      PROVE /\ f \notin reader.since.facts /\ reader.rows[f].over \notin reader.since.facts
            /\ Says[f] \notin reader.since.texts
            /\ reader.rows[f].sources \cap reader.since.sources = {}
  BY DEF S, Withheld, Revokes
<1>7. Withheld'
  BY <1>1, <1>4, <1>6 DEF Withheld, Covered
<1> QED
  BY <1>4, <1>5, <1>7, ReaderStep DEF FactTyped

LEMMA ReadEndsStep == FactInv /\ ReadEnds => FactInv'
<1> SUFFICES ASSUME FactInv, ReadEnds PROVE FactInv'
  OBVIOUS
<1> USE DEF FactInv, ReadEnds, Reads, factFiles
<1>1. ReaderType' /\ reader' = NotReading /\ reader'.at = "idle"
  BY DEF ReaderType, NotReading
<1>2. ReadsWhole'
  BY <1>1 DEF ReadsWhole
<1>3. Withheld'
  BY <1>1 DEF Withheld, Covered
<1> QED
  BY <1>1, <1>2, <1>3, ReaderStep DEF FactTyped
-----------------------------------------------------------------------------
(* Whoever changes the files leaves readers and barriers alone.           *)
StoreType ==
  /\ truth \in Rows /\ settled \in Rows /\ proposals \in Queues /\ audited \subseteq Facts
  /\ journal = NoJournal \/ journal \in Plan
  /\ work \in [op : Plain] \/ work \in [op : Planned \cup {"recover"}, fact : Facts, truths : Rows \X Rows, queues : Queues \X Queues]
LEMMA StoreStep ==
  ASSUME FactInv, UNCHANGED <<forgotten, revoked, reader, asked, secrets>>,
         same' \in BOOLEAN, factFaults' \in 0..MaxFactFaults, StoreType',
         Versioned(truth'), Consistent(settled', forgotten, revoked),
         Journalled', Clean', Progress',
         reader = NotReading \/ (same' => same),
         journal # NoJournal => journal' # NoJournal \/ work.op = "unlink",
         work'.op \in {"facts again", "candidates again", "unlink"} =>
           work.op \in {"facts again", "candidates again"} \/ reader = NotReading \/ ~same'
  PROVE  FactInv'
<1> USE DEF FactInv
<1>1. FactTyped'
  BY DEF FactTyped, StoreType, ReaderType
<1>2. NotReading.at = "idle"
  BY DEF NotReading
<1>3. ASSUME reader # NotReading, same'
      PROVE /\ same /\ work.op \notin {"facts again", "candidates again", "unlink"}
            /\ work'.op \notin {"facts again", "candidates again", "unlink"}
  <2>1. same
    BY <1>3
  <2>2. work.op \notin {"facts again", "candidates again", "unlink"}
    BY <1>3, <2>1 DEF ReadsWhole
  <2> QED
    BY <1>3, <2>1, <2>2
<1>4. ReadsWhole'
  BY <1>2, <1>3 DEF ReadsWhole
<1>5. Withheld'
  BY DEF Withheld, Covered
<1> QED
  BY <1>1, <1>4, <1>5

LEMMA ProposeStep == ASSUME FactInv, NEW f \in Facts, Propose(f) PROVE FactInv'
<1> USE DEF FactInv
<1>1. /\ LockReady /\ work.op = "none"
      /\ UNCHANGED <<truth, journal, audited, forgotten, revoked, same, work, reader, factFaults, asked, settled, secrets>>
  BY DEF Propose, LockReady, Unlocked
<1> DEFINE bound == IF Corrects[f] = NoFact THEN {} ELSE truth[Corrects[f]].sources
           e == [status |-> "proposed", bound |-> bound]
<1>2. bound \in SUBSET Sources
  BY FactAssumption DEF FactTyped, Rows, Row
<1>3. proposals' = [proposals EXCEPT ![f] = e] /\ proposals[f].status = "none"
  BY DEF Propose
<1> HIDE DEF bound
<1>4. proposals' \in Queues /\ \A g \in Facts : proposals'[g].status = "applied" <=> proposals[g].status = "applied"
  BY <1>2, <1>3 DEF FactTyped, Queues, Entry
<1>5. Clean' /\ Journalled'
  BY <1>1, <1>4 DEF Clean, Recorded, Journalled, LockReady
<1>6. Progress'
  BY <1>1 DEF Progress, Planned, Writing, Undone
<1> QED
  BY <1>1, <1>4, <1>5, <1>6, StoreStep DEF FactTyped, StoreType

LEMMA RejectStep == ASSUME FactInv, NEW f \in Facts, Reject(f) PROVE FactInv'
<1> USE DEF FactInv
<1>1. /\ LockReady /\ work.op = "none"
      /\ UNCHANGED <<truth, journal, audited, forgotten, revoked, same, work, reader, factFaults, asked, settled, secrets>>
  BY DEF Reject, LockReady, Unlocked
<1>2. proposals' = [proposals EXCEPT ![f].status = "rejected"] /\ proposals[f].status = "proposed"
  BY DEF Reject
<1>3. proposals' \in Queues /\ \A g \in Facts : proposals'[g].status = "applied" <=> proposals[g].status = "applied"
  BY <1>2 DEF FactTyped, Queues, Entry
<1>4. Clean' /\ Journalled'
  BY <1>1, <1>3 DEF Clean, Recorded, Journalled, LockReady
<1>5. Progress'
  BY <1>1 DEF Progress, Planned, Writing, Undone
<1> QED
  BY <1>1, <1>3, <1>4, <1>5, StoreStep DEF FactTyped, StoreType

LEMMA ApproveStep == ASSUME FactInv, NEW f \in Facts, Approve(f) PROVE FactInv'
<1> USE DEF FactInv
<1> DEFINE after == After(f)
           filed == [proposals EXCEPT ![f].status = "applied"]
<1>1. /\ LockReady /\ work.op = "none" /\ proposals[f].status = "proposed" /\ truth[f].status = "none"
      /\ UNCHANGED <<factFiles, reader, factFaults, asked, settled, secrets>> /\ same' = Counted
  BY DEF Approve, LockReady, Unlocked
<1>2. truth = settled /\ Recorded(proposals, audited) /\ journal = NoJournal
  BY <1>1 DEF Clean, LockReady
<1>3. after \in Rows /\ Consistent(after, forgotten, revoked)
  BY <1>1, <1>2, AfterConsistent DEF Approve, FactTyped
<1>4. filed \in Queues
  BY <1>1 DEF FactTyped, Queues, Entry
<1>5. work' = [op |-> "journal", fact |-> f, truths |-> <<truth, after>>, queues |-> <<proposals, filed>>]
  BY DEF Approve
<1> HIDE DEF after
<1>6. StoreType'
  BY <1>1, <1>3, <1>4, <1>5 DEF StoreType, FactTyped, Planned, factFiles
<1>7. f \notin audited
  BY <1>1, <1>2 DEF Recorded
<1>8. Whole(work', forgotten, revoked)
  BY <1>2, <1>3, <1>5 DEF Whole
<1>9. Progress'
  BY <1>1, <1>2, <1>5, <1>7, <1>8 DEF Progress, Planned, Writing, Undone, factFiles
<1>10. Journalled' /\ Clean'
  BY <1>1, <1>2 DEF Journalled, Clean, factFiles
<1> QED
  BY <1>1, <1>2, <1>5, <1>6, <1>9, <1>10, StoreStep DEF FactTyped, factFiles, Counted
-----------------------------------------------------------------------------
(* An approval, file by file.                                             *)
PlanOf(w) == [fact |-> w.fact, truths |-> w.truths, queues |-> w.queues]

LEMMA WorkPlan ==
  ASSUME FactInv, work.op \in Planned
  PROVE  /\ work \in [op : Planned \cup {"recover"}, fact : Facts, truths : Rows \X Rows, queues : Queues \X Queues]
         /\ work.fact \in Facts /\ work.truths \in Rows \X Rows /\ work.queues \in Queues \X Queues
         /\ PlanOf(work) \in Plan /\ PlanOf(work) # NoJournal /\ PlanOf(work).fact = work.fact
         /\ PlanOf(work).truths = work.truths /\ PlanOf(work).queues = work.queues
         /\ Whole(work, forgotten, revoked) /\ work.fact \notin audited
<1>1. work \in [op : Planned \cup {"recover"}, fact : Facts, truths : Rows \X Rows, queues : Queues \X Queues]
  BY DEF FactInv, FactTyped, Planned, Plain, Undone
<1>2. PlanOf(work) \in Plan
  BY <1>1 DEF PlanOf, Plan
<1>3. PlanOf(work).fact = work.fact /\ NoJournal.fact = NoFact
  BY DEF PlanOf, NoJournal
<1>4. PlanOf(work) # NoJournal
  BY <1>1, <1>3, FactAssumption
<1> QED
  BY <1>1, <1>2, <1>3, <1>4 DEF PlanOf, FactInv, Progress

LEMMA ThenOp ==
  ASSUME FactInv, work.op \in Planned, NEW op \in Planned \cup {"recover"}, Then(op)
  PROVE  /\ work' \in [op : Planned \cup {"recover"}, fact : Facts, truths : Rows \X Rows, queues : Queues \X Queues]
         /\ work'.op = op /\ work'.fact = work.fact /\ work'.truths = work.truths /\ work'.queues = work.queues
         /\ UNCHANGED <<forgotten, revoked, reader, factFaults, asked, secrets>>
  BY WorkPlan DEF Then

LEMMA FactJournalStep == FactInv /\ FactJournal => FactInv'
<1> SUFFICES ASSUME FactInv, FactJournal PROVE FactInv'
  OBVIOUS
<1> USE DEF FactInv
<1>1. /\ work.op = "journal" /\ work.op \in Planned /\ work.op # "unlink" /\ Then("facts")
      /\ UNCHANGED <<truth, proposals, audited, same, settled>> /\ journal' = PlanOf(work)
  BY DEF FactJournal, PlanOf, Planned
<1>2. /\ work'.op = "facts" /\ work'.fact = work.fact /\ work'.truths = work.truths /\ work'.queues = work.queues
      /\ UNCHANGED <<forgotten, revoked, reader, factFaults, asked, secrets>>
  BY <1>1, ThenOp DEF Planned
<1>3. StoreType'
  BY <1>1, WorkPlan, ThenOp DEF StoreType, FactTyped, Planned
<1>4. journal = NoJournal /\ truth = settled /\ truth = work.truths[1] /\ proposals = work.queues[1] /\ Recorded(proposals, audited)
  BY <1>1 DEF Progress, Clean
<1>5. Side' = 1
  BY <1>1, WorkPlan DEF Side
<1>6. Journalled'
  <2>1. Whole(PlanOf(work), forgotten, revoked)
    BY <1>1, WorkPlan DEF Whole
  <2> QED
    BY <1>1, <1>2, <1>4, <1>5, <2>1, WorkPlan DEF Journalled
<1>7. Progress' /\ Clean'
  <2>1. Whole(work', forgotten, revoked)
    BY <1>1, <1>2, WorkPlan DEF Whole
  <2> QED
    BY <1>1, <1>2, <2>1, WorkPlan DEF Progress, Clean, PlanOf, Planned, Writing, Undone
<1> QED
  BY <1>1, <1>2, <1>3, <1>6, <1>7, WorkPlan, StoreStep DEF FactTyped

LEMMA FactWriteStep == FactInv /\ FactWrite => FactInv'
<1> SUFFICES ASSUME FactInv, FactWrite PROVE FactInv'
  OBVIOUS
<1> USE DEF FactInv
<1>1. /\ work.op = "facts" /\ work.op \in Planned /\ work.op \in Writing /\ work.op # "unlink" /\ Then("candidates")
      /\ UNCHANGED <<proposals, journal, audited, same, settled>> /\ truth' = work.truths[2]
  BY DEF FactWrite, Planned, Writing
<1>2. /\ work'.op = "candidates" /\ work'.fact = work.fact /\ work'.truths = work.truths /\ work'.queues = work.queues
      /\ UNCHANGED <<forgotten, revoked, reader, factFaults, asked, secrets>>
  BY <1>1, ThenOp DEF Planned
<1>3. StoreType'
  BY <1>1, WorkPlan, ThenOp DEF StoreType, FactTyped, Planned
<1>4. journal = PlanOf(work) /\ journal # NoJournal
  BY <1>1, WorkPlan DEF Progress, PlanOf
<1>5. Journalled' /\ Clean'
  BY <1>1, <1>2, <1>4 DEF Journalled, Clean, Side
<1>6. Progress'
  <2>1. Whole(work', forgotten, revoked)
    BY <1>1, <1>2, WorkPlan DEF Whole
  <2> QED
    BY <1>1, <1>2, <1>4, <2>1, WorkPlan DEF Progress, PlanOf, Planned, Writing, Undone
<1>7. Versioned(truth')
  BY <1>1, WorkPlan DEF Whole, Consistent
<1> QED
  BY <1>1, <1>2, <1>3, <1>5, <1>6, <1>7, StoreStep DEF FactTyped

LEMMA CandidateWriteStep == FactInv /\ CandidateWrite => FactInv'
<1> SUFFICES ASSUME FactInv, CandidateWrite PROVE FactInv'
  OBVIOUS
<1> USE DEF FactInv
<1>1. /\ work.op = "candidates" /\ work.op \in Planned /\ work.op \in Writing /\ work.op # "unlink" /\ Then("audit")
      /\ UNCHANGED <<truth, journal, audited, same, settled>> /\ proposals' = work.queues[2]
  BY DEF CandidateWrite, Planned, Writing
<1>2. /\ work'.op = "audit" /\ work'.fact = work.fact /\ work'.truths = work.truths /\ work'.queues = work.queues
      /\ UNCHANGED <<forgotten, revoked, reader, factFaults, asked, secrets>>
  BY <1>1, ThenOp DEF Planned
<1>3. StoreType'
  BY <1>1, WorkPlan, ThenOp DEF StoreType, FactTyped, Planned
<1>4. journal = PlanOf(work) /\ journal # NoJournal
  BY <1>1, WorkPlan DEF Progress, PlanOf
<1>5. Journalled' /\ Clean'
  BY <1>1, <1>2, <1>4 DEF Journalled, Clean, Side
<1>6. Progress'
  <2>1. Whole(work', forgotten, revoked)
    BY <1>1, <1>2, WorkPlan DEF Whole
  <2> QED
    BY <1>1, <1>2, <1>4, <2>1, WorkPlan DEF Progress, PlanOf, Planned, Writing, Undone
<1> QED
  BY <1>1, <1>2, <1>3, <1>5, <1>6, StoreStep DEF FactTyped

LEMMA AuditStep == FactInv /\ Audit => FactInv'
<1> SUFFICES ASSUME FactInv, Audit PROVE FactInv'
  OBVIOUS
<1> USE DEF FactInv
<1>1. /\ work.op = "audit" /\ work.op \in Planned /\ work.op \in Writing /\ work.op # "unlink" /\ Then("recover")
      /\ UNCHANGED <<truth, proposals, journal, same>>
      /\ audited' = audited \cup {work.fact} /\ settled' = work.truths[2]
  BY DEF Audit, Planned, Writing
<1>2. /\ work'.op = "recover" /\ UNCHANGED <<forgotten, revoked, reader, factFaults, asked, secrets>>
  BY <1>1, ThenOp DEF Planned
<1>3. StoreType'
  BY <1>1, WorkPlan, ThenOp DEF StoreType, FactTyped, Planned
<1>4. journal = PlanOf(work) /\ journal # NoJournal
  BY <1>1, WorkPlan DEF Progress, PlanOf
<1>5. Side = 1 /\ Side' = 2
  BY <1>1, <1>4, WorkPlan DEF Side
<1>6. Recorded(work.queues[2], audited')
  <2>1. Recorded(work.queues[1], audited)
    BY <1>4, <1>5, <1>1, WorkPlan DEF Journalled
  <2>2. work.queues[2] = [work.queues[1] EXCEPT ![work.fact].status = "applied"]
    BY <1>1, WorkPlan DEF Whole
  <2>3. work.queues[1] \in Queues /\ work.fact \in Facts
    BY <1>1, WorkPlan
  <2>4. \A f \in Facts : work.queues[2][f].status = "applied" <=> f = work.fact \/ work.queues[1][f].status = "applied"
    BY <2>2, <2>3 DEF Queues, Entry
  <2> QED
    BY <1>1, <2>1, <2>4 DEF Recorded
<1>7. Whole(journal, forgotten, revoked)
  BY <1>4 DEF Journalled
<1>8. Journalled' /\ Clean'
  BY <1>1, <1>2, <1>4, <1>5, <1>6, <1>7, WorkPlan DEF Journalled, Clean
<1>9. Progress'
  BY <1>1, <1>2, <1>4 DEF Progress, Planned, Writing, Undone
<1>10. Consistent(settled', forgotten, revoked)
  BY <1>1, WorkPlan DEF Whole
<1> QED
  BY <1>1, <1>2, <1>3, <1>8, <1>9, <1>10, StoreStep DEF FactTyped
-----------------------------------------------------------------------------
(* Recovering, and failing.                                               *)
LEMMA JournalPlan ==
  ASSUME FactInv, journal # NoJournal
  PROVE  /\ journal \in Plan /\ Side \in {1, 2}
         /\ journal.truths[Side] \in Rows /\ journal.queues[Side] \in Queues
<1>1. journal \in Plan /\ Side \in {1, 2}
  BY DEF FactInv, FactTyped, Side
<1>2. /\ journal.truths[1] \in Rows /\ journal.truths[2] \in Rows
      /\ journal.queues[1] \in Queues /\ journal.queues[2] \in Queues
  BY <1>1 DEF Plan
<1> QED
  BY <1>1, <1>2

\* What takes or gives up the lock, or goes on with a recovery.
LEMMA Turns ==
  ASSUME FactInv, UNCHANGED <<factFiles, reader, asked, settled, secrets>>,
         factFaults' \in 0..MaxFactFaults, same' \in BOOLEAN,
         work' \in [op : Plain] \/ (work'.op = "recover" /\ work' = work),
         work'.op \in {"none", "recover", "facts again"},
         work'.op # "none" => journal # NoJournal,
         reader = NotReading \/ (same' => same),
         work'.op = "facts again" => reader = NotReading \/ ~same'
  PROVE  FactInv'
<1> USE DEF FactInv, factFiles
<1>1. StoreType'
  BY DEF FactTyped, StoreType
<1>2. Journalled' /\ Clean'
  BY DEF Journalled, Clean, Side
<1>3. Progress'
  BY DEF Progress, Planned, Writing, Undone
<1> QED
  BY <1>1, <1>2, <1>3, StoreStep

LEMMA FactRecoverStep == FactInv /\ FactRecover => FactInv'
<1> SUFFICES ASSUME FactInv, FactRecover PROVE FactInv'
  OBVIOUS
<1>1. work' \in [op : Plain] /\ work'.op = "recover"
  BY DEF FactRecover, Plain, Undone
<1> QED
  BY <1>1, Turns DEF FactRecover, FactInv, FactTyped, factFiles

LEMMA RecoverCountsStep == FactInv /\ RecoverCounts => FactInv'
<1> SUFFICES ASSUME FactInv, RecoverCounts PROVE FactInv'
  OBVIOUS
<1>1. work' \in [op : Plain] /\ work'.op = "facts again"
  BY DEF RecoverCounts, Plain, Undone
<1>2. journal # NoJournal
  BY DEF RecoverCounts, FactInv, Progress, Undone
<1> QED
  BY <1>1, <1>2, Turns DEF RecoverCounts, FactInv, FactTyped, Counted, factFiles

LEMMA RecoverReleasesStep == FactInv /\ RecoverReleases => FactInv'
<1> SUFFICES ASSUME FactInv, RecoverReleases PROVE FactInv'
  OBVIOUS
<1>1. work' \in [op : Plain] /\ work'.op = "none"
  BY DEF RecoverReleases, Unlocked, Plain
<1> QED
  BY <1>1, Turns DEF RecoverReleases, FactInv, FactTyped, Counted, factFiles

LEMMA FactFailsStep == FactInv /\ FactFails => FactInv'
<1> SUFFICES ASSUME FactInv, FactFails PROVE FactInv'
  OBVIOUS
<1>1. factFaults' \in 0..MaxFactFaults
  <2>1. factFaults < MaxFactFaults /\ factFaults' = factFaults + 1 /\ factFaults \in 0..MaxFactFaults
    BY DEF FactFails, FactInv, FactTyped
  <2> QED
    BY <2>1, FactAssumption
<1>2. work' \in [op : Plain] /\ work'.op \in {"none", "recover"}
  BY DEF FactFails, Unlocked, Plain, Undone
<1>3. work'.op = "recover" => journal # NoJournal
  <2>1. work.op \in Writing => work.op \in Planned
    BY DEF Writing, Planned
  <2>2. work'.op = "recover" => work.op \in Writing
    BY DEF FactFails, Unlocked, Writing
  <2>3. work.op \in Writing => journal = PlanOf(work)
    BY DEF FactInv, Progress, PlanOf
  <2> QED
    BY <2>1, <2>2, <2>3, WorkPlan
<1> QED
  BY <1>1, <1>2, <1>3, Turns DEF FactFails, FactInv, FactTyped, factFiles

LEMMA FactCrashStep == FactInv /\ FactCrash => FactInv'
<1> SUFFICES ASSUME FactInv, FactCrash PROVE FactInv'
  OBVIOUS
<1> USE DEF FactInv, FactCrash, factFiles
<1>1. factFaults' \in 0..MaxFactFaults
  BY FactAssumption DEF FactTyped
<1>2. work' \in [op : Plain] /\ work'.op = "none"
  BY DEF Unlocked, Plain
<1>3. FactTyped'
  BY <1>1, <1>2 DEF FactTyped, ReaderType
<1>4. Journalled' /\ Clean' /\ Progress'
  BY <1>2 DEF Journalled, Clean, Side, Progress, Planned, Writing, Undone
<1>5. reader' = NotReading /\ reader'.at = "idle"
  BY DEF NotReading
<1>6. ReadsWhole' /\ Withheld'
  BY <1>5 DEF ReadsWhole, Withheld, Covered
<1> QED
  BY <1>3, <1>4, <1>6

LEMMA RecoverFactsStep == FactInv /\ RecoverFacts => FactInv'
<1> SUFFICES ASSUME FactInv, RecoverFacts PROVE FactInv'
  OBVIOUS
<1> USE DEF FactInv, RecoverFacts
<1>1. work' \in [op : Plain] /\ work'.op = "candidates again"
  BY DEF Plain, Undone
<1>2. journal # NoJournal
  BY DEF Progress, Undone
<1>3. truth' = settled
  BY <1>2 DEF Journalled
<1>4. StoreType'
  BY <1>1, <1>3 DEF StoreType, FactTyped
<1>5. Journalled' /\ Clean' /\ Progress'
  BY <1>1, <1>2, <1>3 DEF Journalled, Clean, Side, Progress, Planned, Writing, Undone
<1> QED
  BY <1>1, <1>2, <1>3, <1>4, <1>5, StoreStep DEF FactTyped, Consistent

LEMMA RecoverCandidatesStep == FactInv /\ RecoverCandidates => FactInv'
<1> SUFFICES ASSUME FactInv, RecoverCandidates PROVE FactInv'
  OBVIOUS
<1> USE DEF FactInv, RecoverCandidates
<1>1. work' \in [op : Plain] /\ work'.op = "unlink"
  BY DEF Plain, Undone
<1>2. journal # NoJournal /\ truth = settled
  BY DEF Progress, Undone
<1>3. proposals' \in Queues /\ Recorded(proposals', audited)
  BY <1>2, JournalPlan DEF Journalled
<1>4. StoreType'
  BY <1>1, <1>3 DEF StoreType, FactTyped
<1>5. Journalled' /\ Clean' /\ Progress'
  BY <1>1, <1>2, <1>3 DEF Journalled, Clean, Side, Progress, Planned, Writing, Undone
<1> QED
  BY <1>1, <1>2, <1>3, <1>4, <1>5, StoreStep DEF FactTyped

LEMMA RecoverUnlinksStep == FactInv /\ RecoverUnlinks => FactInv'
<1> SUFFICES ASSUME FactInv, RecoverUnlinks PROVE FactInv'
  OBVIOUS
<1> USE DEF FactInv, RecoverUnlinks
<1>1. work' \in [op : Plain] /\ work'.op = "release" /\ work.op = "unlink"
  BY DEF Plain
<1>2. truth = settled /\ Recorded(proposals, audited)
  BY DEF Progress
<1>3. StoreType'
  BY <1>1 DEF StoreType, FactTyped
<1>4. Journalled' /\ Clean' /\ Progress'
  BY <1>1, <1>2 DEF Journalled, Clean, Progress, Planned, Writing, Undone
<1> QED
  BY <1>1, <1>3, <1>4, StoreStep DEF FactTyped
-----------------------------------------------------------------------------
LEMMA FactInvStep == FactInv /\ [FactNext]_factVars => FactInv'
<1> SUFFICES ASSUME FactInv, [FactNext]_factVars PROVE FactInv'
  OBVIOUS
<1>1. ASSUME NEW f \in Facts, Propose(f) \/ Approve(f) \/ Reject(f) \/ Forget({f}, {}, {}) PROVE FactInv'
  BY <1>1, ProposeStep, ApproveStep, RejectStep, ForgetStep
<1>2. ASSUME NEW o \in Sources, Revoke(o) \/ Forget({}, {o}, {}) PROVE FactInv'
  BY <1>2, RevokeStep, ForgetStep
<1>3. ASSUME NEW t \in Texts, Forget({}, {}, {t}) PROVE FactInv'
  BY <1>3, ForgetStep
<1>4. CASE FactJournal \/ FactWrite \/ CandidateWrite \/ Audit
  BY <1>4, FactJournalStep, FactWriteStep, CandidateWriteStep, AuditStep
<1>5. CASE FactRecover \/ RecoverCounts \/ RecoverFacts \/ RecoverCandidates \/ RecoverUnlinks \/ RecoverReleases
  BY <1>5, FactRecoverStep, RecoverCountsStep, RecoverFactsStep, RecoverCandidatesStep, RecoverUnlinksStep,
     RecoverReleasesStep
<1>6. CASE FactFails \/ FactCrash
  BY <1>6, FactFailsStep, FactCrashStep
<1>7. CASE ReadBegins \/ ReadFacts \/ ReadForgotten \/ ReadRevoked \/ ReadEnds
  BY <1>7, ReadBeginsStep, ReadFactsStep, ReadForgottenStep, ReadRevokedStep, ReadEndsStep
<1>8. CASE UNCHANGED factVars
  <2>1. ReaderType' /\ ReadsWhole' /\ Withheld' /\ same' \in BOOLEAN
    BY <1>8 DEF factVars, factFiles, FactInv, FactTyped, ReaderType, ReadsWhole, Withheld, Covered
  <2> QED
    BY <1>8, <2>1, ReaderStep DEF factVars
<1> QED
  BY <1>1, <1>2, <1>3, <1>4, <1>5, <1>6, <1>7, <1>8 DEF FactNext

\* For any candidates and any evidence, whatever they correct or contradict, whatever fails or
\* crashes, and whatever is forgotten and revoked meanwhile: an approval is whole or has
\* not happened, also for who reads without the lock; and what is shown neither contradicts
\* itself nor rests on what was forgotten or withdrawn before one asked.
THEOREM FactAlwaysSafe == FactSpec => []FactSafe
<1>1. FactInv => FactSafe
  <2> SUFFICES ASSUME FactInv PROVE FactSafe
    OBVIOUS
  <2> USE DEF FactInv
  <2>1. FactTypeOK
    <3>1. journal.fact \in Facts \cup {NoFact}
      BY DEF FactTyped, NoJournal, Plan
    <3>2. reader.at \in {"idle", "facts", "forgotten", "revoked", "check"}
      BY DEF FactTyped, ReaderType, NotReading
    <3> QED
      BY <3>1, <3>2 DEF FactTypeOK, FactTyped, Rows, Queues, Entry, Barrier, Versioned
  <2>2. LockReady => truth = settled /\ Recorded(proposals, audited)
    BY DEF LockReady, Clean
  <2>3. FactAllOrNone /\ FactOneValue
    BY <2>2 DEF FactAllOrNone, FactOneValue, Recorded, Consistent, OneValue
  <2>4. FactReadWhole
    BY DEF FactReadWhole, ReadAnswered, Undisturbed, ReadsWhole
  <2>5. FactForgotten
    BY DEF FactForgotten, ReadAnswered, Withheld
  <2> QED
    BY <2>1, <2>3, <2>4, <2>5 DEF FactSafe
<1> QED
  BY <1>1, FactInvInit, FactInvStep, PTL DEF FactSpec
-----------------------------------------------------------------------------
(***************************************************************************)
(* The processing of observations. The invariant says what a run under way *)
(* has in hand, which cursors it will move, and what else will look at an  *)
(* observation.                                                            *)
(***************************************************************************)

\* A run that has yet to hand its observations out, or to write its cursors.
RunGoes == run.at \in {"deterministic", "llm", "write"}

\* Of any observations in the store there is one of the first workspace, and a last one.
OrderOK ==
  \A T \in SUBSET stored : T # {} =>
    /\ \E o \in T : \A p \in T : Of[o] <= Of[p]
    /\ \E o \in T : \A p \in T : p = o \/ Later(o, p)

\* A run holds what it saw beyond the cursors, a workspace as a whole, and has not moved
\* the cursor of a workspace that it holds.
RunOK ==
  /\ run.todo \subseteq run.seen /\ run.seen \subseteq stored
  /\ run.at \in {"deterministic", "llm"} <=> run.todo # {}
  /\ ~RunGoes => run.seen = {}
  /\ \A o \in run.todo : run.next[Of[o]] = cursor[Of[o]]
  /\ \A o \in run.todo : \A p \in run.seen : Of[p] = Of[o] => p \in run.todo
  /\ \A o \in run.seen : Beyond(o)

\* The cursors it is to write are those it read, or of observations it saw.
NextOK ==
  RunGoes => \A w \in Workspaces :
    run.next[w] = cursor[w] \/ (run.next[w] \in run.seen /\ Of[run.next[w]] = w)

\* A run will move a cursor past it.
PassedBy(o) == RunGoes /\ o \in run.seen /\ ~IsAfterCursor(o, run.next[Of[o]])
PassedOK == \A o \in run.seen : PassedBy(o) => o \in planned

\* What was planned is passed by the run that did so, or was failed.
PlannedOK ==
  \A o \in planned : Beyond(o) =>
    /\ RunGoes => o \in run.seen
    /\ o \in excused \/ PassedBy(o)

Woken(o) ==
  \/ o \in unannounced \/ Of[o] \in timers
  \/ \E i \in DOMAIN queue : queue[i] \in {Of[o], All}

\* What was stored since a run read the store has a wakeup of its own.
WokenOK ==
  /\ ~up => stored \subseteq excused
  /\ up => \A o \in stored : Beyond(o) /\ o \notin excused => Woken(o) \/ o \in run.todo \/ PassedBy(o)

QueueInv == TypeOK /\ OrderOK /\ RunOK /\ NextOK /\ PassedOK /\ PlannedOK /\ WokenOK
-----------------------------------------------------------------------------
LEMMA LaterOrders ==
  ASSUME NEW o \in Observations, NEW p \in Observations
  PROVE  /\ ~(Later(o, p) /\ Later(p, o)) /\ ~Later(o, o)
         /\ o = p \/ Later(o, p) \/ Later(p, o)
         /\ \A q \in Observations : Later(o, p) /\ Later(p, q) => Later(o, q)
<1>1. /\ \A q \in Observations : CreatedAt[q] \in Nat
      /\ \A q \in Observations : q \in Nat
  BY KnowledgeAssumption
<1> QED
  BY <1>1 DEF Later

LEMMA BatchFacts ==
  ASSUME TypeOK, OrderOK, run.todo # {}, run.todo \subseteq stored
  PROVE  /\ Turn \in Workspaces /\ Batch \subseteq run.todo /\ Batch # {}
         /\ \A o \in run.todo : o \in Batch <=> Of[o] = Turn
         /\ Last(Batch) \in Batch
         /\ \A p \in Batch : ~IsAfterCursor(p, Last(Batch))
<1>1. \A o \in run.todo : o \in Observations /\ Of[o] \in Workspaces
  BY KnowledgeAssumption DEF TypeOK
<1>2. PICK f \in run.todo : \A p \in run.todo : Of[f] <= Of[p]
  BY DEF OrderOK
<1>3. \E w \in Workspaces : (\E o \in run.todo : Of[o] = w) /\ \A o \in run.todo : w <= Of[o]
  BY <1>1, <1>2
<1>4. Turn \in Workspaces /\ \E o \in run.todo : Of[o] = Turn
  BY <1>3 DEF Turn
<1>5. /\ Batch \subseteq run.todo /\ Batch # {}
      /\ \A o \in run.todo : o \in Batch <=> Of[o] = Turn
  BY <1>4 DEF Batch
<1> HIDE DEF Batch
<1>6. \E o \in Batch : \A p \in Batch : p = o \/ Later(o, p)
  BY <1>5 DEF OrderOK
<1>7. Last(Batch) \in Batch /\ \A p \in Batch : p = Last(Batch) \/ Later(Last(Batch), p)
  BY <1>6 DEF Last
<1>8. ASSUME NEW p \in Batch PROVE ~IsAfterCursor(p, Last(Batch))
  <2>1. p \in Observations /\ Last(Batch) \in Observations
    BY <1>1, <1>5, <1>7
  <2>2. Last(Batch) # None
    BY <2>1, KnowledgeAssumption
  <2> QED
    BY <2>1, <2>2, <1>7, LaterOrders DEF IsAfterCursor
<1> QED
  BY <1>4, <1>5, <1>7, <1>8

LEMMA QueueInvInit == Init => QueueInv
<1> SUFFICES ASSUME Init PROVE QueueInv
  OBVIOUS
<1> USE KnowledgeAssumption DEF Init
<1>1. Idle \in Runs
  BY DEF Idle, Runs, Cursors
<1>2. queue \in Seq(Jobs) /\ cursor \in Cursors
  BY EmptySeq DEF Cursors
<1>3. TypeOK
  <2>1. 0 \in 0..(Threshold - 1)
    OBVIOUS
  <2>2. count \in [Workspaces -> 0..(Threshold - 1)] /\ timers = {w \in Workspaces : count[w] > 0}
    BY <2>1
  <2> QED
    BY <1>1, <1>2, <2>2 DEF TypeOK
<1>4. OrderOK /\ RunOK /\ NextOK /\ PassedOK
  BY DEF OrderOK, RunOK, NextOK, PassedOK, RunGoes, Idle
<1>5. PlannedOK /\ WokenOK
  BY DEF PlannedOK, WokenOK
<1> QED
  BY <1>3, <1>4, <1>5 DEF QueueInv
-----------------------------------------------------------------------------
(* What starts a run.                                                     *)
LEMMA EnqueueFacts ==
  ASSUME queue \in Seq(Jobs), NEW jo \in Jobs, Enqueue(jo)
  PROVE  /\ queue' \in Seq(Jobs)
         /\ \E i \in DOMAIN queue' : queue'[i] = jo
         /\ \A i \in DOMAIN queue : i \in DOMAIN queue' /\ queue'[i] = queue[i]
<1>1. /\ queue' \in Seq(Jobs) /\ DOMAIN queue' = 1..(Len(queue) + 1) /\ DOMAIN queue = 1..Len(queue)
      /\ Len(queue) \in Nat /\ queue'[Len(queue) + 1] = jo
      /\ \A i \in 1..Len(queue) : queue'[i] = queue[i]
  BY LenProperties, AppendProperties DEF Enqueue
<1> QED
  BY <1>1

LEMMA DisarmFacts ==
  ASSUME TypeOK, NEW w \in Workspaces, Disarm(w)
  PROVE  /\ count' \in [Workspaces -> 0..(Threshold - 1)]
         /\ timers' = {v \in Workspaces : count'[v] > 0}
         /\ timers' = timers \ {w}
<1>1. 0 \in 0..(Threshold - 1)
  BY KnowledgeAssumption
<1>2. \A v \in Workspaces : count'[v] = IF v = w THEN 0 ELSE count[v]
  BY DEF Disarm, TypeOK
<1>3. count' \in [Workspaces -> 0..(Threshold - 1)]
  BY <1>1 DEF Disarm, TypeOK
<1> QED
  BY <1>2, <1>3 DEF Disarm, TypeOK

\* Everything but the wakeups is left alone.
LEMMA WakeFrame ==
  ASSUME QueueInv, UNCHANGED <<stored, cursor, planned, processVars, run, excused>>,
         unannounced' \subseteq unannounced, queue' \in Seq(Jobs),
         count' \in [Workspaces -> 0..(Threshold - 1)],
         timers' = {v \in Workspaces : count'[v] > 0},
         \A o \in stored : Woken(o) => Woken(o)'
  PROVE  QueueInv'
<1> USE DEF processVars
<1>1. TypeOK'
  BY DEF QueueInv, TypeOK
<1>2. \A o : Beyond(o)' <=> Beyond(o)
  BY DEF Beyond
<1>3. \A o : PassedBy(o)' <=> PassedBy(o)
  BY DEF PassedBy, RunGoes
<1>4. OrderOK' /\ RunOK' /\ NextOK'
  BY DEF QueueInv, OrderOK, RunOK, NextOK, RunGoes, Beyond
<1>5. PassedOK' /\ PlannedOK'
  BY <1>2, <1>3 DEF QueueInv, PassedOK, PlannedOK, RunGoes
<1>6. WokenOK'
  BY <1>2, <1>3 DEF QueueInv, WokenOK
<1> QED
  BY <1>1, <1>4, <1>5, <1>6 DEF QueueInv

\* A queued job stands in for the timer of its workspace.
LEMMA QueuedWakes ==
  ASSUME QueueInv, NEW jo \in Jobs, Enqueue(jo), unannounced' \subseteq unannounced,
         \A o \in unannounced \ unannounced' : Of[o] = jo,
         \A v \in timers \ timers' : v = jo
  PROVE  \A o \in stored : Woken(o) => Woken(o)'
<1>1. queue \in Seq(Jobs)
  BY DEF QueueInv, TypeOK
<1>2. PICK k \in DOMAIN queue' : queue'[k] = jo
  BY <1>1, EnqueueFacts
<1>3. \A i \in DOMAIN queue : i \in DOMAIN queue' /\ queue'[i] = queue[i]
  BY <1>1, EnqueueFacts
<1> QED
  BY <1>2, <1>3 DEF Woken

LEMMA CaptureStep == ASSUME QueueInv, NEW o \in Observations, Capture(o) PROVE QueueInv'
<1> USE DEF Capture, processVars, timerVars, QueueInv
<1>1. TypeOK'
  BY DEF TypeOK
<1>2. \A p : (Beyond(p)' <=> Beyond(p)) /\ (PassedBy(p)' <=> PassedBy(p))
  BY DEF Beyond, PassedBy, RunGoes
<1>3. OrderOK'
  <2> SUFFICES ASSUME NEW T \in SUBSET stored', T # {}
               PROVE  /\ \E q \in T : \A p \in T : Of[q] <= Of[p]
                      /\ \E q \in T : \A p \in T : p = q \/ Later(q, p)
    BY DEF OrderOK
  <2>1. /\ T \subseteq Observations /\ T \ {o} \subseteq stored
        /\ \A p \in T : Of[p] \in Nat
    BY KnowledgeAssumption DEF TypeOK
  <2>2. CASE T \ {o} = {}
    <3>1. T = {o}
      BY <2>2
    <3> QED
      BY <3>1, <2>1
  <2>3. CASE T \ {o} # {}
    <3>1. PICK f \in T \ {o} : \A p \in T \ {o} : Of[f] <= Of[p]
      BY <2>1, <2>3 DEF OrderOK
    <3>2. PICK l \in T \ {o} : \A p \in T \ {o} : p = l \/ Later(l, p)
      BY <2>1, <2>3 DEF OrderOK
    <3>3. \E q \in T : \A p \in T : Of[q] <= Of[p]
      <4>1. CASE o \in T /\ Of[o] <= Of[f]
        BY <4>1, <3>1, <2>1
      <4>2. CASE ~(o \in T /\ Of[o] <= Of[f])
        BY <4>2, <3>1, <2>1
      <4> QED
        BY <4>1, <4>2
    <3>4. \E q \in T : \A p \in T : p = q \/ Later(q, p)
      <4>1. CASE o \in T /\ Later(o, l)
        <5>1. \A p \in T : p = o \/ Later(o, p)
          BY <4>1, <3>2, <2>1, LaterOrders
        <5> QED
          BY <5>1, <4>1
      <4>2. CASE ~(o \in T /\ Later(o, l))
        <5>1. \A p \in T : p = l \/ Later(l, p)
          BY <4>2, <3>2, <2>1, LaterOrders
        <5> QED
          BY <5>1
      <4> QED
        BY <4>1, <4>2
    <3> QED
      BY <3>3, <3>4
  <2> QED
    BY <2>2, <2>3
<1>4. RunOK' /\ NextOK'
  BY DEF RunOK, NextOK, RunGoes, Beyond
<1>5. PassedOK' /\ PlannedOK'
  BY <1>2 DEF PassedOK, PlannedOK, RunGoes
<1>6. WokenOK'
  BY <1>2 DEF WokenOK, Woken
<1> QED
  BY <1>1, <1>3, <1>4, <1>5, <1>6

LEMMA AnnounceStep == ASSUME QueueInv, NEW o \in Observations, Announce(o) PROVE QueueInv'
<1> USE DEF Announce, processVars
<1> DEFINE w == Of[o]
<1>1. TypeOK /\ w \in Workspaces /\ w \in Jobs /\ unannounced' = unannounced \ {o} /\ Schedule(w)
  BY KnowledgeAssumption DEF QueueInv, Jobs
<1>2. CASE count[w] + 1 >= Threshold
  <2>1. Disarm(w) /\ Enqueue(w)
    BY <1>1, <1>2 DEF Schedule
  <2>2. timers' = timers \ {w} /\ queue' \in Seq(Jobs)
    BY <1>1, <2>1, DisarmFacts, EnqueueFacts DEF TypeOK
  <2>3. \A p \in stored : Woken(p) => Woken(p)'
    BY <1>1, <2>1, <2>2, QueuedWakes
  <2> QED
    BY <1>1, <2>1, <2>2, <2>3, DisarmFacts, WakeFrame
<1>3. CASE ~(count[w] + 1 >= Threshold)
  <2>1. count' = [count EXCEPT ![w] = @ + 1] /\ timers' = timers \cup {w} /\ queue' = queue
    BY <1>1, <1>3 DEF Schedule
  <2>2. count[w] \in 0..(Threshold - 1) /\ count[w] + 1 \in 0..(Threshold - 1) /\ count[w] + 1 > 0
    <3>1. count[w] \in 0..(Threshold - 1) /\ Threshold \in Nat
      BY <1>1, KnowledgeAssumption DEF TypeOK
    <3> QED
      BY <3>1, <1>3
  <2>3. count' \in [Workspaces -> 0..(Threshold - 1)]
    BY <1>1, <2>1, <2>2 DEF TypeOK
  <2>4. \A v \in Workspaces : count'[v] = IF v = w THEN count[w] + 1 ELSE count[v]
    BY <1>1, <2>1 DEF TypeOK
  <2>5. timers' = {v \in Workspaces : count'[v] > 0}
    BY <1>1, <2>1, <2>2, <2>4 DEF TypeOK
  <2>6. \A p \in stored : Woken(p) => Woken(p)'
    BY <1>1, <2>1 DEF Woken
  <2> QED
    BY <1>1, <2>1, <2>3, <2>5, <2>6, WakeFrame DEF TypeOK
<1> QED
  BY <1>2, <1>3

LEMMA TimerStep == ASSUME QueueInv, NEW w \in Workspaces, TimerFires(w) PROVE QueueInv'
<1>1. TypeOK /\ w \in Jobs /\ Disarm(w) /\ Enqueue(w)
  BY DEF QueueInv, Jobs, TimerFires
<1>2. timers' = timers \ {w} /\ queue' \in Seq(Jobs) /\ unannounced' = unannounced
  BY <1>1, DisarmFacts, EnqueueFacts DEF TypeOK, TimerFires
<1>3. \A p \in stored : Woken(p) => Woken(p)'
  BY <1>1, <1>2, QueuedWakes
<1> QED
  BY <1>1, <1>2, <1>3, DisarmFacts, WakeFrame DEF TimerFires

LEMMA AskStep == ASSUME QueueInv, NEW jo \in Jobs, Ask(jo) PROVE QueueInv'
<1>1. TypeOK /\ Enqueue(jo) /\ unannounced' = unannounced
  BY DEF QueueInv, Ask
<1>2. queue' \in Seq(Jobs)
  BY <1>1, EnqueueFacts DEF TypeOK
<1>3. /\ count' \in [Workspaces -> 0..(Threshold - 1)] /\ timers' = {v \in Workspaces : count'[v] > 0}
      /\ \A v \in timers \ timers' : v = jo
  <2>1. CASE jo = All
    BY <2>1, <1>1 DEF Ask, timerVars, TypeOK
  <2>2. CASE jo # All
    <3>1. jo \in Workspaces /\ Disarm(jo)
      BY <2>2 DEF Ask, Jobs
    <3> QED
      BY <3>1, <1>1, DisarmFacts
  <2> QED
    BY <2>1, <2>2
<1>4. \A p \in stored : Woken(p) => Woken(p)'
  BY <1>1, <1>3, QueuedWakes
<1> QED
  BY <1>1, <1>2, <1>3, <1>4, WakeFrame DEF Ask
-----------------------------------------------------------------------------
(* A run.                                                                 *)
\* What a run does that moves no cursor and plans nothing: it goes on with less, which
\* it has failed, or ends, having failed all it held.
LEMMA RunDrops ==
  ASSUME QueueInv, UNCHANGED <<RunFrame, cursor, planned, queue>>, up,
         run' \in Runs, RunOK', NextOK',
         excused \subseteq excused', excused' \subseteq stored,
         \A o \in run.todo : o \in run'.todo \/ o \in excused',
         \A o \in run.seen : PassedBy(o) => PassedBy(o)' \/ o \in excused',
         \A o \in run'.seen : o \in run.seen /\ (PassedBy(o)' => PassedBy(o)),
         RunGoes' => RunGoes /\ run'.seen = run.seen
  PROVE  QueueInv'
<1> USE DEF RunFrame, processVars, timerVars, QueueInv
<1>1. TypeOK'
  BY DEF TypeOK
<1>2. \A o : (Beyond(o)' <=> Beyond(o)) /\ (Woken(o)' <=> Woken(o))
  BY DEF Beyond, Woken
<1>3. OrderOK' /\ PassedOK'
  BY DEF OrderOK, PassedOK
<1>4. PlannedOK'
  <2> SUFFICES ASSUME NEW o \in planned, Beyond(o)
               PROVE  (RunGoes' => o \in run'.seen) /\ (o \in excused' \/ PassedBy(o)')
    BY <1>2 DEF PlannedOK
  <2>1. (RunGoes => o \in run.seen) /\ (o \in excused \/ PassedBy(o))
    BY DEF PlannedOK
  <2>2. PassedBy(o) => o \in run.seen
    BY DEF PassedBy
  <2> QED
    BY <2>1, <2>2
<1>5. WokenOK'
  <2>1. \A o : PassedBy(o) => o \in run.seen
    BY DEF PassedBy
  <2> QED
    BY <1>2, <2>1 DEF WokenOK
<1> QED
  BY <1>1, <1>3, <1>4, <1>5

LEMMA StartRunStep == ASSUME QueueInv, StartRun PROVE QueueInv'
<1> USE DEF RunFrame, processVars, timerVars, QueueInv
<1> DEFINE jo == Head(queue)
           S == {o \in stored : jo \in {Of[o], All} /\ Pending(o)}
           N == {o \in stored : Pending(o)}
<1>1. /\ up /\ run.at = "idle" /\ queue # <<>> /\ queue' = Tail(queue)
      /\ run' = [at |-> IF S = {} THEN "write" ELSE "deterministic", todo |-> S, next |-> cursor, seen |-> N]
      /\ UNCHANGED <<stored, unannounced, up, crashes, count, timers, cursor, planned, excused>>
  BY DEF StartRun, ReadCursors
<1>2. /\ run'.at = (IF S = {} THEN "write" ELSE "deterministic")
      /\ run'.todo = S /\ run'.next = cursor /\ run'.seen = N
  BY <1>1
<1>3. \A o : (Beyond(o)' <=> Beyond(o)) /\ (Beyond(o) <=> Pending(o)) /\ ~PassedBy(o)
  BY <1>1 DEF Beyond, Pending, PassedBy, RunGoes
<1>4. /\ jo \in Jobs /\ Tail(queue) \in Seq(Jobs)
      /\ \A i \in DOMAIN queue : queue[i] = jo \/ \E j \in DOMAIN Tail(queue) : Tail(queue)[j] = queue[i]
  <2>1. /\ queue \in Seq(Jobs) /\ queue # <<>>
    BY <1>1 DEF TypeOK
  <2>2. /\ Head(queue) = queue[1] /\ Head(queue) \in Jobs /\ Tail(queue) \in Seq(Jobs)
        /\ DOMAIN queue = 1..Len(queue) /\ DOMAIN Tail(queue) = 1..(Len(queue) - 1) /\ Len(queue) \in Nat
        /\ \A j \in 1..(Len(queue) - 1) : Tail(queue)[j] = queue[j + 1]
    BY <2>1, HeadTailProperties, LenProperties
  <2>3. ASSUME NEW i \in DOMAIN queue, i # 1 PROVE \E j \in DOMAIN Tail(queue) : Tail(queue)[j] = queue[i]
    <3>1. i - 1 \in 1..(Len(queue) - 1) /\ (i - 1) + 1 = i
      BY <2>2, <2>3
    <3> QED
      BY <3>1, <2>2
  <2> QED
    BY <2>2, <2>3
<1> HIDE DEF S, N, jo
<1>5. /\ S \subseteq N /\ N \subseteq stored /\ (\A o \in N : Beyond(o)) /\ (\A o \in stored : Beyond(o) => o \in N)
      /\ \A o \in N : (jo \in {Of[o], All}) <=> o \in S
  BY <1>3 DEF S, N
<1>6. TypeOK'
  <2>1. run' \in Runs
    BY <1>1, <1>5 DEF Runs, TypeOK
  <2> QED
    BY <1>1, <1>4, <2>1 DEF TypeOK
<1>7. OrderOK' /\ NextOK'
  BY <1>1, <1>2 DEF OrderOK, NextOK
<1>8. RunOK'
  <2>1. \A o \in S : \A p \in N : Of[p] = Of[o] => p \in S
    BY <1>5
  <2> QED
    BY <1>1, <1>2, <1>3, <1>5, <2>1 DEF RunOK, RunGoes
<1>9. \A o \in stored : Beyond(o) => ~PassedBy(o)'
  BY <1>1, <1>2 DEF PassedBy, Beyond
<1>10. PassedOK' /\ PlannedOK'
  <2>1. \A o \in planned : Beyond(o) => o \in excused
    BY <1>3 DEF PlannedOK
  <2>2. planned \subseteq stored
    BY DEF TypeOK
  <2> QED
    BY <1>1, <1>2, <1>3, <1>5, <1>9, <2>1, <2>2 DEF PassedOK, PlannedOK
<1>11. WokenOK'
  <2> SUFFICES ASSUME NEW o \in stored, Beyond(o), o \notin excused
               PROVE  Woken(o)' \/ o \in S
    BY <1>1, <1>2, <1>3 DEF WokenOK
  <2>1. Woken(o) \/ o \in run.todo
    BY <1>1, <1>3 DEF WokenOK
  <2>2. run.todo = {}
    BY <1>1 DEF RunOK
  <2>3. CASE o \in unannounced \/ Of[o] \in timers
    BY <2>3, <1>1 DEF Woken
  <2>4. CASE \E i \in DOMAIN queue : queue[i] \in {Of[o], All}
    <3>1. PICK i \in DOMAIN queue : queue[i] \in {Of[o], All}
      BY <2>4
    <3>2. CASE queue[i] = jo
      BY <3>1, <3>2, <1>5
    <3>3. CASE queue[i] # jo
      BY <3>1, <3>3, <1>1, <1>4 DEF Woken
    <3> QED
      BY <3>2, <3>3
  <2> QED
    BY <2>1, <2>2, <2>3, <2>4 DEF Woken
<1> QED
  BY <1>6, <1>7, <1>8, <1>10, <1>11

\* The batch of a workspace leaves what the run holds.
LEMMA ProceedFacts ==
  ASSUME QueueInv, run.at \in {"deterministic", "llm"}, NEW c \in Cursors, Proceed(run.todo \ Batch, c)
  PROVE  /\ run.todo # {} /\ run' \in Runs /\ run'.todo = run.todo \ Batch /\ run'.next = c /\ run'.seen = run.seen
         /\ run'.at \in {"write", "deterministic"} /\ (run'.at = "deterministic" <=> run'.todo # {})
         /\ \A o \in run'.todo : Of[o] # Turn
<1>1. run \in Runs /\ run.todo # {} /\ run.todo \subseteq stored /\ TypeOK /\ OrderOK
  BY DEF QueueInv, TypeOK, RunOK
<1>2. \A o \in run.todo : o \in Batch <=> Of[o] = Turn
  BY <1>1, BatchFacts
<1> HIDE DEF Batch
<1>3. /\ run'.todo = run.todo \ Batch /\ run'.next = c /\ run'.seen = run.seen
      /\ run'.at = IF run.todo \ Batch = {} THEN "write" ELSE "deterministic"
  BY <1>1 DEF Proceed, Runs
<1>4. run' \in Runs
  BY <1>1 DEF Proceed, Runs
<1> QED
  BY <1>1, <1>2, <1>3, <1>4

LEMMA FailedStep ==
  ASSUME QueueInv, up, run.at \in {"deterministic", "llm"}, Proceed(run.todo \ Batch, run.next),
         excused' = excused \cup Batch, UNCHANGED <<RunFrame, cursor, planned, queue>>
  PROVE  QueueInv'
<1>1. run.next \in Cursors /\ run.todo \subseteq stored /\ excused \subseteq stored
  BY DEF QueueInv, TypeOK, RunOK, Runs
<1>2. /\ run.todo # {} /\ run' \in Runs /\ run'.todo = run.todo \ Batch /\ run'.next = run.next /\ run'.seen = run.seen
      /\ run'.at \in {"write", "deterministic"} /\ (run'.at = "deterministic" <=> run'.todo # {})
      /\ \A o \in run'.todo : Of[o] # Turn
  BY <1>1, ProceedFacts
<1>3. Batch \subseteq run.todo /\ \A o \in run.todo : o \in Batch <=> Of[o] = Turn
  BY <1>1, <1>2, BatchFacts DEF QueueInv
<1> HIDE DEF Batch
<1>4. RunGoes /\ RunGoes'
  BY <1>2 DEF RunGoes
<1>5. RunOK'
  <2>1. \A o \in run'.todo : \A p \in run'.seen : Of[p] = Of[o] => p \in run'.todo
    BY <1>2, <1>3 DEF QueueInv, RunOK
  <2> QED
    BY <1>2, <1>4, <2>1 DEF QueueInv, RunOK, RunFrame, Beyond
<1>6. NextOK'
  BY <1>2, <1>4 DEF QueueInv, NextOK
<1>7. \A o : PassedBy(o)' <=> PassedBy(o)
  BY <1>2, <1>4 DEF PassedBy
<1> QED
  BY <1>1, <1>2, <1>3, <1>4, <1>5, <1>6, <1>7, RunDrops

LEMMA DeterministicStep == ASSUME QueueInv, DeterministicStage PROVE QueueInv'
<1>1. run \in Runs /\ excused \subseteq stored
  BY DEF QueueInv, TypeOK
<1>2. /\ run' \in Runs /\ run'.at = "llm" /\ run'.todo = run.todo /\ run'.next = run.next /\ run'.seen = run.seen
  BY <1>1 DEF DeterministicStage, Runs
<1>3. RunGoes /\ RunGoes'
  BY <1>2 DEF RunGoes, DeterministicStage
<1>4. RunOK'
  BY <1>2, <1>3 DEF QueueInv, RunOK, RunFrame, Beyond, DeterministicStage
<1>5. NextOK'
  BY <1>2, <1>3 DEF QueueInv, NextOK, DeterministicStage
<1>6. \A o : PassedBy(o)' <=> PassedBy(o)
  BY <1>2, <1>3 DEF PassedBy
<1> QED
  BY <1>1, <1>2, <1>3, <1>4, <1>5, <1>6, RunDrops DEF DeterministicStage

LEMMA AbortStep == ASSUME QueueInv, Abort PROVE QueueInv'
<1>1. excused \subseteq stored /\ run.todo \subseteq run.seen /\ run.seen \subseteq stored
  BY DEF QueueInv, TypeOK, RunOK
<1>2. /\ run' \in Runs /\ run'.at = "idle" /\ run'.todo = {} /\ run'.seen = {}
  BY KnowledgeAssumption DEF Abort, Idle, Runs, Cursors
<1>3. ~RunGoes'
  BY <1>2 DEF RunGoes
<1>4. RunOK' /\ NextOK'
  BY <1>2, <1>3 DEF RunOK, NextOK
<1>5. excused' = excused \cup InRun /\ InRun \subseteq run.seen /\ run.todo \subseteq InRun
  BY <1>1 DEF Abort, InRun
<1>6. ASSUME NEW o \in run.seen, PassedBy(o) PROVE o \in InRun
  <2>1. run.next[Of[o]] # cursor[Of[o]]
    BY <1>6 DEF PassedBy, QueueInv, RunOK, Beyond
  <2> QED
    BY <2>1 DEF InRun
<1> QED
  BY <1>1, <1>2, <1>3, <1>4, <1>5, <1>6, RunDrops DEF Abort

LEMMA EndRunStep == ASSUME QueueInv, EndRun PROVE QueueInv'
<1>1. excused \subseteq stored /\ run.todo = {} /\ run.seen = {}
  BY DEF QueueInv, TypeOK, RunOK, RunGoes, EndRun
<1>2. /\ run' \in Runs /\ run'.at = "idle" /\ run'.todo = {} /\ run'.seen = {}
  BY KnowledgeAssumption DEF EndRun, Idle, Runs, Cursors
<1>3. ~RunGoes'
  BY <1>2 DEF RunGoes
<1>4. RunOK' /\ NextOK'
  BY <1>2, <1>3 DEF RunOK, NextOK
<1> QED
  BY <1>1, <1>2, <1>3, <1>4, RunDrops DEF EndRun

LEMMA LlmStep == ASSUME QueueInv, LlmStage PROVE QueueInv'
<1> USE DEF RunFrame, processVars, timerVars, QueueInv
<1> DEFINE l == Last(Batch)
           c == [run.next EXCEPT ![Turn] = l]
<1>1. /\ run.next \in Cursors /\ run.todo \subseteq run.seen /\ run.seen \subseteq stored /\ run.todo # {}
      /\ stored \subseteq Observations /\ RunGoes /\ run \in Runs
  BY DEF TypeOK, RunOK, Runs, LlmStage, RunGoes
<1>2. /\ Turn \in Workspaces /\ Batch \subseteq run.todo /\ Batch # {}
      /\ \A o \in run.todo : o \in Batch <=> Of[o] = Turn
      /\ l \in Batch /\ \A p \in Batch : ~IsAfterCursor(p, l)
  BY <1>1, BatchFacts
<1>3. /\ planned' = planned \cup Batch /\ Proceed(run.todo \ Batch, c) /\ up
      /\ UNCHANGED <<stored, unannounced, up, crashes, count, timers, cursor, queue, excused>>
  BY DEF LlmStage
<1> HIDE DEF Batch, l
<1>4. c \in Cursors /\ (\A w \in Workspaces : c[w] = IF w = Turn THEN l ELSE run.next[w])
  BY <1>1, <1>2 DEF Cursors
<1> HIDE DEF c
<1>5. /\ run' \in Runs /\ run'.todo = run.todo \ Batch /\ run'.next = c /\ run'.seen = run.seen
      /\ run'.at \in {"write", "deterministic"} /\ (run'.at = "deterministic" <=> run'.todo # {})
      /\ \A o \in run'.todo : Of[o] # Turn
  BY <1>3, <1>4, ProceedFacts DEF Batch, LlmStage
<1>6. RunGoes'
  BY <1>5 DEF RunGoes
<1>7. \A o : Beyond(o)' <=> Beyond(o)
  BY <1>3 DEF Beyond
<1>8. \A o \in run.seen : o \in Observations /\ Of[o] \in Workspaces
  BY <1>1, KnowledgeAssumption
<1>9. \A o \in run.seen : (Of[o] = Turn <=> o \in Batch)
  BY <1>1, <1>2 DEF RunOK
<1>10. ASSUME NEW o \in run.seen PROVE PassedBy(o)' <=> (o \in Batch \/ PassedBy(o))
  <2>1. CASE o \in Batch
    <3>1. run'.next[Of[o]] = l /\ ~IsAfterCursor(o, l)
      BY <2>1, <1>2, <1>4, <1>5, <1>8, <1>9
    <3> QED
      BY <3>1, <1>5, <1>6, <2>1 DEF PassedBy
  <2>2. CASE o \notin Batch
    <3>1. run'.next[Of[o]] = run.next[Of[o]]
      BY <2>2, <1>4, <1>5, <1>8, <1>9
    <3> QED
      BY <3>1, <1>1, <1>5, <1>6, <2>2 DEF PassedBy
  <2> QED
    BY <2>1, <2>2
<1>11. \A o : (PassedBy(o) \/ PassedBy(o)') => o \in run.seen
  BY <1>5 DEF PassedBy
<1>12. TypeOK'
  BY <1>1, <1>2, <1>3, <1>5 DEF TypeOK
<1>13. OrderOK'
  BY <1>3 DEF OrderOK
<1>14. RunOK'
  <2>1. \A o \in run'.todo : run'.next[Of[o]] = cursor[Of[o]]
    BY <1>1, <1>4, <1>5, <1>8 DEF RunOK
  <2>2. \A o \in run'.todo : \A p \in run'.seen : Of[p] = Of[o] => p \in run'.todo
    BY <1>2, <1>5 DEF RunOK
  <2> QED
    BY <1>1, <1>3, <1>5, <1>6, <1>7, <2>1, <2>2 DEF RunOK
<1>15. NextOK'
  <2> SUFFICES ASSUME NEW w \in Workspaces
               PROVE  c[w] = cursor[w] \/ (c[w] \in run.seen /\ Of[c[w]] = w)
    BY <1>3, <1>5 DEF NextOK
  <2>1. CASE w = Turn
    BY <2>1, <1>1, <1>2, <1>4, <1>9
  <2>2. CASE w # Turn
    BY <2>2, <1>1, <1>4 DEF NextOK
  <2> QED
    BY <2>1, <2>2
<1>16. PassedOK'
  BY <1>3, <1>5, <1>10 DEF PassedOK
<1>17. PlannedOK'
  <2> SUFFICES ASSUME NEW o \in planned', Beyond(o)
               PROVE  o \in run.seen /\ (o \in excused \/ PassedBy(o)')
    BY <1>3, <1>5, <1>7 DEF PlannedOK
  <2>1. CASE o \in Batch
    BY <2>1, <1>1, <1>2, <1>10
  <2>2. CASE o \in planned
    BY <2>2, <1>1, <1>10 DEF PlannedOK
  <2> QED
    BY <2>1, <2>2, <1>3
<1>18. WokenOK'
  <2>1. \A o : Woken(o)' <=> Woken(o)
    BY <1>3 DEF Woken
  <2> QED
    BY <1>1, <1>2, <1>3, <1>5, <1>7, <1>10, <1>11, <2>1 DEF WokenOK
<1> QED
  BY <1>12, <1>13, <1>14, <1>15, <1>16, <1>17, <1>18

\* A cursor that is moved goes forward.
LEMMA Forward ==
  ASSUME QueueInv, RunGoes, NEW w \in Workspaces, run.next[w] # cursor[w]
  PROVE  /\ run.next[w] \in run.seen /\ Of[run.next[w]] = w /\ run.next[w] # None
         /\ cursor[w] = None \/ Later(run.next[w], cursor[w])
<1>1. run.next[w] \in run.seen /\ Of[run.next[w]] = w /\ Beyond(run.next[w])
  BY DEF QueueInv, NextOK, RunOK
<1>2. run.seen \subseteq Observations
  BY DEF QueueInv, RunOK, TypeOK
<1> QED
  BY <1>1, <1>2, KnowledgeAssumption DEF Beyond, IsAfterCursor

\* What is beyond the new cursors was beyond the old ones.
LEMMA MovesForward ==
  ASSUME QueueInv, RunGoes, NEW o \in Observations, IsAfterCursor(o, run.next[Of[o]])
  PROVE  Beyond(o)
<1>1. Of[o] \in Workspaces
  BY KnowledgeAssumption
<1>2. CASE run.next[Of[o]] = cursor[Of[o]]
  BY <1>2 DEF Beyond
<1>3. CASE run.next[Of[o]] # cursor[Of[o]]
  <2> DEFINE n == run.next[Of[o]]
             c == cursor[Of[o]]
  <2>1. n \in Observations /\ n # None /\ (c = None \/ Later(n, c))
    BY <1>1, <1>3, Forward DEF QueueInv, RunOK, TypeOK
  <2>2. c \in Observations \cup {None}
    BY <1>1 DEF QueueInv, TypeOK, Cursors
  <2>3. Later(o, n)
    BY <2>1 DEF IsAfterCursor
  <2> QED
    BY <2>1, <2>2, <2>3, LaterOrders DEF Beyond, IsAfterCursor
<1> QED
  BY <1>2, <1>3

LEMMA WriteStep == ASSUME QueueInv, WriteCursors PROVE QueueInv'
<1> USE DEF RunFrame, processVars, timerVars, QueueInv
<1>1. /\ up /\ run.at = "write" /\ cursor' = run.next /\ run' = [Idle EXCEPT !.at = "refine"]
      /\ UNCHANGED <<stored, unannounced, up, crashes, count, timers, planned, queue, excused>>
  BY DEF WriteCursors
<1>2. /\ run.next \in Cursors /\ stored \subseteq Observations /\ RunGoes /\ run.todo = {}
      /\ planned \subseteq stored
  BY <1>1 DEF TypeOK, Runs, RunGoes, RunOK
<1>3. run' \in Runs /\ run'.at = "refine" /\ run'.todo = {} /\ run'.seen = {}
  BY <1>1, KnowledgeAssumption DEF Idle, Runs, Cursors
<1>4. ~RunGoes'
  BY <1>3 DEF RunGoes
<1>5. ASSUME NEW o \in stored, Beyond(o)' PROVE Beyond(o) /\ ~PassedBy(o)
  <2>1. IsAfterCursor(o, run.next[Of[o]])
    BY <1>1, <1>5 DEF Beyond
  <2> QED
    BY <2>1, <1>2, MovesForward DEF PassedBy
<1>6. TypeOK'
  BY <1>1, <1>2, <1>3 DEF TypeOK
<1>7. OrderOK' /\ RunOK' /\ NextOK' /\ PassedOK'
  BY <1>1, <1>3, <1>4 DEF OrderOK, RunOK, NextOK, PassedOK
<1>8. PlannedOK'
  BY <1>1, <1>2, <1>4, <1>5 DEF PlannedOK
<1>9. WokenOK'
  <2>1. \A o : Woken(o)' <=> Woken(o)
    BY <1>1 DEF Woken
  <2> QED
    BY <1>1, <1>2, <1>5, <2>1 DEF WokenOK
<1> QED
  BY <1>6, <1>7, <1>8, <1>9

LEMMA CrashStep == ASSUME QueueInv, Crash PROVE QueueInv'
<1> USE DEF QueueInv
<1>1. /\ up /\ up' = FALSE /\ crashes' = crashes + 1 /\ crashes < MaxCrashes
      /\ count' = [w \in Workspaces |-> 0] /\ timers' = {}
      /\ queue' = <<>> /\ run' = Idle /\ unannounced' = {}
      /\ excused' = excused \cup stored /\ UNCHANGED <<stored, cursor, planned>>
  BY DEF Crash
<1>2. run' \in Runs /\ run'.at = "idle" /\ run'.todo = {} /\ run'.seen = {}
  BY <1>1, KnowledgeAssumption DEF Idle, Runs, Cursors
<1>3. ~RunGoes'
  BY <1>2 DEF RunGoes
<1>4. TypeOK'
  <2>1. crashes' \in 0..MaxCrashes
    BY <1>1, KnowledgeAssumption DEF TypeOK
  <2>2. count' \in [Workspaces -> 0..(Threshold - 1)] /\ timers' = {w \in Workspaces : count'[w] > 0}
    <3>1. 0 \in 0..(Threshold - 1)
      BY KnowledgeAssumption
    <3> QED
      BY <3>1, <1>1
  <2>3. queue' \in Seq(Jobs)
    BY <1>1, EmptySeq
  <2> QED
    BY <1>1, <1>2, <2>1, <2>2, <2>3 DEF TypeOK
<1>5. OrderOK' /\ RunOK' /\ NextOK' /\ PassedOK'
  BY <1>1, <1>2, <1>3 DEF OrderOK, RunOK, NextOK, PassedOK
<1>6. PlannedOK' /\ WokenOK'
  BY <1>1, <1>3 DEF PlannedOK, WokenOK, TypeOK
<1> QED
  BY <1>4, <1>5, <1>6

LEMMA RestartStep == ASSUME QueueInv, Restart PROVE QueueInv'
<1> USE DEF Restart, timerVars, QueueInv
<1>1. \A o : (Beyond(o)' <=> Beyond(o)) /\ (PassedBy(o)' <=> PassedBy(o))
  BY DEF Beyond, PassedBy, RunGoes
<1>2. TypeOK' /\ OrderOK' /\ RunOK' /\ NextOK'
  BY DEF TypeOK, OrderOK, RunOK, NextOK, RunGoes, Beyond
<1>3. PassedOK' /\ PlannedOK'
  BY <1>1 DEF PassedOK, PlannedOK, RunGoes
<1>4. WokenOK'
  BY <1>1 DEF WokenOK
<1> QED
  BY <1>2, <1>3, <1>4

LEMMA StutterStep == ASSUME QueueInv, UNCHANGED vars PROVE QueueInv'
<1>1. UNCHANGED <<stored, cursor, planned, processVars, run, excused, unannounced, queue, count, timers>>
  BY DEF vars, timerVars, processVars
<1>2. \A o : Woken(o)' <=> Woken(o)
  BY <1>1 DEF Woken
<1> QED
  BY <1>1, <1>2, WakeFrame DEF QueueInv, TypeOK

LEMMA QueueInvStep == QueueInv /\ [Next]_vars => QueueInv'
<1> SUFFICES ASSUME QueueInv, [Next]_vars PROVE QueueInv'
  OBVIOUS
<1>1. CASE \E o \in Observations : Capture(o) \/ Announce(o)
  BY <1>1, CaptureStep, AnnounceStep
<1>2. CASE \E w \in Workspaces : TimerFires(w)
  BY <1>2, TimerStep
<1>3. CASE \E jo \in Jobs : Ask(jo)
  BY <1>3, AskStep
<1>4. CASE Denied
  BY <1>4, FailedStep DEF Denied
<1>5. CASE DeterministicFails
  BY <1>5, FailedStep DEF DeterministicFails, StageFails
<1>6. CASE LlmFails
  BY <1>6, FailedStep DEF LlmFails, StageFails
<1> QED
  BY <1>1, <1>2, <1>3, <1>4, <1>5, <1>6, StartRunStep, DeterministicStep, LlmStep, WriteStep, EndRunStep,
     AbortStep, CrashStep, RestartStep, StutterStep DEF Next, RunStep

LEMMA QueueAlways == Spec => []QueueInv
  BY QueueInvInit, QueueInvStep, PTL DEF Spec
-----------------------------------------------------------------------------
\* For any observations, workspaces and times: no wakeup is lost.
THEOREM AlwaysAwaited == Spec => []Awaited
<1>1. QueueInv => Awaited
  BY DEF QueueInv, Awaited, WokenOK, Woken, PassedBy, RunGoes
<1> QED
  BY <1>1, QueueAlways, PTL

\* Cursors move forward only, over what has been through both stages, and nothing is handed
\* to them again but after a failure.
THEOREM CursorsAlwaysTrue == Spec => CursorsTrue
<1>1. QueueInv => TypeOK
  BY DEF QueueInv
<1>2. [Next]_vars => UNCHANGED cursor \/ WriteCursors
  BY DEF Next, RunStep, Capture, Announce, TimerFires, Ask, StartRun, Denied, DeterministicStage, DeterministicFails,
     LlmStage, LlmFails, StageFails, EndRun, Abort, Crash, Restart, vars
<1>3. QueueInv /\ [Next]_vars =>
        [\A o \in run.seen :
           IsAfterCursor(o, cursor[Of[o]]) /\ ~IsAfterCursor(o, cursor'[Of[o]]) => o \in planned]_vars
  <2> SUFFICES ASSUME QueueInv, WriteCursors, NEW o \in run.seen, ~IsAfterCursor(o, cursor'[Of[o]])
               PROVE  o \in planned
    BY <1>2
  <2> QED
    BY DEF WriteCursors, QueueInv, PassedOK, PassedBy, RunGoes
<1>4. QueueInv /\ [Next]_vars =>
        [\A w \in Workspaces : cursor[w] # None /\ cursor'[w] # cursor[w]
           => cursor'[w] # None /\ Later(cursor'[w], cursor[w])]_vars
  <2> SUFFICES ASSUME QueueInv, WriteCursors, NEW w \in Workspaces, cursor[w] # None, cursor'[w] # cursor[w]
               PROVE  cursor'[w] # None /\ Later(cursor'[w], cursor[w])
    BY <1>2
  <2>1. RunGoes /\ cursor' = run.next
    BY DEF WriteCursors, RunGoes
  <2> QED
    BY <2>1, Forward
<1>5. QueueInv /\ [Next]_vars =>
        [\A o \in run.todo :
           run.at = "deterministic" /\ run'.at = "llm" /\ Of[o] = Turn /\ o \in planned => o \in excused]_vars
  <2> SUFFICES ASSUME QueueInv, NEW o \in run.todo, o \in planned PROVE o \in excused
    OBVIOUS
  <2>1. Beyond(o) /\ run.next[Of[o]] = cursor[Of[o]]
    BY DEF QueueInv, RunOK
  <2> QED
    BY <2>1 DEF QueueInv, PlannedOK, PassedBy, Beyond
<1>6. Spec => []TypeOK
  BY <1>1, QueueAlways, PTL
<1>7. Spec => CursorCovers
  BY <1>3, QueueAlways, PTL DEF Spec, CursorCovers
<1>8. Spec => CursorNeverBack
  BY <1>4, QueueAlways, PTL DEF Spec, CursorNeverBack
<1>9. Spec => NoRework
  BY <1>5, QueueAlways, PTL DEF Spec, NoRework
<1> QED
  BY <1>6, <1>7, <1>8, <1>9 DEF CursorsTrue
-----------------------------------------------------------------------------
(* ObservationStore *)
\* A set of natural numbers that is not empty has a least element.
LEMMA LeastOf ==
  ASSUME NEW T \in SUBSET Nat, T # {}
  PROVE  \E m \in T : \A k \in T : m <= k
<1> DEFINE Less == OpToRel(<, Nat)
<1>1. PICK m \in T : \A k \in T : ~ (<<k, m>> \in Less)
  BY NatLessThanWellFounded, WFMin
<1>2. \A k, n \in Nat : k < n => <<k, n>> \in Less
  BY DEF OpToRel
<1> HIDE DEF Less
<1>3. ASSUME NEW k \in T PROVE m <= k
  <2>1. ~ (k < m)
    BY <1>1, <1>2
  <2> QED
    BY <2>1
<1> QED
  BY <1>3

\* The types of a file and of the job that has the queue.
Shard == [at : {"none", "ok", "bad"}, lines : SUBSET Line]
ObsJob ==
  [op : {"none", "prune", "expire", "compact", "archive", "opened", "filled"}, events : SUBSET ObsEvents,
   todo : SUBSET (Places \X SUBSET Line)]

\* Every variable has its type, the job included.
ObsTyped ==
  /\ month \in Months \cup {1} /\ obsMade \in 0..MaxObs /\ obsFaults \in 0..MaxObsFaults
  /\ shard \in [Places -> Shard]
  /\ \A p \in Places : \A l \in shard[p].lines : MonthOf[l.event] = p[2] /\ shard[p].at = "ok"
  /\ cache \in [ObsEvents -> 0..MaxObs]
  /\ caller \in [Callers -> [event : ObsEvents, id : 1..MaxObs] \cup {NoCall}]
  /\ job \in ObsJob

\* What a job makes of the lines of a file.
NewOf(op, events, lines) ==
  CASE op = "prune" -> {l \in lines : l.event \notin events}
    [] op = "expire" -> {[l EXCEPT !.expired = l.expired \/ l.event \in events] : l \in lines}
    [] OTHER -> lines

\* A job is still to write what it makes of the lines that a file has now, so nothing was
\* stored since it looked; an archive that was filled has all lines of its active file.
JobTrue ==
  /\ job.op = "none" => job = IdleJob
  /\ job.op # "none" => job.todo # {}
  /\ \A t \in job.todo : t[2] = NewOf(job.op, job.events, shard[t[1]].lines)
  /\ job.op \in {"compact", "archive", "opened", "filled"} => \A t \in job.todo : t[1][1] = "active"
  /\ job.op = "filled" => shard[Target] = File(First[2])

\* The inductive invariant.
ObsInv == ObsTyped /\ JobTrue /\ ObsEventOnce /\ ObsCacheTrue
-----------------------------------------------------------------------------
LEMMA ObsInvInit == ASSUME ObsInit PROVE ObsInv
<1> USE ObsAssumption DEF ObsInit
<1>1. ObsTyped
  <2>1. NoFile \in Shard /\ NoFile.lines = {}
    BY DEF NoFile, Shard
  <2>2. IdleJob \in ObsJob
    BY DEF IdleJob, ObsJob
  <2> QED
    BY <2>1, <2>2 DEF ObsTyped
<1>2. JobTrue
  BY DEF JobTrue, IdleJob
<1>3. Listed = {}
  BY DEF Listed, NoFile
<1>4. ObsEventOnce /\ ObsCacheTrue
  BY <1>3 DEF ObsEventOnce, ObsCacheTrue
<1> QED
  BY <1>1, <1>2, <1>4 DEF ObsInv

\* The file that a job writes next: its lines, and that it is the only one there.
LEMMA FirstIs ==
  ASSUME ObsInv, job.op # "none"
  PROVE  /\ First \in job.todo /\ First[1] \in Places /\ First[2] \in SUBSET Line
         /\ First[2] = NewOf(job.op, job.events, shard[First[1]].lines)
         /\ \A t \in job.todo \ {First} : t[1] # First[1]
<1>1. job.todo # {} /\ job.todo \subseteq Places \X SUBSET Line
  BY DEF ObsInv, JobTrue, ObsTyped, ObsJob
<1>2. \A t \in job.todo : Rank(t[1]) \in Nat
  BY <1>1, ObsAssumption DEF Rank, Places, Months
<1> DEFINE Ranks == {Rank(t[1]) : t \in job.todo}
<1>3. Ranks \in SUBSET Nat /\ Ranks # {}
  BY <1>1, <1>2
<1>4. PICK n \in Ranks : \A k \in Ranks : n <= k
  BY <1>3, LeastOf
<1>5. \E t \in job.todo : \A u \in job.todo : Rank(t[1]) <= Rank(u[1])
  BY <1>4
<1>6. First \in job.todo
  BY <1>5 DEF First
<1>7. First[2] = NewOf(job.op, job.events, shard[First[1]].lines)
  BY <1>6 DEF ObsInv, JobTrue
<1>8. ASSUME NEW t \in job.todo, t # First PROVE t[1] # First[1]
  <2>1. SUFFICES ASSUME t[1] = First[1] PROVE t = First
    BY <1>8
  <2>2. t[2] = First[2]
    BY <1>7, <2>1 DEF ObsInv, JobTrue
  <2> QED
    BY <1>1, <1>6, <2>1, <2>2
<1> QED
  BY <1>1, <1>6, <1>7, <1>8

\* The line l, perhaps expired since, as k.
Becomes(l, k) == l.event = k.event /\ l.id = k.id /\ (l.expired => k.expired)

\* What is listed next was listed before, and may only have expired.
Descends == \A k \in Listed' : \E l \in Listed : Becomes(l, k)

\* Files that are rewritten with lines that they or others had.
LEMMA ShardsDescend ==
  ASSUME ObsInv, shard' \in [Places -> Shard],
         \A p \in Places : \A k \in shard'[p].lines :
           MonthOf[k.event] = p[2] /\ shard'[p].at = "ok" /\ \E l \in Listed : Becomes(l, k)
  PROVE  Descends /\ ObsEventOnce'
<1>1. Descends
  BY DEF Descends, Listed
<1>2. ObsEventOnce'
  BY <1>1 DEF ObsInv, ObsEventOnce, Descends, Becomes
<1> QED
  BY <1>1, <1>2

LEMMA CacheDescends ==
  ASSUME ObsInv, Descends, cache' = cache \/ cache' = [e \in ObsEvents |-> 0]
  PROVE  ObsCacheTrue' /\ cache' \in [ObsEvents -> 0..MaxObs]
BY ObsAssumption DEF ObsInv, ObsTyped, ObsCacheTrue, Descends, Becomes

\* One file is written.
LEMMA OneWritten ==
  ASSUME ObsInv, NEW p \in Places, NEW new \in Shard, shard' = [shard EXCEPT ![p] = new],
         \A k \in new.lines : MonthOf[k.event] = p[2] /\ new.at = "ok" /\ \E l \in Listed : Becomes(l, k)
  PROVE  /\ shard' \in [Places -> Shard] /\ shard'[p] = new
         /\ \A q \in Places : q # p => shard'[q] = shard[q]
         /\ \A q \in Places : \A k \in shard'[q].lines : MonthOf[k.event] = q[2] /\ shard'[q].at = "ok"
         /\ Descends /\ ObsEventOnce'
<1>1. /\ shard' \in [Places -> Shard] /\ shard'[p] = new
      /\ \A q \in Places : q # p => shard'[q] = shard[q]
  BY DEF ObsInv, ObsTyped
<1>2. \A q \in Places : \A k \in shard[q].lines : \E l \in Listed : Becomes(l, k)
  BY DEF Listed, Becomes
<1>3. ASSUME NEW q \in Places, NEW k \in shard'[q].lines
      PROVE MonthOf[k.event] = q[2] /\ shard'[q].at = "ok" /\ \E l \in Listed : Becomes(l, k)
  <2>1. CASE q = p
    BY <1>1, <2>1
  <2>2. CASE q # p
    BY <1>1, <1>2, <2>2 DEF ObsInv, ObsTyped
  <2> QED
    BY <2>1, <2>2
<1>4. Descends /\ ObsEventOnce'
  BY <1>1, <1>3, ShardsDescend
<1> QED
  BY <1>1, <1>3, <1>4

\* Nothing is written, and the queue is left alone or is free again.
LEMMA NothingWritten ==
  ASSUME ObsInv, UNCHANGED shard, UNCHANGED job \/ job' = IdleJob,
         cache' = cache \/ cache' = [e \in ObsEvents |-> 0],
         month' \in Months \cup {1}, obsMade' \in 0..MaxObs, obsFaults' \in 0..MaxObsFaults,
         caller' \in [Callers -> [event : ObsEvents, id : 1..MaxObs] \cup {NoCall}]
  PROVE  ObsInv' /\ Descends
<1>1. Listed' = Listed
  BY DEF Listed
<1>2. Descends /\ ObsEventOnce'
  BY <1>1 DEF Descends, Becomes, ObsInv, ObsEventOnce
<1>3. ObsCacheTrue' /\ cache' \in [ObsEvents -> 0..MaxObs]
  BY <1>2, CacheDescends
<1>4. IdleJob \in ObsJob /\ IdleJob.op = "none" /\ IdleJob.todo = {}
  BY DEF IdleJob, ObsJob
<1>5. ObsTyped'
  BY <1>3, <1>4 DEF ObsInv, ObsTyped
<1>6. JobTrue'
  <2>1. CASE UNCHANGED job
    BY <2>1 DEF ObsInv, JobTrue, Target, First
  <2>2. CASE job' = IdleJob
    BY <1>4, <2>2 DEF JobTrue
  <2> QED
    BY <2>1, <2>2
<1> QED
  BY <1>2, <1>3, <1>5, <1>6 DEF ObsInv
-----------------------------------------------------------------------------
\* What a step may never do.
KeepsActive ==
  \A p \in {"active"} \X Months : \A l \in shard[p].lines :
    \/ \E k \in Listed' : k.id = l.id
    \/ job.op = "prune" /\ l.event \in job.events
StaysForgotten ==
  \A e \in {l.event : l \in Listed} :
    (\A l \in Listed : l.event = e => l.expired) => \A l \in Listed' : l.event = e => l.expired

LEMMA DescendsForgets == ASSUME Descends PROVE StaysForgotten
BY DEF Descends, Becomes, StaysForgotten

LEMMA UnwrittenKeeps == ASSUME ObsInv, UNCHANGED shard PROVE KeepsActive
<1>1. Listed' = Listed
  BY DEF Listed
<1>2. \A p \in {"active"} \X Months : p \in Places
  BY DEF Places
<1>3. \A p \in Places : \A l \in shard[p].lines : l \in Listed
  BY DEF Listed
<1> QED
  BY <1>1, <1>2, <1>3 DEF KeepsActive

Good == ObsInv' /\ KeepsActive /\ StaysForgotten

LEMMA ObsTickStep == ASSUME ObsInv, ObsTick PROVE Good
<1>1. month' \in Months \cup {1}
  BY ObsAssumption DEF ObsTick, ObsInv, ObsTyped, Months
<1> QED
  BY <1>1, NothingWritten, UnwrittenKeeps, DescendsForgets DEF ObsTick, ObsInv, ObsTyped, Good

LEMMA ObsCaptureStep == ASSUME ObsInv, NEW c \in Callers, NEW e \in ObsEvents, ObsCapture(c, e) PROVE Good
<1>1. obsMade' \in 0..MaxObs /\ obsMade' \in 1..MaxObs
  BY ObsAssumption DEF ObsCapture, ObsInv, ObsTyped
<1>2. caller' \in [Callers -> [event : ObsEvents, id : 1..MaxObs] \cup {NoCall}]
  BY <1>1 DEF ObsCapture, ObsInv, ObsTyped
<1> QED
  BY <1>1, <1>2, NothingWritten, UnwrittenKeeps, DescendsForgets DEF ObsCapture, ObsInv, ObsTyped, Good

LEMMA ObsRefusedStep == ASSUME ObsInv, NEW c \in Callers, ObsRefused(c) PROVE Good
<1>1. caller' \in [Callers -> [event : ObsEvents, id : 1..MaxObs] \cup {NoCall}]
  BY DEF ObsRefused, ObsInv, ObsTyped
<1> QED
  BY <1>1, NothingWritten, UnwrittenKeeps, DescendsForgets DEF ObsRefused, ObsInv, ObsTyped, Good

LEMMA ObsJobFailsStep == ASSUME ObsInv, ObsJobFails PROVE Good
<1>1. obsFaults' \in 0..MaxObsFaults
  BY ObsAssumption DEF ObsJobFails, ObsInv, ObsTyped
<1> QED
  BY <1>1, NothingWritten, UnwrittenKeeps, DescendsForgets DEF ObsJobFails, ObsInv, ObsTyped, Good

LEMMA ObsCrashStep == ASSUME ObsInv, ObsCrash PROVE Good
<1>1. obsFaults' \in 0..MaxObsFaults
  BY ObsAssumption DEF ObsCrash, ObsInv, ObsTyped
<1> QED
  BY <1>1, NothingWritten, UnwrittenKeeps, DescendsForgets DEF ObsCrash, ObsInv, ObsTyped, Good

\* A capture whose turn it is finds its event, or appends a line of it.
LEMMA ObsStoreStep == ASSUME ObsInv, NEW c \in Callers, ObsStore(c) PROVE Good
<1> DEFINE e == caller[c].event
           i == caller[c].id
           line == [event |-> e, id |-> i, expired |-> FALSE]
<1>1. e \in ObsEvents /\ i \in 1..MaxObs
  BY DEF ObsStore, ObsInv, ObsTyped
<1>2. /\ job = IdleJob /\ UNCHANGED <<month, job, obsMade, obsFaults>> /\ Readable
      /\ cache' = [cache EXCEPT ![e] = Told(e, i)]
  BY DEF ObsStore, QueueFree
<1>3. caller' \in [Callers -> [event : ObsEvents, id : 1..MaxObs] \cup {NoCall}]
  BY DEF ObsStore, ObsInv, ObsTyped
<1>4. IdleJob \in ObsJob /\ IdleJob.op = "none" /\ IdleJob.todo = {}
  BY DEF IdleJob, ObsJob
<1>5. JobTrue'
  BY <1>2, <1>4 DEF JobTrue
<1>6. \A l \in Listed : l \in Line
  BY DEF Listed, ObsInv, ObsTyped, Shard
<1>7. CASE Found(e) # {}
  <2>1. UNCHANGED shard /\ Listed' = Listed
    BY <1>7 DEF ObsStore, Listed
  <2>2. Descends /\ ObsEventOnce'
    BY <2>1 DEF Descends, Becomes, ObsInv, ObsEventOnce
  <2>3. PICK l \in Listed : l.event = e /\ Told(e, i) = l.id
    BY <1>7 DEF Found, Told
  <2>4. cache' \in [ObsEvents -> 0..MaxObs]
    <3>1. l.id \in 0..MaxObs
      BY <1>6, <2>3, ObsAssumption DEF Line
    <3> QED
      BY <1>2, <2>3, <3>1 DEF ObsInv, ObsTyped
  <2>5. ObsCacheTrue'
    <3> SUFFICES ASSUME NEW d \in ObsEvents, cache'[d] # 0, NEW k \in Listed, k.event = d
                 PROVE k.id = cache'[d]
      BY <2>1 DEF ObsCacheTrue
    <3>1. CASE d = e
      <4>1. cache'[d] = l.id
        BY <1>1, <1>2, <2>3, <3>1 DEF ObsInv, ObsTyped
      <4> QED
        BY <2>3, <3>1, <4>1 DEF ObsInv, ObsEventOnce
    <3>2. CASE d # e
      BY <1>2, <3>2 DEF ObsInv, ObsTyped, ObsCacheTrue
    <3> QED
      BY <3>1, <3>2
  <2>6. ObsTyped'
    BY <1>2, <1>3, <2>1, <2>4 DEF ObsInv, ObsTyped
  <2> QED
    BY <1>5, <2>1, <2>2, <2>5, <2>6, UnwrittenKeeps, DescendsForgets DEF ObsInv, Good
<1>8. CASE Found(e) = {}
  <2> DEFINE p == Home(e)
             new == File(shard[p].lines \cup {line})
  <2>1. p \in Places /\ p[2] = MonthOf[e]
    BY <1>1, ObsAssumption DEF Home, Places, Months
  <2>2. line \in Line /\ line.event = e /\ line.id = i
    BY <1>1 DEF Line
  <2>3. new \in Shard /\ new.at = "ok" /\ new.lines = shard[p].lines \cup {line}
    BY <2>1, <2>2 DEF File, Shard, ObsInv, ObsTyped
  <2>4. shard' = [shard EXCEPT ![p] = new]
    BY <1>8 DEF ObsStore
  <2> HIDE DEF new, p, line
  <2>5. /\ shard' \in [Places -> Shard] /\ shard'[p] = new
        /\ \A q \in Places : q # p => shard'[q] = shard[q]
    BY <2>1, <2>3, <2>4 DEF ObsInv, ObsTyped
  <2>6. ASSUME NEW q \in Places, NEW k \in shard'[q].lines PROVE MonthOf[k.event] = q[2] /\ shard'[q].at = "ok"
    <3>1. CASE q = p
      BY <2>1, <2>2, <2>3, <2>5, <3>1 DEF ObsInv, ObsTyped
    <3>2. CASE q # p
      BY <2>5, <3>2 DEF ObsInv, ObsTyped
    <3> QED
      BY <3>1, <3>2
  <2>7. \A k : k \in Listed' <=> k \in Listed \/ k = line
    <3>1. \A k : k \in Listed <=> \E q \in Places : k \in shard[q].lines
      BY DEF Listed
    <3>2. \A k : k \in Listed' <=> \E q \in Places : k \in shard'[q].lines
      BY DEF Listed
    <3>3. \A q \in Places : \A k : k \in shard'[q].lines <=> (k \in shard[q].lines \/ (q = p /\ k = line))
      BY <2>3, <2>5
    <3> QED
      BY <2>1, <3>1, <3>2, <3>3
  <2>8. \A l \in Listed : l.event # e
    BY <1>8 DEF Found
  <2>9. ObsEventOnce'
    BY <2>2, <2>7, <2>8 DEF ObsInv, ObsEventOnce
  <2>10. cache' = [cache EXCEPT ![e] = i]
    BY <1>2, <1>8 DEF Told
  <2>11. cache' \in [ObsEvents -> 0..MaxObs]
    BY <1>1, <2>10, ObsAssumption DEF ObsInv, ObsTyped
  <2>12. ObsCacheTrue'
    <3> SUFFICES ASSUME NEW d \in ObsEvents, cache'[d] # 0, NEW k \in Listed', k.event = d
                 PROVE k.id = cache'[d]
      BY DEF ObsCacheTrue
    <3>1. CASE d = e
      BY <1>1, <2>2, <2>7, <2>8, <2>10, <3>1 DEF ObsInv, ObsTyped
    <3>2. CASE d # e
      BY <1>1, <2>2, <2>7, <2>10, <3>2 DEF ObsInv, ObsTyped, ObsCacheTrue
    <3> QED
      BY <3>1, <3>2
  <2>13. ObsTyped'
    BY <1>2, <1>3, <2>5, <2>6, <2>11 DEF ObsInv, ObsTyped
  <2>14. KeepsActive
    <3>1. \A q \in {"active"} \X Months : q \in Places
      BY DEF Places
    <3>2. \A q \in Places : \A l \in shard[q].lines : l \in Listed
      BY DEF Listed
    <3> QED
      BY <2>7, <3>1, <3>2 DEF KeepsActive
  <2>15. StaysForgotten
    BY <2>2, <2>7, <2>8 DEF StaysForgotten
  <2> QED
    BY <1>5, <2>9, <2>12, <2>13, <2>14, <2>15 DEF ObsInv, Good
<1> QED
  BY <1>7, <1>8
-----------------------------------------------------------------------------
\* What a job makes of lines.
LEMMA NewIs ==
  ASSUME NEW op, NEW events \in SUBSET ObsEvents, NEW lines \in SUBSET Line
  PROVE  /\ NewOf(op, events, lines) \in SUBSET Line
         /\ \A k \in NewOf(op, events, lines) : \E l \in lines : Becomes(l, k)
         /\ \A l \in lines : (\E k \in NewOf(op, events, lines) : k.id = l.id) \/ (op = "prune" /\ l.event \in events)
         /\ op \notin {"prune", "expire"} => NewOf(op, events, lines) = lines
<1>1. CASE op = "prune"
  BY <1>1 DEF NewOf, Becomes
<1>2. CASE op = "expire"
  <2> DEFINE Aged(l) == [l EXCEPT !.expired = l.expired \/ l.event \in events]
  <2>1. NewOf(op, events, lines) = {Aged(l) : l \in lines}
    BY <1>2 DEF NewOf
  <2>2. ASSUME NEW l \in lines PROVE Aged(l) \in Line /\ Becomes(l, Aged(l))
    <3>1. l \in Line
      OBVIOUS
    <3>2. (l.expired \/ l.event \in events) \in BOOLEAN
      OBVIOUS
    <3>3. Aged(l) \in Line
      BY <3>1, <3>2 DEF Line
    <3>4. Aged(l).event = l.event /\ Aged(l).id = l.id /\ (l.expired => Aged(l).expired)
      BY <3>1 DEF Line
    <3> QED
      BY <3>3, <3>4 DEF Becomes
  <2> HIDE DEF Aged
  <2> QED
    BY <1>2, <2>1, <2>2 DEF Becomes
<1>3. CASE op \notin {"prune", "expire"}
  BY <1>3 DEF NewOf, Becomes
<1> QED
  BY <1>1, <1>2, <1>3

LEMMA BeginStep ==
  ASSUME ObsInv, NEW op \in {"prune", "expire", "compact", "archive"}, NEW events \in SUBSET ObsEvents,
         NEW ps \in SUBSET Places, NEW todo,
         todo = {<<p, NewOf(op, events, shard[p].lines)>> : p \in ps}, Begin(op, events, todo),
         op \in {"compact", "archive"} => \A p \in ps : p[1] = "active"
  PROVE  Good
<1>1. /\ job' = [op |-> op, events |-> events, todo |-> todo] /\ todo # {}
      /\ UNCHANGED <<month, shard, cache, caller, obsMade, obsFaults>>
  BY DEF Begin
<1>2. \A p \in ps : NewOf(op, events, shard[p].lines) \in SUBSET Line
  <2> SUFFICES ASSUME NEW p \in ps PROVE NewOf(op, events, shard[p].lines) \in SUBSET Line
    OBVIOUS
  <2>1. shard[p].lines \in SUBSET Line
    BY DEF ObsInv, ObsTyped, Shard
  <2> QED
    BY <2>1, NewIs
<1>3. todo \subseteq Places \X SUBSET Line
  BY <1>2
<1>4. job' \in ObsJob
  BY <1>1, <1>3 DEF ObsJob
<1>5. ObsTyped'
  BY <1>1, <1>4 DEF ObsInv, ObsTyped
<1>6. JobTrue'
  BY <1>1 DEF JobTrue
<1>7. Listed' = Listed
  BY <1>1 DEF Listed
<1>8. Descends /\ ObsEventOnce' /\ ObsCacheTrue'
  BY <1>1, <1>7 DEF Descends, Becomes, ObsInv, ObsEventOnce, ObsCacheTrue
<1> QED
  BY <1>1, <1>5, <1>6, <1>8, UnwrittenKeeps, DescendsForgets DEF ObsInv, Good

LEMMA ObsPruneStep == ASSUME ObsInv, NEW events \in SUBSET ObsEvents, ObsPrune(events) PROVE Good
<1> DEFINE ps == {q \in Places : \E l \in shard[q].lines : l.event \in events}
           todo == {<<p, {l \in shard[p].lines : l.event \notin events}>> : p \in ps}
<1>1. todo = {<<p, NewOf("prune", events, shard[p].lines)>> : p \in ps}
  BY DEF NewOf
<1>2. Begin("prune", events, todo)
  BY DEF ObsPrune
<1> HIDE DEF todo
<1> QED
  BY <1>1, <1>2, BeginStep

LEMMA ObsExpireStep == ASSUME ObsInv, NEW events \in SUBSET ObsEvents, ObsExpire(events) PROVE Good
<1> DEFINE ps == {q \in Places : \E l \in shard[q].lines : l.event \in events /\ ~l.expired}
           todo == {<<p, {[l EXCEPT !.expired = l.expired \/ l.event \in events] : l \in shard[p].lines}>> : p \in ps}
<1>1. todo = {<<p, NewOf("expire", events, shard[p].lines)>> : p \in ps}
  BY DEF NewOf
<1>2. Begin("expire", events, todo)
  BY DEF ObsExpire
<1> HIDE DEF todo
<1> QED
  BY <1>1, <1>2, BeginStep

LEMMA OldIs ==
  ASSUME NEW op \in {"compact", "archive"}
  PROVE  \E ps \in SUBSET Places :
           /\ Old = {<<p, NewOf(op, {}, shard[p].lines)>> : p \in ps}
           /\ \A p \in ps : p[1] = "active"
<1> DEFINE ms == {n \in Months : n < month /\ shard[<<"active", n>>].at = "ok"}
           ps == {<<"active", m>> : m \in ms}
<1>1. ps \in SUBSET Places /\ \A p \in ps : p[1] = "active"
  <2>1. ASSUME NEW p \in ps PROVE p \in Places /\ p[1] = "active"
    <3>1. PICK m \in ms : p = <<"active", m>>
      OBVIOUS
    <3>2. m \in Months
      OBVIOUS
    <3> QED
      BY <3>1, <3>2 DEF Places
  <2> HIDE DEF ps
  <2> QED
    BY <2>1
<1>2. Old = {<<<<"active", m>>, shard[<<"active", m>>].lines>> : m \in ms}
  BY DEF Old
<1>3. \A p \in ps : NewOf(op, {}, shard[p].lines) = shard[p].lines
  BY DEF NewOf
<1>4. {<<p, NewOf(op, {}, shard[p].lines)>> : p \in ps} = {<<p, shard[p].lines>> : p \in ps}
  BY <1>3
<1>5. Old = {<<p, shard[p].lines>> : p \in ps}
  BY <1>2
<1> HIDE DEF ps
<1> QED
  BY <1>1, <1>4, <1>5

LEMMA ObsOldStep == ASSUME ObsInv, ObsCompact \/ ObsArchive PROVE Good
<1>1. ASSUME NEW op \in {"compact", "archive"}, Begin(op, {}, Old) PROVE Good
  <2>1. PICK ps \in SUBSET Places : /\ Old = {<<p, NewOf(op, {}, shard[p].lines)>> : p \in ps}
                                    /\ \A p \in ps : p[1] = "active"
    BY OldIs
  <2> QED
    BY <1>1, <2>1, BeginStep
<1> QED
  BY <1>1 DEF ObsCompact, ObsArchive
-----------------------------------------------------------------------------
\* The rest of a job, when the file of the first task alone was written.
LEMMA RestTrue ==
  ASSUME ObsInv, job.op # "none", NEW op \in {"prune", "expire", "compact", "archive"},
         job' = IF job.todo = {First} THEN IdleJob ELSE [job EXCEPT !.op = op, !.todo = job.todo \ {First}],
         op = job.op \/ (op = "archive" /\ job.op = "filled"),
         \A q \in Places : q # First[1] => shard'[q] = shard[q]
  PROVE  job' \in ObsJob /\ JobTrue'
<1>1. IdleJob \in ObsJob /\ IdleJob.op = "none" /\ IdleJob.todo = {}
  BY DEF IdleJob, ObsJob
<1>2. CASE job.todo = {First}
  BY <1>1, <1>2 DEF JobTrue
<1>3. CASE job.todo # {First}
  <2>1. job \in ObsJob /\ First \in job.todo
    BY FirstIs DEF ObsInv, ObsTyped
  <2>2. /\ job' \in ObsJob /\ job'.op = op /\ job'.events = job.events /\ job'.todo = job.todo \ {First}
    BY <1>3, <2>1 DEF ObsJob
  <2>3. job'.todo # {}
    BY <1>3, <2>1, <2>2
  <2>4. ASSUME NEW t \in job'.todo
        PROVE t[2] = NewOf(op, job.events, shard'[t[1]].lines)
    <3>1. t \in job.todo /\ t # First /\ t[1] # First[1] /\ t[1] \in Places
      BY <2>1, <2>2, FirstIs DEF ObsJob
    <3>2. t[2] = NewOf(job.op, job.events, shard[t[1]].lines) /\ shard'[t[1]] = shard[t[1]]
      BY <3>1 DEF ObsInv, JobTrue
    <3>3. NewOf(op, job.events, shard[t[1]].lines) = NewOf(job.op, job.events, shard[t[1]].lines)
      BY DEF NewOf
    <3> QED
      BY <3>2, <3>3
  <2>5. op \in {"compact", "archive"} => \A t \in job'.todo : t[1][1] = "active"
    BY <2>2 DEF ObsInv, JobTrue
  <2> QED
    BY <2>2, <2>3, <2>4, <2>5 DEF JobTrue
<1> QED
  BY <1>2, <1>3

LEMMA ObsRewriteStep == ASSUME ObsInv, ObsRewrite PROVE Good
<1>1. /\ job.op \in {"prune", "expire", "compact"} /\ shard' = [shard EXCEPT ![First[1]] = Written] /\ job' = Rest
      /\ cache' = cache \/ cache' = [e \in ObsEvents |-> 0]
      /\ UNCHANGED <<month, caller, obsMade, obsFaults>>
  BY DEF ObsRewrite
<1> DEFINE p == First[1]
<1>2. /\ p \in Places /\ First[2] \in SUBSET Line /\ First[2] = NewOf(job.op, job.events, shard[p].lines)
      /\ shard[p].lines \in SUBSET Line /\ job.events \in SUBSET ObsEvents
  BY <1>1, FirstIs DEF ObsInv, ObsTyped, Shard, ObsJob
<1>3. \/ Written = Unreadable /\ job.op = "prune" /\ p[1] = "archive"
      \/ Written = File(First[2])
  BY DEF Written
<1>4. Written \in Shard
  BY <1>2, <1>3 DEF Unreadable, File, Shard
<1>5. /\ \A k \in First[2] : \E l \in shard[p].lines : Becomes(l, k)
      /\ \A l \in shard[p].lines : (\E k \in First[2] : k.id = l.id) \/ (job.op = "prune" /\ l.event \in job.events)
  BY <1>2, NewIs
<1>6. \A k \in Written.lines : MonthOf[k.event] = p[2] /\ Written.at = "ok" /\ \E l \in Listed : Becomes(l, k)
  <2>1. CASE Written = Unreadable
    BY <2>1 DEF Unreadable
  <2>2. CASE Written = File(First[2])
    <3>1. Written.lines = First[2] /\ Written.at = "ok"
      BY <2>2 DEF File
    <3>2. \A l \in shard[p].lines : MonthOf[l.event] = p[2] /\ l \in Listed
      BY <1>2 DEF ObsInv, ObsTyped, Listed
    <3> QED
      BY <1>5, <3>1, <3>2 DEF Becomes
  <2> QED
    BY <1>3, <2>1, <2>2
<1>7. /\ shard' \in [Places -> Shard] /\ shard'[p] = Written
      /\ \A q \in Places : q # p => shard'[q] = shard[q]
      /\ \A q \in Places : \A k \in shard'[q].lines : MonthOf[k.event] = q[2] /\ shard'[q].at = "ok"
      /\ Descends /\ ObsEventOnce'
  BY <1>1, <1>2, <1>4, <1>6, OneWritten
<1>8. job' \in ObsJob /\ JobTrue'
  <2>1. job' = IF job.todo = {First} THEN IdleJob ELSE [job EXCEPT !.op = job.op, !.todo = job.todo \ {First}]
    BY <1>1 DEF Rest, ObsInv, ObsTyped, ObsJob
  <2> QED
    BY <1>1, <1>7, <2>1, RestTrue
<1>9. ObsCacheTrue' /\ cache' \in [ObsEvents -> 0..MaxObs]
  BY <1>1, <1>7, CacheDescends
<1>10. ObsTyped'
  BY <1>1, <1>7, <1>8, <1>9 DEF ObsInv, ObsTyped
<1>11. KeepsActive
  <2> SUFFICES ASSUME NEW q \in {"active"} \X Months, NEW l \in shard[q].lines,
                      ~(job.op = "prune" /\ l.event \in job.events)
               PROVE \E k \in Listed' : k.id = l.id
    BY DEF KeepsActive
  <2>1. q \in Places /\ q[1] = "active"
    BY DEF Places
  <2>2. \A k \in shard'[q].lines : k \in Listed'
    BY <2>1 DEF Listed
  <2>3. CASE q # p
    BY <1>7, <2>1, <2>2, <2>3
  <2>4. CASE q = p
    <3>1. shard'[q].lines = First[2]
      BY <1>3, <1>7, <2>1, <2>4 DEF File
    <3> QED
      BY <1>5, <2>2, <2>4, <3>1
  <2> QED
    BY <2>3, <2>4
<1> QED
  BY <1>7, <1>8, <1>9, <1>10, <1>11, DescendsForgets DEF ObsInv, Good

\* The archive of a month is written, while the active file stays.
LEMMA ArchiveWritten ==
  ASSUME ObsInv, job.op \in {"archive", "opened"}, NEW new \in Shard, shard' = [shard EXCEPT ![Target] = new],
         new = Unreadable \/ new = File(First[2]),
         NEW op \in {"opened", "filled"}, job' = [job EXCEPT !.op = op], op = "filled" => new = File(First[2]),
         UNCHANGED <<month, cache, caller, obsMade, obsFaults>>
  PROVE  Good
<1>1. /\ First \in job.todo /\ First[1] \in Places /\ First[2] \in SUBSET Line
      /\ First[2] = NewOf(job.op, job.events, shard[First[1]].lines) /\ job \in ObsJob
  BY FirstIs DEF ObsInv, ObsTyped
<1>2. First[2] = shard[First[1]].lines
  BY <1>1 DEF NewOf
<1>3. Target \in Places /\ Target[1] = "archive" /\ Target[2] = First[1][2]
  BY <1>1 DEF Target, Places
<1>4. \A k \in new.lines : MonthOf[k.event] = Target[2] /\ new.at = "ok" /\ \E l \in Listed : Becomes(l, k)
  <2>1. CASE new = Unreadable
    BY <2>1 DEF Unreadable
  <2>2. CASE new = File(First[2])
    <3>1. new.lines = First[2] /\ new.at = "ok"
      BY <2>2 DEF File
    <3>2. \A l \in shard[First[1]].lines : MonthOf[l.event] = First[1][2] /\ l \in Listed
      BY <1>1 DEF ObsInv, ObsTyped, Listed
    <3> QED
      BY <1>2, <1>3, <3>1, <3>2 DEF Becomes
  <2> QED
    BY <2>1, <2>2
<1>5. /\ shard' \in [Places -> Shard] /\ shard'[Target] = new
      /\ \A q \in Places : q # Target => shard'[q] = shard[q]
      /\ \A q \in Places : \A k \in shard'[q].lines : MonthOf[k.event] = q[2] /\ shard'[q].at = "ok"
      /\ Descends /\ ObsEventOnce'
  BY <1>3, <1>4, OneWritten
<1>6. job' \in ObsJob /\ job'.op = op /\ job'.events = job.events /\ job'.todo = job.todo
  BY <1>1 DEF ObsJob
<1>7. First' = First /\ Target' = Target
  BY <1>6 DEF First, Target
<1>8. \A t \in job.todo : t[1] \in Places /\ t[1][1] = "active"
  BY <1>1 DEF ObsInv, JobTrue, ObsJob
<1>9. JobTrue'
  <2>1. ASSUME NEW t \in job.todo PROVE t[2] = NewOf(op, job.events, shard'[t[1]].lines)
    <3>1. t[2] = NewOf(job.op, job.events, shard[t[1]].lines) /\ shard'[t[1]] = shard[t[1]]
      BY <1>3, <1>5, <1>8 DEF ObsInv, JobTrue
    <3> QED
      BY <3>1 DEF NewOf
  <2>2. job.todo # {}
    BY <1>1
  <2> QED
    BY <1>5, <1>6, <1>7, <1>8, <2>1, <2>2 DEF JobTrue
<1>10. ObsCacheTrue'
  BY <1>5, CacheDescends
<1>11. ObsTyped'
  BY <1>5, <1>6 DEF ObsInv, ObsTyped
<1>12. KeepsActive
  <2> SUFFICES ASSUME NEW q \in {"active"} \X Months, NEW l \in shard[q].lines PROVE \E k \in Listed' : k.id = l.id
    BY DEF KeepsActive
  <2>1. q \in Places /\ q # Target
    BY <1>3 DEF Places
  <2> QED
    BY <1>5, <2>1 DEF Listed
<1> QED
  BY <1>5, <1>9, <1>10, <1>11, <1>12, DescendsForgets DEF ObsInv, Good

LEMMA ObsOpensStep == ASSUME ObsInv, ObsOpens PROVE Good
<1>1. Unreadable \in Shard
  BY DEF Unreadable, Shard
<1> QED
  BY <1>1, ArchiveWritten DEF ObsOpens

LEMMA ObsFillsStep == ASSUME ObsInv, ObsFills PROVE Good
<1>1. job.op = "opened"
  BY DEF ObsFills
<1>2. File(First[2]) \in Shard
  BY <1>1, FirstIs DEF File, Shard
<1> QED
  BY <1>1, <1>2, ArchiveWritten DEF ObsFills

\* The active file is removed, all of whose lines are in the archive.
LEMMA ObsUnlinksStep == ASSUME ObsInv, ObsUnlinks PROVE Good
<1>1. /\ job.op = "filled" /\ shard' = [shard EXCEPT ![First[1]] = NoFile]
      /\ UNCHANGED <<month, cache, caller, obsMade, obsFaults>>
  BY DEF ObsUnlinks
<1>2. /\ First \in job.todo /\ First[1] \in Places /\ First[2] \in SUBSET Line /\ job \in ObsJob
      /\ First[2] = NewOf(job.op, job.events, shard[First[1]].lines)
  BY <1>1, FirstIs DEF ObsInv, ObsTyped
<1>3. First[2] = shard[First[1]].lines
  BY <1>1, <1>2 DEF NewOf
<1>4. First[1][1] = "active" /\ shard[Target] = File(First[2])
  BY <1>1, <1>2 DEF ObsInv, JobTrue
<1>5. NoFile \in Shard /\ NoFile.lines = {}
  BY DEF NoFile, Shard
<1>6. /\ shard' \in [Places -> Shard] /\ shard'[First[1]] = NoFile
      /\ \A q \in Places : q # First[1] => shard'[q] = shard[q]
      /\ \A q \in Places : \A k \in shard'[q].lines : MonthOf[k.event] = q[2] /\ shard'[q].at = "ok"
      /\ Descends /\ ObsEventOnce'
  BY <1>1, <1>2, <1>5, OneWritten
<1>7. job' \in ObsJob /\ JobTrue'
  <2>1. IdleJob.op = "none"
    BY DEF IdleJob
  <2>2. job' = IF job.todo = {First} THEN IdleJob ELSE [job EXCEPT !.op = "archive", !.todo = job.todo \ {First}]
    <3>1. CASE job.todo = {First}
      BY <3>1 DEF ObsUnlinks, Rest
    <3>2. CASE job.todo # {First}
      <4>1. Rest = [job EXCEPT !.todo = job.todo \ {First}] /\ Rest.op = "filled"
        BY <1>1, <1>2, <3>2 DEF Rest, ObsJob
      <4>2. Rest # IdleJob
        BY <2>1, <4>1
      <4>3. job' = [Rest EXCEPT !.op = "archive"]
        BY <4>2 DEF ObsUnlinks
      <4> QED
        BY <1>2, <3>2, <4>1, <4>3 DEF ObsJob
    <3> QED
      BY <3>1, <3>2
  <2> QED
    BY <1>1, <1>6, <2>2, RestTrue
<1>8. ObsCacheTrue'
  BY <1>1, <1>6, CacheDescends
<1>9. ObsTyped'
  BY <1>1, <1>6, <1>7 DEF ObsInv, ObsTyped
<1>10. KeepsActive
  <2> SUFFICES ASSUME NEW q \in {"active"} \X Months, NEW l \in shard[q].lines PROVE \E k \in Listed' : k.id = l.id
    BY DEF KeepsActive
  <2>1. q \in Places
    BY DEF Places
  <2>2. CASE q # First[1]
    BY <1>6, <2>1, <2>2 DEF Listed
  <2>3. CASE q = First[1]
    <3>1. Target \in Places /\ Target # First[1]
      BY <1>2, <1>4 DEF Target, Places
    <3>2. shard'[Target].lines = First[2]
      BY <1>4, <1>6, <3>1 DEF File
    <3>3. l \in shard'[Target].lines
      BY <1>3, <2>3, <3>2
    <3> QED
      BY <3>1, <3>3 DEF Listed
  <2> QED
    BY <2>2, <2>3
<1> QED
  BY <1>1, <1>6, <1>7, <1>8, <1>9, <1>10, DescendsForgets DEF ObsInv, Good
-----------------------------------------------------------------------------
LEMMA ObsInvNext == ASSUME ObsInv, [ObsNext]_obsVars PROVE ObsInv' /\ [KeepsActive /\ StaysForgotten]_obsVars
<1>1. ASSUME NEW c \in Callers, (\E e \in ObsEvents : ObsCapture(c, e)) \/ ObsStore(c) \/ ObsRefused(c) PROVE Good
  BY <1>1, ObsCaptureStep, ObsStoreStep, ObsRefusedStep
<1>2. ASSUME NEW events \in SUBSET ObsEvents, ObsPrune(events) PROVE Good
  BY <1>2, ObsPruneStep
<1>3. ASSUME NEW events \in SUBSET Episodes, ObsExpire(events) PROVE Good
  BY <1>3, ObsExpireStep, ObsAssumption
<1>4. CASE ObsCompact \/ ObsArchive
  BY <1>4, ObsOldStep DEF Good
<1>5. CASE ObsRewrite \/ ObsOpens \/ ObsFills \/ ObsUnlinks
  BY <1>5, ObsRewriteStep, ObsOpensStep, ObsFillsStep, ObsUnlinksStep DEF Good
<1>6. CASE ObsJobFails \/ ObsCrash \/ ObsTick
  BY <1>6, ObsJobFailsStep, ObsCrashStep, ObsTickStep DEF Good
<1>7. CASE UNCHANGED obsVars
  <2>1. UNCHANGED <<month, shard, cache, caller, job, obsMade, obsFaults>>
    BY <1>7 DEF obsVars
  <2>2. ObsInv'
    BY <2>1, NothingWritten DEF ObsInv, ObsTyped
  <2> QED
    BY <1>7, <2>2
<1> QED
  BY <1>1, <1>2, <1>3, <1>4, <1>5, <1>6, <1>7 DEF ObsNext, Good

\* An event is recorded once, a capture is answered with what the journal holds, a rewriting loses
\* no line that was appended meanwhile, and nothing that expired is revived, whichever files are
\* rewritten or moved and wherever that fails or dies (observation-service.ts:462, 563-582, 646-690, 748, 876, 902-940).
THEOREM ObsAlwaysKept == ObsSpec => ObsKept
<1>1. ObsSpec => []ObsInv
  BY ObsInvInit, ObsInvNext, PTL DEF ObsSpec
<1>2. ObsInv => ObsTypeOK /\ ObsEventOnce /\ ObsCacheTrue
  BY DEF ObsInv, ObsTyped, ObsTypeOK, Shard, ObsJob
<1>3. ObsSpec => [][KeepsActive /\ StaysForgotten]_obsVars
  BY <1>1, ObsInvNext, PTL DEF ObsSpec
<1>4. ObsSpec => [](ObsTypeOK /\ ObsEventOnce /\ ObsCacheTrue)
  BY <1>1, <1>2, PTL
<1>5. ObsSpec => [][KeepsActive]_obsVars /\ [][StaysForgotten]_obsVars
  BY <1>3, PTL
<1>6. ObsSpec => ObsActiveKept
  BY <1>5 DEF ObsActiveKept, KeepsActive
<1>7. ObsSpec => ObsForgotten
  BY <1>5, PTL DEF ObsForgotten, StaysForgotten
<1> QED
  BY <1>4, <1>6, <1>7 DEF ObsKept
=============================================================================
