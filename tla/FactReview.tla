------------------------------ MODULE FactReview ------------------------------
(***************************************************************************)
(* What is remembered of the user: candidates that a review turns into facts *)
(* (knowledge/review-service.ts), the journal that makes an approval whole   *)
(* across failures and crashes (fact-review-recovery.ts), the readers of     *)
(* facts (truth-service.ts), and what the user has forgotten or revoked      *)
(* (personal-memory-forgetting.ts, observation-revocation.ts).               *)
(*                                                                         *)
(* A fact bears the name of the candidate it was made of.  One lock          *)
(* serialises whatever changes the files; taking it completes or undoes an   *)
(* approval that was cut short.  Left out: refinement, which is in            *)
(* RefinementTasks, advice, the strength of memories, times to live, edits    *)
(* of the files by others, facts that were there before reviews, observations *)
(* that are related to a revoked one, and an approval of what is no longer as *)
(* it was shown, which is refused.                                          *)
(***************************************************************************)
EXTENDS FiniteSets, Naturals

CONSTANTS
  Facts, NoFact,
  Sources, Evidence,  \* observations, and those each candidate rests on
  Texts, Says,        \* what each says
  Rivals,             \* pairs of texts that give one setting two values
  Corrects,           \* the fact that each candidate was made to correct
  MaxFactFaults, MaxAsked \* bounds on failures and crashes, and on what is forgotten or revoked

ASSUME FactAssumption ==
  /\ IsFiniteSet(Facts) /\ NoFact \notin Facts /\ MaxFactFaults \in Nat /\ MaxAsked \in Nat
  /\ Evidence \in [Facts -> SUBSET Sources] /\ Says \in [Facts -> Texts]
  /\ Corrects \in [Facts -> Facts \cup {NoFact}]
  /\ Rivals \subseteq SUBSET Texts /\ \A t \in Texts : {t} \notin Rivals \* two values differ

VARIABLES
  truth,      \* facts.jsonl
  proposals,  \* candidates.jsonl; of a correction, with the sources its target had
  journal,    \* review-pending.json: the approval, and both files before and after
  audited,    \* approvals on record in audit.jsonl
  forgotten,  \* forgotten.json: what it blocks
  revoked,    \* revoked.json: what it blocks
  same,       \* reviewRevision is what it was when the reader began
  work,       \* who has the lock, and how far it is
  reader,     \* a call of KnowledgeTruthService.list
  factFaults,
  settled,    \* history: the facts of the last approval that is on record
  asked,
  secrets     \* history: what the user asked to forget or revoked, with its versions

factFiles == <<truth, proposals, journal, audited, forgotten, revoked>>
factVars == <<factFiles, same, work, reader, factFaults, asked, settled, secrets>>

Row == [status : {"none", "active", "archived"}, sources : SUBSET Sources, over : Facts \cup {NoFact}]
NoRow == [status |-> "none", sources |-> {}, over |-> NoFact]
NoJournal == [fact |-> NoFact]
Unlocked == [op |-> "none"]
Nothing == [facts |-> {}, candidates |-> {}, sources |-> {}, texts |-> {}]
NotReading == [at |-> "idle"]

FactInit ==
  /\ truth = [f \in Facts |-> NoRow] /\ proposals = [f \in Facts |-> [status |-> "none", bound |-> {}]]
  /\ journal = NoJournal /\ audited = {} /\ forgotten = Nothing /\ revoked = Nothing /\ same = TRUE /\ asked = 0
  /\ work = Unlocked /\ reader = NotReading /\ factFaults = 0 /\ settled = truth /\ secrets = Nothing
-----------------------------------------------------------------------------
(* The two barriers, over rows of facts. *)
Forgets(b, rows, f) ==
  \/ f \in b.facts \/ rows[f].over \in b.facts \/ Says[f] \in b.texts
  \/ rows[f].sources \cap b.sources # {}
Revokes(b, rows, f) == f \in b.facts \/ rows[f].sources \cap b.sources # {}
\* A candidate is judged as the fact that it would become, and by what it corrects.
Proposal(f) == [NoRow EXCEPT !.sources = Evidence[f], !.over = Corrects[f]]
ForgetsCandidate(b, f) == f \in b.candidates \/ Forgets(b, [g \in Facts |-> Proposal(g)], f)
RevokesCandidate(b, f) == Revokes(b, [g \in Facts |-> Proposal(g)], f)
Shown(rows, b, r) ==
  {f \in Facts : rows[f].status = "active" /\ ~Forgets(b, rows, f) /\ ~Revokes(r, rows, f)}
Refused(f) == ForgetsCandidate(forgotten, f) \/ RevokesCandidate(revoked, f)
Known == {f \in Facts : truth[f].status # "none"}
Queued == {f \in Facts : proposals[f].status # "none"}

\* Nobody has the lock, and there is nothing that taking it would complete.
LockReady == work = Unlocked /\ journal = NoJournal
-----------------------------------------------------------------------------
\* A correction is of an active fact as it was shown; one that is proposed of what is no
\* longer so is left out: it can only be refused.
Propose(f) ==
  /\ LockReady /\ proposals[f].status = "none" /\ ~Refused(f)
  /\ Corrects[f] # NoFact => truth[Corrects[f]].status = "active"
  /\ proposals' = [proposals EXCEPT ![f] = [status |-> "proposed",
                 bound |-> IF Corrects[f] = NoFact THEN {} ELSE truth[Corrects[f]].sources]]
  /\ UNCHANGED <<truth, journal, audited, forgotten, revoked, same, work, reader, factFaults, asked, settled, secrets>>

\* What blocks these facts and candidates, and all that rests on or says the same.
Blocks(F, K, sources, texts) ==
  [facts |-> F \cup K, candidates |-> K, texts |-> texts \cup {Says[f] : f \in F \cup K},
   sources |-> sources \cup (UNION {truth[f].sources : f \in F}) \cup (UNION {Evidence[f] : f \in K})]
\* The rows a forgetting of these facts, sources and texts reaches: older and newer
\* versions, and whatever shares a source or a text with one of them.
Closed(facts, sources, texts, F, K) ==
  LET b == Blocks(F, K, sources, texts)
  IN /\ facts \subseteq F
     /\ \A f \in Known \ F : ~Forgets(b, truth, f) /\ \A g \in Known : g \in F => truth[g].over # f
     /\ \A f \in Queued \ K : ~ForgetsCandidate(b, f)
Reached(facts, sources, texts) ==
  LET Pairs == {p \in (SUBSET Known) \X (SUBSET Queued) : Closed(facts, sources, texts, p[1], p[2])}
  IN Blocks({f \in Known : \A p \in Pairs : f \in p[1]}, {f \in Queued : \A p \in Pairs : f \in p[2]},
            sources, texts)
Joined(a, b) == [k \in DOMAIN a |-> a[k] \cup b[k]]

\* The versions a fact replaced, itself among them.
Versions(facts) ==
  {f \in Known : \E F \in SUBSET Known : f \in F /\ \A g \in F \ facts : \E h \in F : truth[h].over = g}
\* By fact, by query, by episode, or by a field of the profile.
Forget(facts, sources, texts) ==
  /\ LockReady /\ asked < MaxAsked /\ asked' = asked + 1 /\ \A f \in facts : truth[f].status = "active"
  /\ forgotten' = Joined(forgotten, Reached(facts, sources, texts))
  /\ secrets' = LET V == Versions(facts)
                IN Joined(secrets, [facts |-> V, candidates |-> {}, texts |-> texts \cup {Says[f] : f \in V},
                                    sources |-> sources \cup UNION {truth[f].sources : f \in V}])
  /\ UNCHANGED <<truth, proposals, journal, audited, revoked, same, work, reader, factFaults, settled>>
\* The facts that rest on a source, and those of candidates that do.
Revoke(o) ==
  LET b == [Nothing EXCEPT !.sources = {o}]
  IN /\ LockReady /\ asked < MaxAsked /\ asked' = asked + 1 /\ o \notin revoked.sources
     /\ revoked' = Joined(revoked, [b EXCEPT !.facts = {f \in Known : Revokes(b, truth, f)}
                                                 \cup {f \in Queued : RevokesCandidate(b, f)}])
     /\ secrets' = Joined(secrets, b)
     /\ UNCHANGED <<truth, proposals, journal, audited, forgotten, same, work, reader, factFaults, settled>>
-----------------------------------------------------------------------------
\* The shown facts that a candidate would contradict, or was made to correct.
Conflicts(f) ==
  {g \in Shown(truth, forgotten, revoked) : g = Corrects[f] \/ {Says[f], Says[g]} \in Rivals}
Duplicates(f) ==
  IF Corrects[f] # NoFact THEN {} ELSE {g \in Shown(truth, forgotten, revoked) : Says[g] = Says[f]}
Bound(f) ==
  Corrects[f] # NoFact => truth[Corrects[f]].status = "active" /\ truth[Corrects[f]].sources = proposals[f].bound
New(f, over) == [status |-> "active", sources |-> Evidence[f], over |-> over]
Replaced(f, g) == [truth EXCEPT ![g].status = "archived", ![f] = New(f, g)]
\* The facts as they will be: a version replaced, evidence added, or a fact added.
After(f) ==
  IF Conflicts(f) # {} THEN Replaced(f, CHOOSE g \in Conflicts(f) : TRUE)
  ELSE IF Duplicates(f) # {} THEN [truth EXCEPT ![CHOOSE g \in Duplicates(f) : TRUE].sources = @ \cup Evidence[f]]
  ELSE [truth EXCEPT ![f] = New(f, NoFact)]
\* Whoever reads at this moment will fail.
Counted == reader = NotReading
\* Reviewed, and checked; what follows waits for one file after another.
Approve(f) ==
  /\ LockReady /\ proposals[f].status = "proposed" /\ ~Refused(f)
  /\ truth[f].status = "none" /\ Bound(f)
  /\ Cardinality(Conflicts(f)) <= 1 /\ (Conflicts(f) = {} => Cardinality(Duplicates(f)) <= 1)
  /\ same' = Counted
  /\ work' = [op |-> "journal", fact |-> f, truths |-> <<truth, After(f)>>,
              queues |-> <<proposals, [proposals EXCEPT ![f].status = "applied"]>>]
  /\ UNCHANGED <<factFiles, reader, factFaults, asked, settled, secrets>>
Then(op) == work' = [work EXCEPT !.op = op] /\ UNCHANGED <<forgotten, revoked, reader, factFaults, asked, secrets>>
FactJournal ==
  /\ work.op = "journal" /\ Then("facts")
  /\ journal' = [fact |-> work.fact, truths |-> work.truths, queues |-> work.queues]
  /\ UNCHANGED <<truth, proposals, audited, same, settled>>
FactWrite ==
  /\ work.op = "facts" /\ Then("candidates") /\ truth' = work.truths[2]
  /\ UNCHANGED <<proposals, journal, audited, same, settled>>
CandidateWrite ==
  /\ work.op = "candidates" /\ Then("audit") /\ proposals' = work.queues[2]
  /\ UNCHANGED <<truth, journal, audited, same, settled>>
\* The approval and its parts go on record at once: it has happened.
Audit ==
  /\ work.op = "audit" /\ Then("recover") /\ audited' = audited \cup {work.fact} /\ settled' = work.truths[2]
  /\ UNCHANGED <<truth, proposals, journal, same>>
Reject(f) ==
  /\ LockReady /\ proposals[f].status = "proposed" /\ proposals' = [proposals EXCEPT ![f].status = "rejected"]
  /\ UNCHANGED <<truth, journal, audited, forgotten, revoked, same, work, reader, factFaults, asked, settled, secrets>>
-----------------------------------------------------------------------------
(* recoverPendingFactReview: at the end of an approval, however it went, and *)
(* by whoever has the lock next.                                          *)
Side == IF journal.fact \in audited THEN 2 ELSE 1
\* Who takes the lock; it is at the start of the application, too.
FactRecover ==
  /\ work = Unlocked /\ journal # NoJournal /\ work' = [op |-> "recover"]
  /\ UNCHANGED <<factFiles, same, reader, factFaults, asked, settled, secrets>>
RecoverCounts ==
  /\ work.op = "recover" /\ work' = [op |-> "facts again"] /\ same' = Counted
  /\ UNCHANGED <<factFiles, reader, factFaults, asked, settled, secrets>>
RecoverFacts ==
  /\ work.op = "facts again" /\ work' = [op |-> "candidates again"] /\ truth' = journal.truths[Side]
  /\ UNCHANGED <<proposals, journal, audited, forgotten, revoked, same, reader, factFaults, asked, settled, secrets>>
RecoverCandidates ==
  /\ work.op = "candidates again" /\ work' = [op |-> "unlink"] /\ proposals' = journal.queues[Side]
  /\ UNCHANGED <<truth, journal, audited, forgotten, revoked, same, reader, factFaults, asked, settled, secrets>>
RecoverUnlinks ==
  /\ work.op = "unlink" /\ work' = [op |-> "release"] /\ journal' = NoJournal
  /\ UNCHANGED <<truth, proposals, audited, forgotten, revoked, same, reader, factFaults, asked, settled, secrets>>
RecoverReleases ==
  /\ work.op = "release" /\ work' = Unlocked /\ same' = Counted
  /\ UNCHANGED <<factFiles, reader, factFaults, asked, settled, secrets>>

\* A file cannot be read or written: an approval recovers, if it began to write, and a
\* recovery leaves the journal to the next.
FactFails ==
  /\ work.op \in {"journal", "facts", "candidates", "audit", "facts again", "candidates again", "unlink"}
  /\ factFaults < MaxFactFaults /\ factFaults' = factFaults + 1
  /\ work' = IF work.op \in {"facts", "candidates", "audit"} THEN [op |-> "recover"] ELSE Unlocked
  /\ UNCHANGED <<factFiles, same, reader, asked, settled, secrets>>
FactCrash ==
  /\ factFaults < MaxFactFaults /\ factFaults' = factFaults + 1
  /\ work' = Unlocked /\ same' = TRUE /\ reader' = NotReading
  /\ UNCHANGED <<factFiles, asked, settled, secrets>>
-----------------------------------------------------------------------------
(* A reader takes no lock.                                                *)
ReadBegins ==
  /\ reader = NotReading /\ journal = NoJournal
  /\ reader' = [at |-> "facts", since |-> secrets] /\ same' = TRUE
  /\ UNCHANGED <<factFiles, work, factFaults, asked, settled, secrets>>
Reads(next) == reader' = next /\ UNCHANGED <<factFiles, same, work, factFaults, asked, settled, secrets>>
ReadFacts ==
  /\ reader.at = "facts"
  /\ Reads([at |-> "forgotten", since |-> reader.since, rows |-> truth, whole |-> settled])
ReadForgotten ==
  /\ reader.at = "forgotten"
  /\ Reads([at |-> "revoked", since |-> reader.since, rows |-> reader.rows, whole |-> reader.whole,
            shown |-> Shown(reader.rows, forgotten, Nothing)])
ReadRevoked ==
  /\ reader.at = "revoked"
  /\ Reads([reader EXCEPT !.at = "check", !.shown = {f \in @ : ~Revokes(revoked, reader.rows, f)}])
\* Mutant: what has begun since is not looked for.
NotLooked == TRUE
Undisturbed == journal = NoJournal /\ same
\* It is answered with what is shown, or fails.
ReadAnswered == reader.at = "check" /\ Undisturbed
ReadEnds == reader.at = "check" /\ Reads(NotReading)

FactNext ==
  \/ \E f \in Facts : Propose(f) \/ Approve(f) \/ Reject(f) \/ Forget({f}, {}, {})
  \/ \E o \in Sources : Revoke(o) \/ Forget({}, {o}, {})
  \/ \E t \in Texts : Forget({}, {}, {t})
  \/ FactJournal \/ FactWrite \/ CandidateWrite \/ Audit
  \/ FactRecover \/ RecoverCounts \/ RecoverFacts \/ RecoverCandidates \/ RecoverUnlinks \/ RecoverReleases
  \/ FactFails \/ FactCrash
  \/ ReadBegins \/ ReadFacts \/ ReadForgotten \/ ReadRevoked \/ ReadEnds
FactSpec == FactInit /\ [][FactNext]_factVars
-----------------------------------------------------------------------------
\* Every variable has its type, and a fact is archived when another one replaces it.
FactTypeOK ==
  /\ truth \in [Facts -> Row] /\ settled \in [Facts -> Row] /\ same \in BOOLEAN /\ asked \in 0..MaxAsked /\ factFaults \in 0..MaxFactFaults
  /\ proposals \in [Facts -> [status : {"none", "proposed", "rejected", "applied"}, bound : SUBSET Sources]]
  /\ audited \subseteq Facts /\ journal.fact \in Facts \cup {NoFact}
  /\ reader.at \in {"idle", "facts", "forgotten", "revoked", "check"}
  /\ \A b \in {forgotten, revoked, secrets} :
       b.facts \subseteq Facts /\ b.candidates \subseteq Facts /\ b.sources \subseteq Sources /\ b.texts \subseteq Texts
  /\ \A f \in Facts : truth[f].status = "archived" <=> \E g \in Facts : truth[g].over = f

\* An approval is whole or has not happened, whatever failed in it and wherever the
\* process died: once nobody is at it, the facts are those of the last approval on
\* record, and a candidate is applied if its approval is on record
\* (fact-review-recovery.ts:53-75, review-service.ts:300-306).
FactAllOrNone ==
  LockReady => truth = settled /\ \A f \in Facts : proposals[f].status = "applied" <=> f \in audited

\* Who reads without the lock is answered with the facts as one of the approvals on
\* record left them, never with half of one, nor with one that was taken back
\* (fact-review-recovery.ts:43-50, truth-service.ts:151-156).
FactReadWhole == ReadAnswered => reader.rows = reader.whole

\* What was forgotten, the versions it replaced, what they said and what they rest on, are
\* in no answer to who asks after, and neither is what is approved later that says or
\* rests on it or replaces it; nor is what rests on a source that was withdrawn
\* (personal-memory-forgetting.ts:74-107, observation-revocation.ts:48-72).
FactForgotten ==
  ReadAnswered => \A f \in reader.shown :
    /\ f \notin reader.since.facts /\ reader.rows[f].over \notin reader.since.facts
    /\ Says[f] \notin reader.since.texts /\ reader.rows[f].sources \cap reader.since.sources = {}

\* No two facts shown give one setting two values, however their reviews are ordered with
\* corrections, failures and what is forgotten (fact-conflicts.ts:21-36, review-service.ts:414-442).
FactOneValue ==
  LockReady => \A f, g \in Shown(truth, forgotten, revoked) : {Says[f], Says[g]} \notin Rivals

\* Approvals are whole, for the next one and for who reads; what is shown neither
\* contradicts itself nor rests on what was forgotten or withdrawn.
FactSafe == FactTypeOK /\ FactAllOrNone /\ FactReadWhole /\ FactForgotten /\ FactOneValue
=============================================================================
