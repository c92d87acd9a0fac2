------------------------------- MODULE MCLedgers -------------------------------
(***************************************************************************)
(* Two ledgers on disk and what retries their rows: the recovery of         *)
(* transcripts with the capture inbox, and the refinement tasks.  They share *)
(* no state, so a behaviour is of one of them, `part', and the other keeps   *)
(* its first state, in which nothing of it is enabled.                      *)
(***************************************************************************)
EXTENDS TranscriptRecovery, RefinementTasks, TLC

CONSTANTS t1, t2, e1, e2

VARIABLE part

PartialOf == t1 :> {} @@ t2 :> {}
WholeOf == t1 :> {e1} @@ t2 :> {e2}
OneEvent == {e2}

ledgersVars == <<part, ledgerVars, refineVars>>

MCInit ==
  /\ part \in {"recovery", "refinement"}
  /\ RecoveryInit /\ RefineInit
  /\ part # "recovery" => enabled

MCNext ==
  /\ UNCHANGED part
  /\ \/ part = "recovery" /\ RecoveryNext /\ UNCHANGED refineVars
     \/ part = "refinement" /\ RefineNext /\ UNCHANGED ledgerVars

MCSpec == MCInit /\ [][MCNext]_ledgersVars /\ RecoveryFairness /\ RefineFairness

\* The ledgers are well formed, and the model is paid at most three times for a task.
LedgersSafe == RecoveryTypeOK /\ RefineTypeOK /\ RefineCallsBounded

\* Neither ledger lets a row go whose evidence is not kept elsewhere, and a task merges
\* what still stands and ends once.
LedgersKeep == InboxKeeps /\ RecoveryKeeps /\ RefineMergesValid /\ RefineEndsOnce

\* No turn and no task stays in its ledger for ever.
LedgersSettle == RecoverySettles /\ RefineSettles
=============================================================================
