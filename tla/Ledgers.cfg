CONSTANTS
  t1 = t1
  t2 = t2
  e1 = e1
  e2 = e2
  Events = {e1, e2}
  InboxLimit = 1
  MaxAttempts = 1
  MaxFaults = 1
  Turns = {t1, t2}
  NoTurn = NoTurn
  Partial <- PartialOf
  Whole <- WholeOf
  Recorded <- OneEvent
  RecoveryLimit = 2
  Tasks = {r1, r2}
  NoTask = NoTask
  RefineAttempts = 2
  RefineCalls = 1
  RefineFaults = 2
SPECIFICATION MCSpec
CHECK_DEADLOCK FALSE
INVARIANTS LedgersSafe
PROPERTIES  LedgersSettle
