\* Three runs on two slots; a dev server and two background commands on two
\* slots.
CONSTANTS
  Runs = {r1, r2, r3}
  MaxConcurrency = 2
  d1 = d1  p1 = p1  NoJob = NoJob
  Dev = {d1}
  Adhoc = {a1, a2}
  Project <- Server
  Stubborn = {}
  Limit = 2
  Kept = 1
  MaxTime = 1
SPECIFICATION MCSpec
CHECK_DEADLOCK FALSE
INVARIANTS AgentsWatched SlotAccounting NoIdleSlot
PROPERTIES RunnerSound 
