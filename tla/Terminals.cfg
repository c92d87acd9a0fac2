CONSTANTS
  a = a
  b = b
  Tabs = {a, b}
  MaxPrompts <- PromptsOf
  MaxTroubles = 2
  MaxPtys = 2
  MaxSubmits = 2
  MaxCloses = 1
  MaxWork = 3
  MaxTurns = 3
  MaxRegisters = 2
  MaxUnits = 2
  MaxEpochs = 2
  MaxClock = 2
SPECIFICATION MCSpec
CHECK_DEADLOCK FALSE
INVARIANTS  TermSafe UsageBooked
PROPERTIES TurnDiffsTrue TerminalsSettle
