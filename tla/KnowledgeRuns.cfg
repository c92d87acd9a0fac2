\* Three observations of two workspaces, every order of creation and of storing.
CONSTANTS
  Observations = {1, 2, 3}
  Workspaces = {1, 2}
  Of <- OfThree
  None = None
  All = All
  Threshold = 2
  CreatedAt <- CreatedThree
  MaxQueue = 1
  MaxCrashes = 1
SPECIFICATION FairSpec
CHECK_DEADLOCK FALSE
INVARIANTS Awaited
PROPERTIES  Settles
