\* Two observations of one workspace, the older one stored after the younger.
CONSTANTS
  Observations = {1, 2}
  Workspaces = {1}
  Of <- OfTwo
  None = None
  All = All
  Threshold = 2
  CreatedAt <- CreatedTwo
  MaxQueue = 1
  MaxCrashes = 0
SPECIFICATION Spec
CHECK_DEADLOCK FALSE
INVARIANT NoneSkipped
