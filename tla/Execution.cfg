\* A run that may be attempted twice and be started, or started and taken over,
\* twice; two calls of runExecute; an edit of the code or of the contract; an error
\* or a crash.
CONSTANTS
  Runs = {r1}
  Execs = {c1, c2}
  NoRun = NoRun
  MaxThreads = 2
  MaxAuto = 1
  MaxEdits = 1
  MaxAttempts = 2
  MaxTokens = 2
  ExecUpsets = 1
SPECIFICATION ExecSpec
SYMMETRY Calls
CHECK_DEADLOCK FALSE
INVARIANTS ExecSafe
PROPERTIES ExecHeeded
