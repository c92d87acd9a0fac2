\* Two conversations, with rows made and hooks that name conversations up to four
\* in all, and a restart; two notes over two commits, with two crashes, changes of the
\* settings or errors.
CONSTANTS
  Convs = {c1, c2}
  NoConv = NoConv
  RowLimit = 2
  MaxRows = 3
  SessBudget = 4
  Restarts = 1
  Notes = {n1, n2}
  NoNote = NoNote
  Threshold = 2
  MaxCommits = 2
  MaxUpsets = 2
SPECIFICATION MCSpec
SYMMETRY Symmetric
CHECK_DEADLOCK FALSE
  
PROPERTIES SessRowsKept
