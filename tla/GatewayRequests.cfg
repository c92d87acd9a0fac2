\* Two requests of one chat, or of two chats, and two terminals: every pair of
\* commands races, with a crash, expiries and one prompt of each terminal.
CONSTANTS
  Requests = {r1, r2}
  Chats = {a, b}
  Terminals = {t, u}
  None = None
  Ttl = 1
  MaxTime = 1
  MaxPrompts = 1
  MaxMessages = 3
  MaxRequests = 2
  MaxCalls = 2
  MaxSteers = 1
SPECIFICATION MCSpec
SYMMETRY Names
CHECK_DEADLOCK FALSE
INVARIANTS Recorded AnsweredOnce ChatSafe
PROPERTIES RoutedToBound
