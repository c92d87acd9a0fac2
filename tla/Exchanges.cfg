\* Two tasks and an undo over one note that is edited by other means too, with an
\* error or a crash; three changes between two settings and none; two calls that
\* send one event; two starts of the remote host with a phone and three stops,
\* windows that close or changes of the feature; three starts and stops of the relay
\* with an update between two releases.
CONSTANTS
  Tasks = {t1, t2}
  Undos = {u1}
  Docs = {d1}
  NoDoc = NoDoc
  MaxWrites = 2
  MaxRequests = 3
  MaintUpsets = 1
  Settings = {x, y}
  Off = Off
  MaxChanges = 3
  Sends = {s1, s2}
  Ttl = 3
  MaxSending = 2
  MaxClock = 6
  Phones = {p1}
  MaxStarts = 2
  MaxHosts = 3
  MaxHostUpsets = 3
  MaxVersion = 2
  MaxCalls = 3
  MaxUpdates = 1
  MaxSpawns = 4
SPECIFICATION MCSpec
CHECK_DEADLOCK FALSE
INVARIANTS MaintSafe  CpaSafe
PROPERTIES HostSafe 
