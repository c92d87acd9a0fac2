\* Redeliveries of one event, with colliding identities, crashes and failing
\* saves, over a time in which a receipt can expire;
\* three captures of three events, over two months, by two callers, with a failure
\* or a crash; three candidates, with a failure or a crash, and two times that something
\* is forgotten or revoked.
CONSTANTS
  d1 = d1  d2 = d2  d3 = d3  k1 = k1  k2 = k2  t1 = t1  s1 = s1
  Deliveries = {d1, d2, d3}
  Keys = {k1}
  Scopes = {s1, s2}
  Tokens = {}
  NoToken = NoToken
  Stamp <- Stamp1
  TokenExp <- NoTokenExps
  Ttl = 4
  MaxAge = 1
  MaxWait = 1
  MaxTime = 6
  v1 = v1  v2 = v2  v3 = v3
  ObsEvents = {v1, v2, v3}
  NoEvent = NoEvent
  Episodes = {v1}
  MonthOf <- EventMonths
  LastMonth = 2
  MaxObs = 3
  MaxObsFaults = 1
  Callers = {b1, b2}
  f1 = f1  f2 = f2  f3 = f3  o1 = o1  o2 = o2  x1 = x1  x2 = x2
  Facts = {f1, f2, f3}
  NoFact = NoFact
  Sources = {o1, o2}
  Texts = {x1, x2}
  Evidence <- FactEvidence
  Says <- FactSays
  Rivals <- FactRivals
  Corrects <- FactCorrects
  MaxFactFaults = 1
  MaxAsked = 2
SPECIFICATION MCSpec
CHECK_DEADLOCK FALSE
SYMMETRY Symmetric
INVARIANTS RepliesTrue AtMostOnce FactSafe
 
