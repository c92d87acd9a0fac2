\* Two events of which one carries the token, and the other the same event, a colliding one,
\* or another event with or without the token, under fairness and against the abstract
\* contract.
CONSTANTS
  d1 = d1  d2 = d2  d3 = d3  k1 = k1  k2 = k2  t1 = t1  s1 = s1
  Deliveries = {d1, d2}
  Keys = {k1, k2}
  Scopes = {s1, s2}
  Tokens = {t1}
  NoToken = NoToken
  Stamp <- Stamps
  TokenExp <- TokenExps
  Ttl = 4
  MaxAge = 1
  MaxWait = 1
  MaxTime = 2
SPECIFICATION TokenFairSpec
INVARIANTS TokenUsedOnceBeforeExpiry
PROPERTIES Answered ImplementsContract
