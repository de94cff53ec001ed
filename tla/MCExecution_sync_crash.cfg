\* The API process dies before the dispatch of a synchronous request.
CONSTANTS
  None = None
  s1 = s1
  s2 = s2
  a1 = a1
  b1 = b1
  b2 = b2
  e1 = e1
  w1 = w1
  w2 = w2
  i1 = i1
  i2 = i2
  h1 = h1
  h2 = h2
  Session = {s1, s2}
  SessionOf <- Sessions
  Request = {a1, b1, b2, e1}
  Async = {a1}
  Verified = {a1, b2}
  Ephemeral = {s2}
  Owner = {w1, w2, i1, i2}
  Worker = {w1, w2}
  Mortal = {i1}
  Digest = {h1, h2}
  Punctual = TRUE
  MaxEpoch = 1
  MaxFaults = 1
  Scenes <- Deserted
SPECIFICATION FairMCSpec
PROPERTIES
  SyncRequestSettles
\* Requests settle, handlers return and executors die: the system may stop.
CHECK_DEADLOCK FALSE
