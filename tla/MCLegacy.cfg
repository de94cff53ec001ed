SPECIFICATION MCSpec
CONSTANTS
  Parts = {"jobs", "corpus"}
  Submits = {s1, s2}
  Cancels = {}
  Keys = {k1, k2}
  Workers = {w1, w2}
  Kept = kept
  MaxAttempts = 2
  MaxFaults = 1
  Nothing = Nothing
  Ingests = {i1, i2}
  Stages = {g1, g2}
  Payloads = {x}
  Types = {t1, t2}
  Materials = 2
  Referenced = {2}
  Absent = Absent
SYMMETRY Symmetry
\* Calls, claims and executions are bounded: the system may stop.
CHECK_DEADLOCK FALSE
INVARIANTS
  LegacySafe
  CorpusSafe
PROPERTIES
  NoTurnIsLost
