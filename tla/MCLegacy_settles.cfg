SPECIFICATION MCFairSpec
CONSTANTS
  Parts = {"jobs"}
  Submits = {s1}
  Cancels = {x1}
  Keys = {k1}
  Workers = {w1, w2}
  Kept = kept
  MaxAttempts = 3
  MaxFaults = 2
  Nothing = Nothing
  Ingests = {}
  Stages = {}
  Payloads = {x}
  Types = {}
  Materials = 1
  Referenced = {}
  Absent = Absent
\* Calls and claims are bounded: the system may stop.
CHECK_DEADLOCK FALSE
PROPERTIES
  JobsSettle
