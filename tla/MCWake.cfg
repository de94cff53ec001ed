SPECIFICATION FairSpec
CONSTANTS
  None = None
  r1 = r1
  r2 = r2
  Request = {r1, r2}
  Settings <- MCSettings
INVARIANTS
  WakeSafe
  NoStrandedJob
PROPERTIES
  StopDrains
\* A drained worker and requests that are done: the system stops.
CHECK_DEADLOCK FALSE
