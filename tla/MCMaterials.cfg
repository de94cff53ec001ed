SPECIFICATION MCSpec
CONSTANTS
  e1 = e1
  e2 = e2
  e3 = e3
  s1 = s1
  s2 = s2
  x = x
  Freezers = {e1, e2, e3}
  Cases <- MCCases
  MaxObjects = 4
  MaxFaults = 1
  Contracts <- MCContracts
  Size <- MCSize
  Priority <- MCPriority
  None = None
SYMMETRY Symmetry
\* Requests and turns are bounded: the system may stop.
CHECK_DEADLOCK FALSE
INVARIANTS
  BindingSafe
  PlanSafe
  SignedUrlServes
  WireSaysTheSame
  ImplicitPrefixGrows
