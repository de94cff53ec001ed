SPECIFICATION Spec
CONSTANTS
  o1 = o1
  o2 = o2
  c0 = c0
  c1 = c1
  c2 = c2
  c3 = c3
  k0 = k0
  k1 = k1
  k2 = k2
  Deployments <- MCDeployments
  Nothing = Nothing
SYMMETRY CallerSymmetry
\* Every call may be answered and every request settled: the system may stop.
CHECK_DEADLOCK FALSE
INVARIANTS
  AdmissionSafe
  RetryIsNoConflict
  RunsOnThePin
  PlannedOnTheHistory
