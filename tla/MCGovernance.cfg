SPECIFICATION Spec
CONSTANTS
  Builds = {"one", "two"}
  Builtin <- Plane
  Wire <- Wires
  Account <- Owners
  Nothing = Nothing
  Settings <- Deployments
  MaxSessions = 1
INVARIANTS
  GovernanceSafe
  DeclaredOrder
