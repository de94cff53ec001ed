SPECIFICATION MCSpec
CONSTANTS
  Protocols = {"gemini", "claude", "chat"}
  Formats = {"unified", "dual"}
  Policies <- MCPolicies
  Deltas <- Steps
  Gaps <- Pauses
  MaxTurns = 4
  TTL = 5
  Nothing = Nothing
INVARIANTS
  PlanningSafe
  ForecastsPay
PROPERTIES
  SpendingIsFounded
  CreationIsJustified
