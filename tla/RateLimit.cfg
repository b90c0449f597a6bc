SPECIFICATION FairSpec
CONSTANTS
  Clients = {c1}
  Routes <- MCRoutes
  Policies <- MCPolicies
  Requests = {r1, r2}
  Second = 1
  MaxClock = 2
  MaxHits = 3
INVARIANTS
  LimitHolds
  DenialIsEarned
PROPERTIES
  RowsAreReclaimed
  RetryIsNearlyRight
