SPECIFICATION Spec
CONSTANTS
  Clients = {c1}
  Routes <- OneRoute
  Policies <- OnePolicy
  Requests = {r1, r2}
  Second = 2
  MaxClock = 6
  MaxHits = 3
PROPERTIES
  RetryMeetsNewWindow
