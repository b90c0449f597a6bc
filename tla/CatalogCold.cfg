SPECIFICATION Spec
CONSTANTS
  Requests = {r1, r2}
  NoService = NoService
  Free = Free
  StartMonth = 2
  Lookback = 1
  PageSize = 1
  Ttl = 1
  Catalogues <- MCCatalogues
  MaxClock = 1
INVARIANTS
  OneRefreshAtATime
