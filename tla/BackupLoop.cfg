SPECIFICATION Spec
CONSTANTS
  Interval = 3
  Retry = 1
  Keep = 2
  Slack = 1
  MaxRun = 1
  MaxClock = 10
  MaxPartial = 2
INVARIANTS
  DumpsAreReadable
  HealthyMeansRecentDump
  OneFailureIsTolerated
PROPERTIES
  RotationKeepsNewest
