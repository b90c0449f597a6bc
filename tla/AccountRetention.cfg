SPECIFICATION FairSpec
CONSTANTS
  None = None
  Users = {u1, u2}
  Profiles = {p1}
  Legacy = {}
  Bodies = {b1}
  Requests = {r1}
  Ops <- RetentionOps
  TTL = 1
  MaxClock = 2
PROPERTIES
  StaleDataIsErased
