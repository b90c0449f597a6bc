SPECIFICATION Spec
CONSTANTS
  None = None
  Users = {u1, u2}
  Profiles = {p1, p2}
  Legacy = {p2}
  Bodies = {b1, b2}
  Requests = {r1, r2}
  Ops <- ItemRunOps
  TTL = 1
  MaxClock = 1
SYMMETRY Symmetry
PROPERTIES
  RowsChangeForTheirOwner
  KeepsPromise
