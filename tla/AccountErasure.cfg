SPECIFICATION Spec
CONSTANTS
  None = None
  Users = {u1, u2}
  Profiles = {p1}
  Legacy = {}
  Bodies = {b1}
  Requests = {r1, r2}
  Ops <- ErasureOps
  TTL = 1
  MaxClock = 2
SYMMETRY Symmetry
INVARIANTS
  NoOrphanedData
  ErasureIsFinal
  HeartbeatIsEarned
PROPERTIES
  ErasureAnswerIsTrue
