SPECIFICATION Spec
CONSTANTS
  Jobs = {j1}
  Workers = {w1, w2}
  Reapers = {r1}
  NoOne = NoOne
  MaxRetries = 2
  QueueLimit = 1
  Budget <- OneError
INVARIANT NothingLost
SYMMETRY Symmetry
CHECK_DEADLOCK FALSE
