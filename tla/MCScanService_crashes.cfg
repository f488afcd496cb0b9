SPECIFICATION Spec
CONSTANTS
  Jobs = {j1}
  Workers = {w1, w2, w3}
  Reapers = {r1, r2}
  NoOne = NoOne
  MaxRetries = 2
  QueueLimit = 1
  Budget <- Crashes
INVARIANTS TypeOK CrashesLoseNothing OneExecution FailedIsParked PackagesKept
PROPERTY ReapersNeverDuplicate
SYMMETRY Symmetry
CHECK_DEADLOCK FALSE
