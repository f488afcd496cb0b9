SPECIFICATION FairSpec
CONSTANTS
  Jobs = {j1, j2}
  Workers = {w1, w2}
  Reapers = {r1}
  NoOne = NoOne
  MaxRetries = 2
  QueueLimit = 1
  Budget <- Fair
PROPERTIES JobsSettle ListsDrain
CHECK_DEADLOCK FALSE
