SPECIFICATION PartSpec
CONSTANTS
  Callers = {c1, c2, c3} MaxFailures = 2 MayReset = TRUE
  Puts = {u1, u2} Sizes = {1, 3, 4} MaxUpload = 3 Capacity = 2 S3Retries = 1 NoObject = noobject
  Pods = {d1, d2} MaxVersion = 1 MaxFaults = 1
  Visits = {v1} Crew = {w1, w2} HookSlots = 1 HookTries = 2
  OsvItems = {i1} OsvIds = {o1, o2, o3, o4} OsvConcurrency = 2
INVARIANTS
  HalfOpenHasProbe ClosedBelowThreshold BudgetConserved PutIsTrue NeverAhead
  CleanShutdown
PROPERTIES Recovers UploadsEnd PodsResync ShutdownEnds EnrichmentEnds
CHECK_DEADLOCK FALSE
