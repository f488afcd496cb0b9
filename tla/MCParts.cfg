SPECIFICATION PartSpec
CONSTANTS
  IndexRetries = 2 IndexCancels = 2 IndexRevivals = 1
  Calls = {c1, c2} Keys = {k1} Bodies = {b1, b2} Chunks = 2 Absent = absent Torn = torn
  Clients = {r1, r2} KeyTTL = 1 LookupTime = 1 HourlyLimit = 1 KeyExpiry = 3 KeyHorizon = 4
  Flushers = {f1, f2} MaxUses = 3
  Callers = {a1, a2} Burst = 2 IdleTTL = 2 Horizon = 5
  Files = {p1, p2} Names = {n1, n2} Editors = {e1} Scans = {s1, s2} MaxChanges = 2 NoPatterns = nopatterns
  Execs = {x1, x2} JobDir = jobdir Overlap = FALSE NoRow = norow
  Procs = {q1, q2} DBRetries = 2 MigrationFiles = 2 NoWriterYet = nowriter
  Pipelines = {g1, g2} Fingerprints = {h1}
  RuleKinds <- TwoKinds SpanValues = {"blank", "pem"} MaxSubexp = 1 MaxLines = 2 MaxSpans = 2
  Checks = {t1, t2} Partners = {"google"}
  VerdictTTL = 1 RequestTime = 1 VerifyHorizon = 3
  Letters = {j1, j2} PageDefault = 1 maxDLQPageSize = 1 Asked = {0, 2} MaxParks = 3
  ReadJobs = {m1, m2} Values = {y1} Probes = {l1, l2} ToolsTTL = 2 CheckTime = 1 ReadHorizon = 6
INVARIANTS
   RevocationTakesEffect   
   WorkspaceReclaimed  WritesAreMigrated LiveSecretsGate
  AllowKeepsBaseline    RawNeedsOptOut
  ToolsHealthFresh
PROPERTIES LocalIsStorage  
CHECK_DEADLOCK FALSE
