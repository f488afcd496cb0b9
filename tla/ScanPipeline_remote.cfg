SPECIFICATION PipeSpec
CONSTANTS Execs = {x1} JobDir = jobdir Overlap = FALSE NoRow = norow
INVARIANT TempOutlivesResolve
CHECK_DEADLOCK FALSE
