SPECIFICATION Spec
CONSTANTS
  Callers = {c1, c2, c3}
  MaxFailures = 2
  MayReset = FALSE
INVARIANT SingleProbe
