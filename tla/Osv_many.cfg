SPECIFICATION OsvSpec
CONSTANTS OsvItems = {i1} OsvIds = {o1, o2, o3, o4, o5} OsvConcurrency = 2
PROPERTY EnrichmentEnds
CHECK_DEADLOCK FALSE
