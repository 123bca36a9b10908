SPECIFICATION Spec
CONSTANTS
  None = None
  Notes = {n1}
  Hidden = {}
  MaxEdits = 1
  MaxStarts = 2
  MaxFlights = 1
INVARIANT CacheNeverBlocksStart
CHECK_DEADLOCK FALSE
