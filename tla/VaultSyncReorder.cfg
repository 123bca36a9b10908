SPECIFICATION Spec
CONSTANTS
  None = None
  Notes = {n1}
  Hidden = {}
  MaxEdits = 2
  MaxStarts = 1
  MaxFlights = 2
INVARIANT LiveEditsReachGraph
CHECK_DEADLOCK FALSE
