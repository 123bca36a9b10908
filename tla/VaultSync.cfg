SPECIFICATION Spec
CONSTANTS
  None = None
  Notes = {n1, n2}
  Hidden = {h}
  MaxEdits = 2
  MaxStarts = 2
  MaxFlights = 2
SYMMETRY MCSymmetry
INVARIANTS
  TypeOK
  GraphFollowsVault
  IndexFollowsVault
  ExcludedStaysOut
CHECK_DEADLOCK FALSE
