SPECIFICATION FairSpec
CONSTANTS
  PipeCapacity = 2
  MaxResult = 3
  MaxCycles = 1
PROPERTIES
  AlwaysReturns
