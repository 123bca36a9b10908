SPECIFICATION FairSpec
CONSTANTS
  PipeCapacity = 2
  MaxResult = 4
  MaxCycles = 2
INVARIANTS
  TypeOK
  ReturnedCleanly
PROPERTIES
  ParentReturns
  ResultDelivered
