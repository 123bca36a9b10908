SPECIFICATION Spec
CONSTANTS
  Budgets = {1, 2, 3}
  MaxLines = 4
  MaxLength = 5
  BudgetedCalls = 1
  LatencyWindow = 101
  MaxCalls = 103
  MaxSlow = 2
INVARIANTS
  TypeOK
  CutIsHonest
  PercentilesAreQuantiles
