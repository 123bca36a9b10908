SPECIFICATION Spec
CONSTANTS
  None = None
  Nodes = {a, b}
  Questions = {q1}
  Calls = {c1}
  CacheSize = 1
  MaxVersion = 3
INVARIANT CommunitiesInGraph
