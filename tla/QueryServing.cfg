SPECIFICATION Spec
CONSTANTS
  None = None
  Nodes = {a, b}
  Questions = {q1, q2}
  Calls = {c1, c2}
  CacheSize = 2
  MaxVersion = 3
SYMMETRY MCSymmetry
INVARIANTS
  TypeOK
  AnswersFromOwnSnapshot
  CacheBounded
  ClusteringKeepsGraph
