CONSTANTS
  Nodes = {n1, n2, n3}
  Keys = {"a", "same", "near", "far"}
  Values = {v1, v2}
  Hash <- MCHash
  NUM_OF_BUCKETS = 2
  NULL = NULL
  Reused = {"same", "junk"}
SPECIFICATION Spec
SYMMETRY Symmetry
INVARIANTS
  TypeOK
  NodesInBuckets
PROPERTIES
  IsMultimap
