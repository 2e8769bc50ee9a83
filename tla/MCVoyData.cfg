CONSTANTS
  Elems = {e1, e2}
  Nodes = {n1, n2, n3, n4}
  Chars = {"x", ","}
  MaxText = 5
  NULL = NULL
  Junk = Junk
  InitCapacity = 2
  EXPAND_RATE = 2
  Indices <- MCIndices
  MaxLen = 5
  SetMayGrow = FALSE
  ExpandMayFail = FALSE
SPECIFICATION MCSpec
SYMMETRY Symmetry
CHECK_DEADLOCK FALSE
INVARIANTS
  TypeOK
  InBounds
  DlTypeOK
  StrOK
PROPERTIES
  IsList
  BrokenAtEndOnly
  IsListWhileSound
  TextsAsTold
  MisuseKnown
