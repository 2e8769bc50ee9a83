CONSTANTS
  Elems = {e1, e2}
  NULL = NULL
  Junk = Junk
  InitCapacity = 2
  EXPAND_RATE = 2
  Indices <- MCIndices
  MaxLen = 5
  SetMayGrow = TRUE
  ExpandMayFail = FALSE
SPECIFICATION Spec
SYMMETRY Symmetry
INVARIANT
  NoOverrun
