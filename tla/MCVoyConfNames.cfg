CONSTANTS
  Files <- MCNames
  LineBuf = 8
  Short = {"x", "y"}
  Number <- MCNumber
  NULL = NULL
SPECIFICATION Spec
CHECK_DEADLOCK FALSE
INVARIANT NamesDistinct
