CONSTANTS
  Files <- MCFiles
  LineBuf = 8
  Short = {"x", "y"}
  Number <- MCNumber
  NULL = NULL
SPECIFICATION Spec
CHECK_DEADLOCK FALSE
INVARIANTS
  TypeOK
  DefaultServerScope
  VhostScope
  ReadAsWritten
