CONSTANTS
  Uris <- MCUris
  ContentTypes <- MCContentTypes
  Width <- MCWidth
  Wording <- MCWording
  INT_MAX = 15
  SendMax = 13
  Sizes = {0, 1, 2, 13, 15, 16, 32, 45}
  MaxWrites = 2
SPECIFICATION Spec
CHECK_DEADLOCK FALSE
INVARIANTS
  TypeOK
  Framing
  StatusMatchesBody
  RawFits
  OverrunNeedsGrowth
