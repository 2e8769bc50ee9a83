CONSTANTS
  Streams <- MCStreams
  Alnum = {"GET", "POST", "Host", "Content-Length: ", "b1", "b2", "0", "1", "2", "5"}
  INT_MAX = 127
  MethodLen = 4
  LineLen = 6
  RecvLen = 20
  MaxBuffers = 3
SPECIFICATION Spec
CHECK_DEADLOCK FALSE
INVARIANT HeadersEndAtBody
