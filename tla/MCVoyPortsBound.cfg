CONSTANTS
  Configs <- MCConfigs
  DefaultPort = 9090
SPECIFICATION Spec
CHECK_DEADLOCK FALSE
INVARIANT BoundIsUnprivileged
