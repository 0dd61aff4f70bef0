SPECIFICATION StartupFairSpec
CONSTANTS
  U32 = 8
  Configs <- MCConfigs
  Envs = {"set", "blank", "unset"}
  HostFlags <- MCHostFlags
  Detections <- MCDetections
  LoadMayFail = {"b", "c"}
  Clients = {k1, k2}
INVARIANTS
  ValidatedConfigStarts
  ReadyBeforeListening
  PublicNeedsKey
PROPERTIES
  SignalEnds
CHECK_DEADLOCK FALSE
