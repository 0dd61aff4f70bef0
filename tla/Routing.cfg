SPECIFICATION RoutingFairSpec
CONSTANTS
  near = near
  far = far
  spare = spare
  Targets = {near, far, spare}
  Cloud = {far}
  Rules <- MCRules
  CatchAll = {2}
  MaxChunks = 2
  QueueCap = 1
INVARIANTS
  RoutingTypeOK
  OneVoice
  ExhaustedAfterAll
  OneLiveCall
  CompleteOrToldSo
PROPERTIES
  EverythingEnds
CHECK_DEADLOCK FALSE
