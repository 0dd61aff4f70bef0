SPECIFICATION ClientSpec
CONSTANTS
  x = x
  y = y
  Terminals = {x, y}
  Tasks = {t1, t2}
  None = None
  Unset = Unset
  Environment = None
  LocalConfig = None
  Loopback <- MCLoopback
  Here = "here"
  ServerKey = "k"
  Uses <- MCUses
  TTL = 1
  Timeout = 2
  Sessions <- MCSessions
INVARIANTS
  FileStaysUsable
  ExitTellsTheTruth
  CacheNeverMisleads
