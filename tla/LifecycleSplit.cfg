SPECIFICATION LCFairSpec
CONSTANTS
  a = a
  b = b
  p = p
  Models = {a, b, p}
  NumGpus = 2
  Budget <- TwoBudget
  Vram <- TwoVram
  GpusOf <- TwoGpusOf
  Pinned = {p}
  Requests = {r1, r2}
  Loaders = {}
  Unloaders = {}
  Drainers = {}
  Cancellable = {}
  LoadMayFail = {a}
  MayPanic = {}
  NoTask = NoTask
  NoModel = NoModel
INVARIANTS
  VramFits
  AccountedFor
PROPERTIES
  LoadsFinish
  WaitersWake
