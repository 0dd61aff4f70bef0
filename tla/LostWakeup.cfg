SPECIFICATION LCFairSpec
CONSTANTS
  a = a
  b = b
  p = p
  Models = {a, b}
  NumGpus = 1
  Budget <- OneBudget
  Vram <- OneVram
  GpusOf <- OneGpusOf
  Pinned = {}
  Requests = {r1, r2}
  Loaders = {}
  Unloaders = {}
  Drainers = {}
  Cancellable = {}
  LoadMayFail = {}
  MayPanic = {}
  NoTask = NoTask
  NoModel = NoModel
PROPERTIES
  RequestsAnswered
