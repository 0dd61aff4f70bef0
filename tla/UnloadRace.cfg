SPECIFICATION LCSpec
CONSTANTS
  a = a
  b = b
  p = p
  Models = {a, b}
  NumGpus = 1
  Budget <- OneBudget
  Vram <- OneVram
  GpusOf <- OneGpusOf
  Pinned = {}
  Requests = {r1}
  Loaders = {}
  Unloaders = {u1}
  Drainers = {}
  Cancellable = {}
  LoadMayFail = {}
  MayPanic = {}
  NoTask = NoTask
  NoModel = NoModel
INVARIANTS
  LoadedIsReserved
