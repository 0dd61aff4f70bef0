SPECIFICATION LCSpec
CONSTANTS
  a = a
  b = b
  p = p
  Models = {a, b}
  NumGpus = 1
  Budget <- OneBudget
  Vram <- OneVram
  GpusOf <- OneGpusOf
  Pinned = {}
  Requests = {r1}
  Loaders = {}
  Unloaders = {u1}
  Drainers = {d1}
  Cancellable = {r1, u1}
  LoadMayFail = {}
  MayPanic = {a}
  NoTask = NoTask
  NoModel = NoModel
INVARIANTS
  InFlightCounts
  GuardKeepsLoaded
