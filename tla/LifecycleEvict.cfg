SPECIFICATION LCSpec
CONSTANTS
  a = a
  b = b
  p = p
  Models = {a, b, p}
  NumGpus = 1
  Budget <- OneBudget
  Vram <- OneVram
  GpusOf <- OneGpusOf
  Pinned = {p}
  Requests = {r1, r2}
  Loaders = {l1}
  Unloaders = {}
  Drainers = {}
  Cancellable = {}
  LoadMayFail = {b}
  MayPanic = {}
  NoTask = NoTask
  NoModel = NoModel
INVARIANTS
  LCTypeOK
  LoadingIsLed
  LoadedIsReserved
PROPERTIES
  PinnedStays
  KeepsToResidentSet
  ImplementsResidency
SYMMETRY RequestSymmetry
