SPECIFICATION RSSpec
CONSTANTS
  a = a
  b = b
  c = c
  d = d
  Models <- MCModels
  NumGpus = 4
  Budget <- MCBudget
  Vram <- MCVram
  GpusOf <- MCGpusOf
  Pinned = {d}
INVARIANTS
  RSTypeOK
  BudgetRespected
  SplitReservesWhole
  EvictionSuffices
  OldestGoFirst
  AutoPlacementFindsRoom
