CONSTANTS
  r1 = r1
  r2 = r2
  ReqIds <- Two
  MaxBatchSize = 2
  NoSlot = NoSlot
  Window = 3
  NumSpec = 2
  Prompts = {1}
  PrefixHits = {0}
  MaxModelLen = 6
  DrafterMaxLen = 6
  Victims = {r1}
  Starvable = {r2}
  GpuMask = TRUE
SPECIFICATION Spec
INVARIANTS
  NeverRaises
  RingHoldsStoredSuffix
  AnchorIsLastAccepted
  DraftReadsContiguousContext
CHECK_DEADLOCK FALSE
