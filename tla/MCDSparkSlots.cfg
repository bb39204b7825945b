CONSTANTS
  r1 = r1
  r2 = r2
  r3 = r3
  r4 = r4
  r5 = r5
  ReqIds <- MCReqIds
  MaxBatchSize = 3
  NoSlot = NoSlot
SPECIFICATION Spec
INVARIANTS
  SlotsSound
PROPERTIES
  StableWhileBatched
