SPECIFICATION Spec
CONSTANTS
  Requests = {a, b}
  Prompt = 1
  MaxLen = 3
  DraftMaxLen = 3
  MaxReqs = 2
  MaxTokens = 4
  MaxChunk = 2
  Q = 2
  Sizes = {2, 4}
  BlockSize = 2
  NumBlocks = 4
  Modes = {"FULL_DECODE_ONLY", "FULL_AND_PIECEWISE"}
  SeparateUpdates = {TRUE, FALSE}
  Cascades = {FALSE}
  Peers <- MC_Peers
  DraftPeers <- MC_DraftPeers
SYMMETRY MC_Symmetry
INVARIANTS
  CacheIntact
  MetadataSound
  ServesFromCapturedGraphs
CHECK_DEADLOCK FALSE
