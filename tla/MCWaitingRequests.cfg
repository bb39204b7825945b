SPECIFICATION Spec
CONSTANTS
  ReqIds <- MC_ReqIds
  Prompt <- MC_Prompt
  Family <- MC_Family
  MaxOutput = 2
  Eos = {}
  Resumable = {2}
  Inputs = {1}
  MaxInputs = 1
  Aborts = {1}
  Hits = {0, 2}
  Loads = {"async", "sync"}
  MaxFaults = 1
  Policies = {TRUE, FALSE}
  Sends = TRUE
  MaxRunning = 2
  LongPrefill = 0
  Lookahead = 0
  BlockSize = 2
  NumBlocks = 4
  InFlight = 1
INVARIANTS
  AllAccountedFor
  TransfersOwnTheirBlocks
  AcceptedFromValidKV
PROPERTIES
  EveryRequestLeaves
CHECK_DEADLOCK FALSE
