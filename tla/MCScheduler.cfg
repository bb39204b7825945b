SPECIFICATION Spec
CONSTANTS
  ReqIds = {1, 2, 3}
  Priority <- Urgency
  Prompt <- Prompts
  MaxOutput <- Outputs
  Eos = {1}
  Aborts = {2}
  Policies = {"fcfs", "priority"}
  Pauses = {"none", "new", "all"}
  MaxRunning = 3
  MaxBatchTokens = 5
  MaxModelLen = 6
  LongPrefill = 2
  PrefixHits = {0, 2}
  NumSpec = 1
  DraftLengths = {0, 1}
  BlockSize = 2
  NumBlocks = 5
  InFlight = 2
INVARIANTS
  QueuesAndBlocksAgree
  CountersMatchFlight
  ReaddedTokensKnown
PROPERTIES
  EveryRequestEnds
