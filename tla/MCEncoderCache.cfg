SPECIFICATION EncoderSpec
CONSTANTS
  Requests <- MC_Requests
  Prompt <- MC_Prompt
  Features <- MC_Features
  Priority <- MC_Priority
  Policy = "fcfs"
  Shifts = {0, 1}
  Chunked = {TRUE, FALSE}
  Hits = {0, 2}
  Aborts = {1}
  TokenBudget = 3
  EncoderBudget = 2
  CacheSize = 3
  KVTokens = 8
  MaxRunning = 3
  InFlight = 2
INVARIANTS
  TargetFindsItsOutputs
  EncoderLimitsKept
PROPERTIES
  EveryRequestEnds
CHECK_DEADLOCK FALSE
