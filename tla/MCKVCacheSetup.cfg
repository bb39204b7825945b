SPECIFICATION CacheSpec
CONSTANTS
  CacheModels <- MCModels
  Backends <- MCBackends
  Placeholders = {1, 2}
  MaxLens = {3, 5}
  NumBlocks = {2, 3}
  MinBlocks = 1
  Requested = {"NONE", "FULL"}
INVARIANTS
  BlocksAreDisjoint
  GroupsServeTheirLayers
  TablesFitTheCache
  ProfilingLeavesNothing
CHECK_DEADLOCK FALSE
