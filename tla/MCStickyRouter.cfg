CONSTANTS
  t1 = t1
  east = east
  west = west
  Workers <- Two
  Static <- OneStatic
  Targets <- TwoTargets
  RegionOf <- Western
  Keys <- OneKey
  Score <- MCScore
  Threads <- OneThread
  Nobody = Nobody
  Laps = 2
SPECIFICATION FairSpec
INVARIANTS
  TableSound
  RoundRobinBalanced
PROPERTIES
  RoundTellsTruth
  EventuallyListed
  BackendNeverHoldsHandler
