SPECIFICATION Spec
CONSTANTS
  Repos <- MCRepos
  Unit <- MCUnit
  Processes = {p1}
  Models <- MCModels
  Plugins <- MCPlugins
  Transformers <- MCTransformers
  BaseOf <- MCBaseOf
  Versions = {1, 2}
  Ranks = {0, 1}
  Experts = 4
  Heads = 2
  Layers = 2
  HashLayers = 1
  TargetIds = {0, 1}
  Stages = {0, 1, 2}
  Rows = 2
  Requests <- MCRequests
  Checkpoints = {1, 2}
  MaxStarts = 2
INVARIANTS
  InspectionIsCurrent
  AcceptedHasDrafter
  RatesKeepTheLength
  TargetIsComplete
  DrafterSeesThisStep
