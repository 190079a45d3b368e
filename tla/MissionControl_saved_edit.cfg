SPECIFICATION MissionSpec
CONSTANTS
  DefaultTotal = 4
  DefaultRelays = 3
  GroundAntenna = GroundAntenna
  UavAntenna = UavAntenna
  MaxDrones = 4
  RxPower <- SmallRxPower
  ThermalNoise <- SmallNoise
  MinSeparation = 5
  Altitudes <- SmallAltitudes
  Limits <- SmallLimits
  Graphs <- SmallGraphs
  Orders <- SmallOrders
  Proposals <- SmallProposals
  Presets <- SmallPresets
  Documents <- SmallDocuments
  Hops <- SmallHops
  Workloads <- SmallWorkloads
  MaxOperations = 2
  Workers = 1
  MaxFaults = 1
INVARIANT SavedEditSurvives
CHECK_DEADLOCK FALSE
