SPECIFICATION Spec
CONSTANTS
  d1 = d1
  d2 = d2
  a1 = a1
  a2 = a2
  Drones = {d1, d2}
  Station = Station
  Ghost = Ghost
  BadVector = BadVector
  Algorithms = {a1, a2}
  NoAlgorithm = NoAlgorithm
  Mode = {"typed"}
  External = {a2}
  Legacy = {}
  RxPower <- SmallRxPower
  ThermalNoise <- SmallNoise
  Proposals <- SmallProposals
  Configs <- SmallConfigs
  MaxRevision = 2
  Home <- SmallHome
  Layout <- SmallLayout
  TakeoffAltitude = 7
  Depth = 1
  MaxEvents = 3
INVARIANT ShieldIsAuthoritative
CHECK_DEADLOCK FALSE
