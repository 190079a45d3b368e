SPECIFICATION Spec
CONSTANTS
  Streams = 2
  Nodes <- SmallNodes
  Routes <- SmallRoutes
  MaxPackets = 5
INVARIANTS TypeOK DeliveredOnce CursorFollowsGate PausedMeansRefused NumbersAreFresh
