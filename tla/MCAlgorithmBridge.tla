-------------------------- MODULE MCAlgorithmBridge --------------------------
(* Model checking of AlgorithmBridge: two drones of which one may stand      *)
(* by, two packages, and answers that the shield treats in different ways.   *)
EXTENDS AlgorithmBridge, TLC

CONSTANTS d1, d2, a1, a2

SmallNoise == -94
SmallRxPower == [d \in 0..40 |-> -60 - 2 * d]
SmallLimits == [range |-> 14, hardOutage |-> 20, snr |-> 3, capacity |-> 3]

SmallHome == d1 :> 6 @@ d2 :> 14
SmallLayout == [S \in SUBSET Drones |->
  [d \in Drones |-> IF S = Drones /\ d = d2 THEN 16 ELSE 8]]

Config(standby, low, min, max, connectivity) ==
  [standby |-> standby, low |-> low, minAltitude |-> min, maxAltitude |-> max,
   maxStep |-> 4, maxVertical |-> 3, minSeparation |-> 4, stationAltitude |-> 0,
   interference |-> 2, connectivity |-> connectivity,
   hops |-> {<<Station, d1>>, <<d1, d2>>}, limits |-> SmallLimits]

SmallConfigs == 0 :> Config({}, {}, 2, 20, FALSE) @@ 1 :> Config({d2}, {}, 5, 12, FALSE) @@
                2 :> Config({}, {d2}, 2, 20, TRUE)

Answer(sound, moves, plan, frame, revision) ==
  [valid |-> sound, moves |-> moves, plan |-> plan, frame |-> frame, revision |-> revision,
   fallback |-> FALSE]

SmallProposals ==
  {Answer(TRUE, TRUE, d1 :> 10 @@ d2 :> 14, "ENU", -1),
   Answer(TRUE, TRUE, d1 :> -9, "NED", 1),
   Answer(TRUE, TRUE, d2 :> 30, "ISAAC_STAGE", -1),
   Answer(TRUE, TRUE, Ghost :> 5, "ENU", -1),
   Answer(TRUE, TRUE, d1 :> 9, "WGS84", -1),
   Answer(TRUE, TRUE, d1 :> 9 @@ d2 :> BadVector, "ENU", -1),
   Answer(FALSE, TRUE, d1 :> 25, "ENU", -1),
   Answer(TRUE, FALSE, <<>>, "ENU", -1)}
=============================================================================
