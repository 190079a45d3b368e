---------------------------- MODULE SafetyShield ----------------------------
(***************************************************************************)
(* The safety and feasibility shield (netlab/safety_shield.py) and the     *)
(* action contract it starts from (netlab/algorithm_contracts.py).         *)
(*                                                                         *)
(* A position is an altitude, the one coordinate every check of the shield *)
(* applies to: both of the code's altitude bounds, the motion envelope and *)
(* the vertical limit bound it, the NED frame turns its sign, and drones   *)
(* over one point of the ground are as far apart as their altitudes.       *)
(***************************************************************************)
EXTENDS LinkGate

CONSTANTS
  Drones,    \* the UAVs of the experiment
  Station,   \* the ground station, a node of the topology
  Ghost,     \* an entity no snapshot has
  BadVector  \* a target that is not three finite numbers

ASSUME SafetyShieldAssumption ==
  /\ Station \notin Drones
  /\ Ghost \notin Drones

Entities == Drones \union {Station, Ghost}

\* A plan says where to send some entities; what an algorithm answers may be no
\* vector.
IsPlan(plan) ==
  DOMAIN plan \subseteq Entities /\ plan \in [DOMAIN plan -> Int \union {BadVector}]

Limits == [range : Int, hardOutage : Int, snr : Int, capacity : Int]

\* What of a configuration the shield and the packet runtime's roles depend on.
Configurations ==
  [standby : SUBSET Drones, low : SUBSET Drones, minAltitude : Int, maxAltitude : Int,
   maxStep : Nat, maxVertical : Nat, minSeparation : Nat, stationAltitude : Int,
   interference : Int, connectivity : BOOLEAN, hops : SUBSET (Entities \X Entities),
   limits : Limits]

Abs(n) == IF n < 0 THEN -n ELSE n

Smaller(m, n) == IF m <= n THEN m ELSE n
Larger(m, n) == IF m >= n THEN m ELSE n

\* The lower bound wins when the bounds cross; nothing keeps them from crossing.
Clamp(value, lower, upper) == Larger(lower, Smaller(upper, value))

Toward(current, target, limit) ==
  IF target > current THEN current + limit ELSE current - limit

\* _project_step, then the vertical limit of apply_safety_shield.
ProjectStep(current, target, limit) ==
  IF Abs(target - current) <= limit THEN target ELSE Toward(current, target, limit)

\* Mutant of Envelope: the vertical limit is forgotten.
EnvelopeOfSpeed(current, target, config) == ProjectStep(current, target, config.maxStep)

Envelope(current, target, config) ==
  ProjectStep(current, ProjectStep(current, target, config.maxStep), config.maxVertical)

KnownFrames == {"ENU", "ISAAC_STAGE", "NED"}

\* _enu: NED counts altitude downwards.
Enu(target, frame) == IF frame = "NED" THEN -target ELSE target

(***************************************************************************)
(* An observation gives each drone's position, whether it is active (a     *)
(* relay of the formation), whether it has failed and whether its battery  *)
(* is at or below the reserve.                                             *)
(***************************************************************************)
Usable(observation) ==
  {d \in Drones : observation.uavs[d].active /\ ~observation.uavs[d].failed}

Current(observation, d) == observation.uavs[d].position

FallbackPositions(observation) == [d \in Usable(observation) |-> Current(observation, d)]

\* AlgorithmAction.from_mapping and validate: an action that names its own
\* source revision keeps it, any other carries the observation's.
ActionOf(raw, observation) ==
  [raw EXCEPT !.revision = IF raw.revision = -1 THEN observation.revision ELSE raw.revision]

\* normalize_vec3_map raises on the first bad vector.
Malformed(plan) == \E d \in DOMAIN plan : plan[d] = BadVector

(***************************************************************************)
(* Where the shield would let the drones go: the commanded drones that may *)
(* be commanded, each at its target, in bounds and within the envelope.    *)
(***************************************************************************)
Commanded(action, observation) ==
  IF action.frame \in KnownFrames THEN DOMAIN action.plan \intersect Usable(observation) ELSE {}

Normalized(action, observation, config) ==
  [d \in Commanded(action, observation) |->
     Envelope(Current(observation, d),
              Clamp(Enu(action.plan[d], action.frame), config.minAltitude, config.maxAltitude),
              config)]

\* Drones that are not commanded count where they are.
CompletePositions(normalized, observation) ==
  [d \in Usable(observation) |->
     IF d \in DOMAIN normalized THEN normalized[d] ELSE Current(observation, d)]

Separated(positions, distance) ==
  \A d, e \in DOMAIN positions : d # e => Abs(positions[d] - positions[e]) >= distance

\* _connectivity_preview: every hop of the topology passes the gate.
HopFeasible(hop, positions, config) ==
  LET where == [n \in DOMAIN positions \union {Station} |->
                  IF n = Station THEN config.stationAltitude ELSE positions[n]]
  IN /\ hop[1] \in DOMAIN where
     /\ hop[2] \in DOMAIN where
     /\ EvaluateFeasibility(AnalyticalLink(Abs(where[hop[1]] - where[hop[2]]), config.interference),
                            TRUE, AllUp, config.limits) = "FEASIBLE"

ConnectivityPreview(positions, config) == \A hop \in config.hops : HopFeasible(hop, positions, config)

\* The codes of the issues of severity ERROR.
HardErrors(action, observation, config) ==
  LET normalized == Normalized(action, observation, config)
      complete == CompletePositions(normalized, observation)
  IN {code \in {"UNKNOWN_ENTITY", "INACTIVE_OR_FAILED_ENTITY", "COORDINATE_FRAME",
                "MINIMUM_SEPARATION", "BATTERY_RESERVE", "COMMUNICATION_FEASIBILITY"} :
        CASE code = "UNKNOWN_ENTITY" -> ~(DOMAIN action.plan \subseteq Drones)
          [] code = "INACTIVE_OR_FAILED_ENTITY" ->
               ~((DOMAIN action.plan \intersect Drones) \subseteq Usable(observation))
          [] code = "COORDINATE_FRAME" ->
               /\ action.frame \notin KnownFrames
               /\ DOMAIN action.plan \intersect Usable(observation) # {}
          [] code = "MINIMUM_SEPARATION" -> ~Separated(complete, config.minSeparation)
          [] code = "BATTERY_RESERVE" -> \E d \in DOMAIN normalized : observation.uavs[d].low
          [] code = "COMMUNICATION_FEASIBILITY" ->
               config.connectivity /\ ~ConnectivityPreview(complete, config)}

(***************************************************************************)
(* apply_safety_shield.  carries says what the action in the decision is:  *)
(* nothing, the action as the algorithm proposed it, the fallback or the   *)
(* shielded positions.                                                     *)
(***************************************************************************)
ApplySafetyShield(action, observation, config) ==
  IF ~action.valid THEN [accepted |-> FALSE, carries |-> "nothing", plan |-> <<>>]
  ELSE IF ~action.moves THEN [accepted |-> TRUE, carries |-> "proposal", plan |-> <<>>]
  ELSE IF Malformed(action.plan) THEN [accepted |-> FALSE, carries |-> "nothing", plan |-> <<>>]
  ELSE IF HardErrors(action, observation, config) # {}
       THEN [accepted |-> FALSE, carries |-> "fallback", plan |-> FallbackPositions(observation)]
       ELSE [accepted |-> TRUE, carries |-> "shielded",
             plan |-> Normalized(action, observation, config)]

-----------------------------------------------------------------------------
(* What the shield promises, said without the shield.                        *)

\* Altitudes outside the bounds of the service region, by how much.
Outside(altitude, config) ==
  Abs(altitude - Clamp(altitude, config.minAltitude, config.maxAltitude))

Near(a, b, config) ==
  LET gap == Abs(a - b)
      sinr == RxPower[gap] - ThermalNoise - config.interference
  IN /\ gap < config.limits.hardOutage
     /\ gap <= config.limits.range
     /\ sinr >= config.limits.snr
     /\ Capacity(sinr) >= config.limits.capacity

\* Where drones that can fly would be.
After(plan, observation) ==
  [d \in {e \in Drones : observation.uavs[e].active /\ ~observation.uavs[e].failed} |->
     IF d \in DOMAIN plan THEN plan[d] ELSE observation.uavs[d].position]

SafePlan(plan, observation, config) ==
  LET after == After(plan, observation)
      at(n) == IF n = Station THEN config.stationAltitude ELSE after[n]
  IN /\ DOMAIN plan \subseteq DOMAIN after
     /\ \A d \in DOMAIN plan :
          /\ ~observation.uavs[d].low
          /\ Abs(plan[d] - observation.uavs[d].position) <= config.maxStep
          /\ Abs(plan[d] - observation.uavs[d].position) <= config.maxVertical
          /\ Outside(plan[d], config) <= Outside(observation.uavs[d].position, config)
     /\ \A d, e \in DOMAIN after : d = e \/ Abs(after[d] - after[e]) >= config.minSeparation
     /\ config.connectivity =>
          \A hop \in config.hops :
            {hop[1], hop[2]} \subseteq DOMAIN after \union {Station} /\ Near(at(hop[1]), at(hop[2]), config)
=============================================================================
