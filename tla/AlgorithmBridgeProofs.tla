------------------------ MODULE AlgorithmBridgeProofs ------------------------
(***************************************************************************)
(* Researcher algorithms in the running system, for any drones, packages,  *)
(* answers, configurations, bounds of the topics and number of events; and *)
(* before that what the safety shield guarantees of one answer.            *)
(***************************************************************************)
EXTENDS AlgorithmBridge, LinkGateProofs

-----------------------------------------------------------------------------
(* The safety shield.                                                        *)

\* Plans and what the shield makes of them have their types.
TargetMaps == UNION {[named -> Int \union {BadVector}] : named \in SUBSET Entities}

Observed == [Drones -> [position : Int, active : BOOLEAN, failed : BOOLEAN, low : BOOLEAN]]

LEMMA PlanIsTargetMap == \A plan : IsPlan(plan) <=> plan \in TargetMaps
<1>1. ASSUME NEW plan, IsPlan(plan)
      PROVE  plan \in TargetMaps
  BY <1>1 DEF IsPlan, TargetMaps
<1>2. ASSUME NEW plan \in TargetMaps
      PROVE  IsPlan(plan)
  <2>1. PICK named \in SUBSET Entities : plan \in [named -> Int \union {BadVector}]
    BY DEF TargetMaps
  <2>2. DOMAIN plan = named
    BY <2>1
  <2>. QED
    BY <2>1, <2>2 DEF IsPlan
<1>. QED
  BY <1>1, <1>2

LEMMA EmptyPlan == <<>> \in TargetMaps
<1>1. <<>> \in [{} -> Int \union {BadVector}]
  OBVIOUS
<1>. QED
  BY <1>1 DEF TargetMaps

LEMMA PositionsArePlan ==
  ASSUME NEW D \in SUBSET Drones, NEW plan \in [D -> Int]
  PROVE  plan \in TargetMaps
<1>1. D \in SUBSET Entities
  BY DEF Entities
<1>2. plan \in [D -> Int \union {BadVector}]
  OBVIOUS
<1>. QED
  BY <1>1, <1>2 DEF TargetMaps

-----------------------------------------------------------------------------
\* A projected step stays between where the drone is and where it is sent, and
\* within the limit.
LEMMA ProjectStepBetween ==
  ASSUME NEW current \in Int, NEW target \in Int, NEW limit \in Nat
  PROVE  /\ ProjectStep(current, target, limit) \in Int
         /\ Abs(ProjectStep(current, target, limit) - current) <= limit
         /\ current <= target => /\ current <= ProjectStep(current, target, limit)
                                 /\ ProjectStep(current, target, limit) <= target
         /\ target <= current => /\ target <= ProjectStep(current, target, limit)
                                 /\ ProjectStep(current, target, limit) <= current
  BY DEF ProjectStep, Toward, Abs

LEMMA EnvelopeBetween ==
  ASSUME NEW current \in Int, NEW target \in Int, NEW config \in Configurations
  PROVE  /\ Envelope(current, target, config) \in Int
         /\ Abs(Envelope(current, target, config) - current) <= config.maxStep
         /\ Abs(Envelope(current, target, config) - current) <= config.maxVertical
         /\ current <= target => /\ current <= Envelope(current, target, config)
                                 /\ Envelope(current, target, config) <= target
         /\ target <= current => /\ target <= Envelope(current, target, config)
                                 /\ Envelope(current, target, config) <= current
<1>. DEFINE step == ProjectStep(current, target, config.maxStep)
            end == ProjectStep(current, step, config.maxVertical)
<1>1. config.maxStep \in Nat /\ config.maxVertical \in Nat
  BY DEF Configurations
<1>2. /\ step \in Int /\ Abs(step - current) <= config.maxStep
      /\ current <= target => current <= step /\ step <= target
      /\ target <= current => target <= step /\ step <= current
  BY <1>1, ProjectStepBetween
<1>3. /\ end \in Int /\ Abs(end - current) <= config.maxVertical
      /\ current <= step => current <= end /\ end <= step
      /\ step <= current => step <= end /\ end <= current
  <2>. HIDE DEF step
  <2>. QED
    BY <1>1, <1>2, ProjectStepBetween
<1>4. Envelope(current, target, config) = end
  BY DEF Envelope
<1>. HIDE DEF step, end
<1>5. /\ current <= target => current <= end /\ end <= target
      /\ target <= current => target <= end /\ end <= current
  BY <1>2, <1>3
<1>6. Abs(end - current) <= config.maxStep
  BY <1>1, <1>2, <1>3 DEF Abs
<1>. QED
  BY <1>3, <1>4, <1>5, <1>6

LEMMA ClampType ==
  ASSUME NEW value \in Int, NEW lower \in Int, NEW upper \in Int
  PROVE  Clamp(value, lower, upper) \in Int
  BY DEF Clamp, Larger, Smaller

\* A move toward a clamped target takes no drone further out of bounds, also when the
\* bounds cross.
LEMMA ClampAttracts ==
  ASSUME NEW current \in Int, NEW target \in Int, NEW end \in Int,
         NEW lower \in Int, NEW upper \in Int,
         current <= Clamp(target, lower, upper) =>
           current <= end /\ end <= Clamp(target, lower, upper),
         Clamp(target, lower, upper) <= current =>
           Clamp(target, lower, upper) <= end /\ end <= current
  PROVE  Abs(end - Clamp(end, lower, upper)) <= Abs(current - Clamp(current, lower, upper))
  BY DEF Abs, Clamp, Larger, Smaller

-----------------------------------------------------------------------------
LEMMA UsableDrones ==
  ASSUME NEW o
  PROVE  Usable(o) \in SUBSET Drones
  BY DEF Usable

LEMMA FallbackType ==
  ASSUME NEW o, o.uavs \in Observed
  PROVE  FallbackPositions(o) \in TargetMaps
<1>1. FallbackPositions(o) \in [Usable(o) -> Int]
  BY UsableDrones DEF FallbackPositions, Current, Observed
<1>. QED
  BY <1>1, UsableDrones, PositionsArePlan

\* What the shield accepts: each commanded drone at the end of its envelope.
LEMMA NormalizedType ==
  ASSUME NEW action, NEW o, NEW config \in Configurations,
         IsPlan(action.plan), ~Malformed(action.plan), o.uavs \in Observed
  PROVE  /\ Normalized(action, o, config) \in [Commanded(action, o) -> Int]
         /\ \A d \in Commanded(action, o) :
              /\ Enu(action.plan[d], action.frame) \in Int
              /\ Current(o, d) \in Int
<1>1. Commanded(action, o) \subseteq DOMAIN action.plan \intersect Drones
  BY UsableDrones DEF Commanded
<1>2. \A d \in DOMAIN action.plan : action.plan[d] \in Int
  BY DEF IsPlan, Malformed
<1>3. ASSUME NEW d \in Commanded(action, o)
      PROVE  /\ Enu(action.plan[d], action.frame) \in Int
             /\ Current(o, d) \in Int
  <2>1. action.plan[d] \in Int
    BY <1>1, <1>2
  <2>2. Current(o, d) \in Int
    BY <1>1 DEF Current, Observed
  <2>. QED
    BY <2>1, <2>2 DEF Enu
<1>4. config.minAltitude \in Int /\ config.maxAltitude \in Int
  BY DEF Configurations
<1>5. ASSUME NEW d \in Commanded(action, o)
      PROVE  Envelope(Current(o, d), Clamp(Enu(action.plan[d], action.frame),
                      config.minAltitude, config.maxAltitude), config) \in Int
  <2>1. Clamp(Enu(action.plan[d], action.frame), config.minAltitude, config.maxAltitude) \in Int
    BY <1>3, <1>4, ClampType
  <2>. QED
    BY <1>3, <2>1, EnvelopeBetween
<1>. QED
  BY <1>3, <1>5 DEF Normalized

-----------------------------------------------------------------------------
(* Each error of the shield, when the condition it stands for holds.         *)

LEMMA NoErrorMeans ==
  ASSUME NEW action, NEW o, NEW config, HardErrors(action, o, config) = {}
  PROVE  /\ DOMAIN action.plan \subseteq Drones
         /\ DOMAIN action.plan \intersect Drones \subseteq Usable(o)
         /\ action.frame \in KnownFrames \/ DOMAIN action.plan \intersect Usable(o) = {}
         /\ Separated(CompletePositions(Normalized(action, o, config), o), config.minSeparation)
         /\ \A d \in DOMAIN Normalized(action, o, config) : ~o.uavs[d].low
         /\ config.connectivity =>
              ConnectivityPreview(CompletePositions(Normalized(action, o, config), o), config)
<1>1. DOMAIN action.plan \subseteq Drones
  <2>1. "UNKNOWN_ENTITY" \notin HardErrors(action, o, config)
    OBVIOUS
  <2>. QED
    BY <2>1 DEF HardErrors
<1>2. DOMAIN action.plan \intersect Drones \subseteq Usable(o)
  <2>1. "INACTIVE_OR_FAILED_ENTITY" \notin HardErrors(action, o, config)
    OBVIOUS
  <2>. QED
    BY <2>1 DEF HardErrors
<1>3. action.frame \in KnownFrames \/ DOMAIN action.plan \intersect Usable(o) = {}
  <2>1. "COORDINATE_FRAME" \notin HardErrors(action, o, config)
    OBVIOUS
  <2>. QED
    BY <2>1 DEF HardErrors
<1>4. Separated(CompletePositions(Normalized(action, o, config), o), config.minSeparation)
  <2>1. "MINIMUM_SEPARATION" \notin HardErrors(action, o, config)
    OBVIOUS
  <2>. QED
    BY <2>1 DEF HardErrors
<1>5. \A d \in DOMAIN Normalized(action, o, config) : ~o.uavs[d].low
  <2>1. "BATTERY_RESERVE" \notin HardErrors(action, o, config)
    OBVIOUS
  <2>. QED
    BY <2>1 DEF HardErrors
<1>6. config.connectivity =>
        ConnectivityPreview(CompletePositions(Normalized(action, o, config), o), config)
  <2>1. "COMMUNICATION_FEASIBILITY" \notin HardErrors(action, o, config)
    OBVIOUS
  <2>. QED
    BY <2>1 DEF HardErrors
<1>. QED
  BY <1>1, <1>2, <1>3, <1>4, <1>5, <1>6

\* A hop that passes the preview is near enough, by every limit of the gate.
LEMMA FeasibleHopIsNear ==
  ASSUME NEW a, NEW b, NEW config,
         EvaluateFeasibility(AnalyticalLink(Abs(a - b), config.interference),
                             TRUE, AllUp, config.limits) = "FEASIBLE"
  PROVE  Near(a, b, config)
<1>. DEFINE gap == Abs(a - b)
            metrics == AnalyticalLink(gap, config.interference)
<1>1. /\ metrics.distance < config.limits.hardOutage /\ metrics.distance <= config.limits.range
      /\ metrics.sinr >= config.limits.snr /\ metrics.capacity >= config.limits.capacity
  <2>. HIDE DEF metrics
  <2>1. EvaluateFeasibility(metrics, TRUE, AllUp, config.limits) = "FEASIBLE"
    BY DEF metrics
  <2>. QED
    BY <2>1, FeasibilityMeaning
<1>. HIDE DEF gap
<1>2. /\ metrics.distance = gap
      /\ metrics.sinr = RxPower[gap] - ThermalNoise - config.interference
      /\ metrics.capacity = Capacity(RxPower[gap] - ThermalNoise - config.interference)
  BY DEF AnalyticalLink
<1>. HIDE DEF metrics
<1>3. /\ gap < config.limits.hardOutage /\ gap <= config.limits.range
      /\ RxPower[gap] - ThermalNoise - config.interference >= config.limits.snr
      /\ Capacity(RxPower[gap] - ThermalNoise - config.interference) >= config.limits.capacity
  BY <1>1, <1>2
<1>. QED
  BY <1>3 DEF Near, gap

\* A plan that the shield accepts is safe (apply_safety_shield): in every frame, and for
\* every observation and configuration, each drone it moves can be commanded, has battery,
\* stays within both motion limits and no further out of bounds than it was, and the
\* swarm stays separated and connected where the configuration asks for it.
THEOREM ShieldedPlanIsSafe ==
  ASSUME NEW action, NEW o, NEW config \in Configurations,
         IsPlan(action.plan), o.uavs \in Observed,
         ApplySafetyShield(action, o, config).carries = "shielded"
  PROVE  SafePlan(ApplySafetyShield(action, o, config).plan, o, config)
<1>. DEFINE plan == Normalized(action, o, config)
            complete == CompletePositions(plan, o)
<1>1. /\ ~Malformed(action.plan) /\ HardErrors(action, o, config) = {}
      /\ ApplySafetyShield(action, o, config).plan = plan
  BY DEF ApplySafetyShield
<1>2. /\ plan \in [Commanded(action, o) -> Int]
      /\ \A d \in Commanded(action, o) :
           Enu(action.plan[d], action.frame) \in Int /\ Current(o, d) \in Int
  BY <1>1, NormalizedType
<1>3. DOMAIN plan = Commanded(action, o) /\ Commanded(action, o) \subseteq Usable(o)
  BY <1>2 DEF Commanded
<1>4. After(plan, o) = complete /\ DOMAIN complete = Usable(o)
  BY DEF After, CompletePositions, Usable, Current
<1>5. DOMAIN plan \subseteq DOMAIN After(plan, o)
  BY <1>3, <1>4
<1>6. ASSUME NEW d \in DOMAIN plan
      PROVE  /\ ~o.uavs[d].low
             /\ Abs(plan[d] - o.uavs[d].position) <= config.maxStep
             /\ Abs(plan[d] - o.uavs[d].position) <= config.maxVertical
             /\ Outside(plan[d], config) <= Outside(o.uavs[d].position, config)
  <2>1. ~o.uavs[d].low
    BY <1>1, NoErrorMeans
  <2>. DEFINE current == o.uavs[d].position
              wanted == Enu(action.plan[d], action.frame)
              target == Clamp(wanted, config.minAltitude, config.maxAltitude)
  <2>2. current \in Int /\ wanted \in Int
    BY <1>2, <1>3 DEF Current
  <2>3. config.minAltitude \in Int /\ config.maxAltitude \in Int
    BY DEF Configurations
  <2>4. target \in Int
    BY <2>2, <2>3, ClampType
  <2>5. plan[d] = Envelope(current, target, config)
    BY <1>3 DEF Normalized, Current
  <2>. HIDE DEF plan, current, wanted
  <2>6. /\ plan[d] \in Int
        /\ Abs(plan[d] - current) <= config.maxStep
        /\ Abs(plan[d] - current) <= config.maxVertical
        /\ current <= target => current <= plan[d] /\ plan[d] <= target
        /\ target <= current => target <= plan[d] /\ plan[d] <= current
    <3>. HIDE DEF target
    <3>. QED
      BY <2>2, <2>4, <2>5, EnvelopeBetween
  <2>7. Abs(plan[d] - Clamp(plan[d], config.minAltitude, config.maxAltitude))
          <= Abs(current - Clamp(current, config.minAltitude, config.maxAltitude))
    BY <2>2, <2>3, <2>6, ClampAttracts
  <2>. QED
    BY <2>1, <2>6, <2>7 DEF Outside, current
<1>7. \A d, e \in DOMAIN After(plan, o) :
        d = e \/ Abs(After(plan, o)[d] - After(plan, o)[e]) >= config.minSeparation
  <2>. HIDE DEF plan
  <2>1. Separated(complete, config.minSeparation)
    BY <1>1, NoErrorMeans DEF plan
  <2>. QED
    BY <1>4, <2>1 DEF Separated
<1>8. ASSUME config.connectivity, NEW hop \in config.hops
      PROVE  LET at(n) == IF n = Station THEN config.stationAltitude ELSE After(plan, o)[n]
             IN  /\ {hop[1], hop[2]} \subseteq DOMAIN After(plan, o) \union {Station}
                 /\ Near(at(hop[1]), at(hop[2]), config)
  <2>. DEFINE where == [n \in DOMAIN complete \union {Station} |->
                          IF n = Station THEN config.stationAltitude ELSE complete[n]]
  <2>1. HopFeasible(hop, complete, config)
    BY <1>1, <1>8, NoErrorMeans DEF ConnectivityPreview
  <2>2. /\ hop[1] \in DOMAIN complete \union {Station}
        /\ hop[2] \in DOMAIN complete \union {Station}
        /\ EvaluateFeasibility(AnalyticalLink(Abs(where[hop[1]] - where[hop[2]]),
                                              config.interference),
                               TRUE, AllUp, config.limits) = "FEASIBLE"
    <3>. HIDE DEF complete
    <3>. QED
      BY <2>1 DEF HopFeasible
  <2>3. Near(where[hop[1]], where[hop[2]], config)
    BY <2>2, FeasibleHopIsNear
  <2>. HIDE DEF plan, complete
  <2>. QED
    BY <1>4, <2>2, <2>3
<1>. HIDE DEF plan
<1>. QED
  BY <1>1, <1>5, <1>6, <1>7, <1>8 DEF SafePlan

-----------------------------------------------------------------------------
(* The bridge.                                                               *)

Actions ==
  [algorithm : Algorithms, revision : Revisions, fallback : BOOLEAN, plan : TargetMaps,
   verdict : {"shielded", "proposal", "fallback", "unshielded", "legacy"},
   observation : Observations, shieldedWith : Revisions, own : BOOLEAN]

\* What holds of an action from the moment it is made: its shield was not older than
\* its observation, it carries that observation's revision unless the algorithm named
\* one, and what the shield accepted is safe.
Sound(a) ==
  /\ a.observation.revision <= a.shieldedWith
  /\ ~a.own => a.revision = a.observation.revision
  /\ a.verdict = "shielded" => SafePlan(a.plan, a.observation, Configs[a.shieldedWith])

SoundActions == {a \in Actions : Sound(a)}

Applications ==
  [action : SoundActions, drones : SUBSET Drones, revision : Revisions,
   pending : Revisions \union {-1}]

\* The nodes the packet runtime can be given a new formation for.
Consistent(n) ==
  n \in Nodes /\ (n.kind = "none" <=> n.strategy = NoAlgorithm) /\ n.revision <= file

NodeInv == Consistent(node)

ObservationsInv ==
  /\ observations \in Seq(Observations)
  /\ Len(observations) <= Depth
  /\ \A i \in 1..Len(observations) : observations[i].revision <= file

ActionsInv == actions \in Seq(SoundActions) /\ Len(actions) <= Depth

BridgeInv ==
  \/ bridge = Idle
  \/ /\ bridge \in [phase : {"running"}, algorithm : Algorithms, observation : Observations]
     /\ bridge.observation.revision <= file

ControlInv ==
  /\ selection \in [algorithm : Algorithms \union {NoAlgorithm}, version : Nat]
  /\ valid \subseteq Algorithms
  /\ file \in Revisions
  /\ saves \in Nat

LastInv == last = <<>> \/ last \in Applications

EventsInv == events \in 0..MaxEvents

IInv ==
  /\ NodeInv /\ ObservationsInv /\ ActionsInv /\ BridgeInv /\ ControlInv
  /\ LastInv /\ StaleActionIsDropped /\ EventsInv

-----------------------------------------------------------------------------
(* Topics.                                                                   *)

LEMMA PublishedType ==
  ASSUME NEW S, NEW topic \in Seq(S), NEW message \in S, Len(topic) <= Depth
  PROVE  /\ Published(topic, message) \in Seq(S)
         /\ Len(Published(topic, message)) <= Depth
         /\ \A i \in 1..Len(Published(topic, message)) :
              \/ Published(topic, message)[i] = message
              \/ \E j \in 1..Len(topic) : Published(topic, message)[i] = topic[j]
<1>1. Depth \in Nat /\ Depth # 0
  BY AlgorithmBridgeAssumption
<1>2. CASE Len(topic) = Depth
  <2>1. topic # <<>>
    BY <1>1, <1>2
  <2>2. /\ Tail(topic) \in Seq(S) /\ Len(Tail(topic)) = Len(topic) - 1
        /\ \A i \in 1..(Len(topic) - 1) : Tail(topic)[i] = topic[i + 1]
    BY <2>1
  <2>. QED
    BY <1>1, <1>2, <2>2 DEF Published
<1>3. CASE Len(topic) # Depth
  BY <1>1, <1>3 DEF Published
<1>. QED
  BY <1>2, <1>3

LEMMA TailType ==
  ASSUME NEW S, NEW topic \in Seq(S), topic # <<>>
  PROVE  /\ Tail(topic) \in Seq(S) /\ Head(topic) \in S
         /\ Len(Tail(topic)) = Len(topic) - 1 /\ Len(topic) >= 1
         /\ Head(topic) = topic[1]
         /\ \A i \in 1..Len(Tail(topic)) : Tail(topic)[i] = topic[i + 1]
  OBVIOUS

-----------------------------------------------------------------------------
(* The packet runtime's view of the swarm.                                   *)

LEMMA ObservationType ==
  ASSUME NEW n \in Nodes
  PROVE  Observation(n) \in Observations /\ Observation(n).revision = n.revision
<1>1. n.revision \in Revisions /\ n.pos \in [Drones -> Int]
  BY DEF Nodes
<1>2. \A d \in Drones : [position |-> n.pos[d], active |-> d \notin n.standby,
                         failed |-> d \in n.failed, low |-> d \in Configs[n.revision].low] \in Uavs
  BY <1>1 DEF Uavs
<1>. QED
  BY <1>1, <1>2 DEF Observation, Observations

LEMMA FormationType ==
  ASSUME NEW n \in Nodes
  PROVE  Formation(n) \in [Drones -> Int]
<1>1. n.pos \in [Drones -> Int] /\ n.target \in [Drones -> Int] /\ Home \in [Drones -> Int]
  BY AlgorithmBridgeAssumption DEF Nodes
<1>2. Relays(n) \in SUBSET Drones
  BY DEF Relays
<1>3. Layout[Relays(n)] \in [Drones -> Int]
  <2>1. Layout[Relays(n)] \in [Drones -> Nat]
    BY <1>2, AlgorithmBridgeAssumption
  <2>. QED
    BY <2>1
<1>4. \A d \in Drones : Sunk(n.pos[d]) \in Int
  BY <1>1 DEF Sunk
<1>. QED
  BY <1>1, <1>3, <1>4 DEF Formation

LEMMA RetargetedType ==
  ASSUME NEW n \in Nodes, NEW plan \in TargetMaps, NEW drones, drones \subseteq Targets(n, plan)
  PROVE  /\ Retargeted(n, plan, drones) \in Nodes
         /\ drones \in SUBSET Drones
         /\ Retargeted(n, plan, drones).kind = n.kind
         /\ Retargeted(n, plan, drones).strategy = n.strategy
         /\ Retargeted(n, plan, drones).revision = n.revision
         /\ \A d \in Drones \ drones : Retargeted(n, plan, drones).target[d] = n.target[d]
<1>1. Targets(n, plan) \subseteq Relays(n) /\ Relays(n) \subseteq Drones
  BY DEF Targets, Relays
<1>2. \A d \in drones : plan[d] \in Int
  <2>1. IsPlan(plan)
    BY PlanIsTargetMap
  <2>. QED
    BY <2>1 DEF IsPlan, Targets
<1>3. n.target \in [Drones -> Int]
  BY DEF Nodes
<1>4. [d \in Drones |-> IF d \in drones THEN plan[d] ELSE n.target[d]] \in [Drones -> Int]
  BY <1>2, <1>3
<1>5. Retargeted(n, plan, drones) =
        [n EXCEPT !.target = [d \in Drones |-> IF d \in drones THEN plan[d] ELSE n.target[d]]]
  BY DEF Retargeted
<1>. QED
  BY <1>1, <1>4, <1>5 DEF Nodes

-----------------------------------------------------------------------------
(* Actions are sound when they are made.                                     *)

LEMMA ProposalType ==
  ASSUME NEW raw \in Proposals
  PROVE  /\ IsPlan(raw.plan) /\ raw.plan \in TargetMaps
         /\ raw \in [valid : BOOLEAN, moves : BOOLEAN, plan : {raw.plan}, frame : STRING,
                     revision : Revisions \union {-1}, fallback : BOOLEAN]
<1>1. IsAnswer(raw)
  BY AlgorithmBridgeAssumption
<1>. QED
  BY <1>1, PlanIsTargetMap DEF IsAnswer

LEMMA ObservedUavs == \A o \in Observations : o.uavs \in Observed /\ o.revision \in Revisions
  BY DEF Observations, Uavs, Observed

LEMMA ConfigType == \A r \in Revisions : Configs[r] \in Configurations
  BY AlgorithmBridgeAssumption

LEMMA DecisionType ==
  ASSUME NEW action, NEW o \in Observations, NEW config \in Configurations, IsPlan(action.plan)
  PROVE  /\ ApplySafetyShield(action, o, config).plan \in TargetMaps
         /\ ApplySafetyShield(action, o, config).carries \in
              {"nothing", "proposal", "fallback", "shielded"}
<1>1. FallbackPositions(o) \in TargetMaps
  BY FallbackType, ObservedUavs
<1>2. ~Malformed(action.plan) => Normalized(action, o, config) \in TargetMaps
  <2>1. ASSUME ~Malformed(action.plan)
        PROVE  Normalized(action, o, config) \in [Commanded(action, o) -> Int]
    BY <2>1, NormalizedType, ObservedUavs
  <2>2. Commanded(action, o) \in SUBSET Drones
    BY UsableDrones DEF Commanded
  <2>. QED
    BY <2>1, <2>2, PositionsArePlan
<1>. QED
  BY <1>1, <1>2, EmptyPlan DEF ApplySafetyShield

LEMMA OutgoingSound ==
  ASSUME NEW algorithm \in Algorithms, NEW raw \in Proposals, NEW o \in Observations,
         NEW r \in Revisions, o.revision <= r
  PROVE  /\ Outgoing(algorithm, raw, o, r) \in SoundActions
         /\ Outgoing(algorithm, raw, o, r).observation = o
<1>. DEFINE action == ActionOf(raw, o)
            decision == ApplySafetyShield(action, o, Configs[r])
            sent == Outgoing(algorithm, raw, o, r)
<1>1. /\ raw.revision \in Revisions \union {-1} /\ raw.fallback \in BOOLEAN
      /\ IsPlan(raw.plan) /\ raw.plan \in TargetMaps
  BY ProposalType
<1>2. /\ action.plan = raw.plan
      /\ action.revision = IF raw.revision = -1 THEN o.revision ELSE raw.revision
  BY ProposalType DEF ActionOf
<1>3. action.revision \in Revisions /\ (raw.revision = -1 => action.revision = o.revision)
  BY <1>1, <1>2, ObservedUavs
<1>4. /\ decision.plan \in TargetMaps
      /\ decision.carries \in {"nothing", "proposal", "fallback", "shielded"}
  <2>. HIDE DEF action
  <2>. QED
    BY <1>1, <1>2, ConfigType, DecisionType
<1>5. decision.carries = "shielded" => SafePlan(decision.plan, o, Configs[r])
  <2>1. Configs[r] \in Configurations /\ o.uavs \in Observed /\ IsPlan(action.plan)
    BY <1>1, <1>2, ConfigType, ObservedUavs
  <2>. HIDE DEF action
  <2>. QED
    BY <2>1, ShieldedPlanIsSafe, Zenon
<1>. HIDE DEF action, decision
<1>6. sent =
        [algorithm |-> algorithm, revision |-> action.revision,
         fallback |-> decision.carries = "fallback" \/ raw.fallback,
         plan |-> IF decision.carries = "nothing" THEN raw.plan ELSE decision.plan,
         verdict |-> IF decision.carries = "nothing" THEN "unshielded" ELSE decision.carries,
         observation |-> o, shieldedWith |-> r, own |-> raw.revision # -1]
  BY DEF Outgoing, action, decision
<1>. HIDE DEF sent
<1>7. sent \in Actions
  BY <1>1, <1>3, <1>4, <1>6 DEF Actions
<1>8. Sound(sent)
  <2>1. sent.observation.revision <= sent.shieldedWith
    BY <1>6
  <2>2. ~sent.own => sent.revision = sent.observation.revision
    <3>1. sent.own <=> raw.revision # -1
      BY <1>6
    <3>2. sent.revision = action.revision /\ sent.observation = o
      BY <1>6
    <3>. QED
      BY <1>3, <3>1, <3>2
  <2>3. sent.verdict = "shielded" =>
          SafePlan(sent.plan, sent.observation, Configs[sent.shieldedWith])
    <3>. HAVE sent.verdict = "shielded"
    <3>1. decision.carries = "shielded"
      BY <1>6
    <3>2. sent.plan = decision.plan /\ sent.observation = o /\ sent.shieldedWith = r
      BY <1>6, <3>1
    <3>. QED
      BY <1>5, <3>1, <3>2
  <2>. QED
    BY <2>1, <2>2, <2>3 DEF Sound
<1>. QED
  BY <1>6, <1>7, <1>8 DEF SoundActions, sent

LEMMA LegacySound ==
  ASSUME NEW algorithm \in Algorithms, NEW raw \in Proposals, NEW n \in Nodes,
         file \in Revisions, n.revision <= file
  PROVE  /\ LegacyAction(algorithm, raw, n) \in SoundActions
         /\ LegacyAction(algorithm, raw, n).observation = Observation(n)
<1>1. raw.plan \in TargetMaps
  BY ProposalType
<1>2. n.revision \in Revisions
  BY DEF Nodes
<1>3. LegacyAction(algorithm, raw, n) \in Actions
  BY <1>1, <1>2, ObservationType DEF LegacyAction, Actions
<1>4. Sound(LegacyAction(algorithm, raw, n))
  BY <1>2, ObservationType DEF LegacyAction, Sound
<1>. QED
  BY <1>3, <1>4 DEF SoundActions, LegacyAction

-----------------------------------------------------------------------------
(* _recompute_desired_positions for a node that has changed.                 *)

LEMMA AppliedType ==
  ASSUME NEW n \in Nodes, NEW action \in SoundActions, NEW drones \in SUBSET Drones
  PROVE  Applied(n, action, drones) \in Applications
  BY DEF Applied, Applications, Nodes

LEMMA PlansInv ==
  ASSUME NEW n, Consistent(n), file' = file, ObservationsInv,
         NEW action \in SoundActions, action.observation = Observation(n), Plans(n, action)
  PROVE  NodeInv' /\ ObservationsInv' /\ LastInv' /\ StaleActionIsDropped'
<1>. DEFINE formed == [n EXCEPT !.target = Formation(n)]
            drones == Targets(n, action.plan)
<1>1. n \in Nodes /\ formed \in Nodes /\ formed.kind = n.kind /\ formed.strategy = n.strategy
      /\ formed.revision = n.revision
  BY FormationType DEF Consistent, Nodes
<1>2. Targets(formed, action.plan) = drones
  BY <1>1 DEF Targets, Relays, Nodes, Consistent
<1>3. action.plan \in TargetMaps
  BY DEF SoundActions, Actions
<1>4. node' = Retargeted(formed, action.plan, drones) /\ last' = Applied(n, action, drones)
      /\ observations' = observations
  BY DEF Plans
<1>. HIDE DEF formed, drones
<1>5. /\ node' \in Nodes /\ drones \in SUBSET Drones
      /\ node'.kind = n.kind /\ node'.strategy = n.strategy /\ node'.revision = n.revision
  BY <1>1, <1>2, <1>3, <1>4, RetargetedType
<1>6. NodeInv'
  BY <1>5 DEF NodeInv, Consistent
<1>7. LastInv'
  BY <1>1, <1>4, <1>5, AppliedType DEF LastInv
<1>8. StaleActionIsDropped'
  <2>1. last'.action = action /\ last'.revision = n.revision
    BY <1>4 DEF Applied
  <2>2. last'.action.observation.revision = last'.revision
    BY <1>1, <2>1, ObservationType
  <2>. QED
    BY <2>2 DEF StaleActionIsDropped
<1>. QED
  BY <1>4, <1>6, <1>7, <1>8 DEF ObservationsInv

LEMMA UnplannedInv ==
  ASSUME NEW n, Consistent(n), file' = file, ObservationsInv, LastInv, StaleActionIsDropped,
         Unplanned(n)
  PROVE  NodeInv' /\ ObservationsInv' /\ LastInv' /\ StaleActionIsDropped'
<1>1. n \in Nodes
  BY DEF Consistent
<1>2. NodeInv'
  BY <1>1, FormationType DEF Unplanned, NodeInv, Consistent, Nodes
<1>. QED
  BY <1>2 DEF Unplanned, ObservationsInv, LastInv, StaleActionIsDropped

LEMMA AsksInv ==
  ASSUME NEW n, Consistent(n), file' = file, ObservationsInv, LastInv, StaleActionIsDropped,
         Asks(n)
  PROVE  NodeInv' /\ ObservationsInv' /\ LastInv' /\ StaleActionIsDropped'
<1>1. n \in Nodes /\ n.revision \in Revisions
  BY DEF Consistent, Nodes
<1>2. NodeInv'
  BY <1>1, FormationType DEF Asks, NodeInv, Consistent, Nodes
<1>3. Observation(n) \in Observations /\ Observation(n).revision <= file
  BY <1>1, ObservationType DEF Consistent
<1>4. ObservationsInv'
  <2>1. observations' = Published(observations, Observation(n))
    BY DEF Asks
  <2>2. /\ observations' \in Seq(Observations)
        /\ Len(observations') <= Depth
        /\ \A i \in 1..Len(observations') :
             \/ observations'[i] = Observation(n)
             \/ \E j \in 1..Len(observations) : observations'[i] = observations[j]
    <3>1. observations \in Seq(Observations) /\ Len(observations) <= Depth
      BY DEF ObservationsInv
    <3>. DEFINE message == Observation(n)
    <3>2. message \in Observations
      BY <1>3
    <3>. HIDE DEF message
    <3>3. /\ Published(observations, message) \in Seq(Observations)
          /\ Len(Published(observations, message)) <= Depth
          /\ \A i \in 1..Len(Published(observations, message)) :
               \/ Published(observations, message)[i] = message
               \/ \E j \in 1..Len(observations) : Published(observations, message)[i] = observations[j]
      BY <3>1, <3>2, PublishedType
    <3>. QED
      BY <2>1, <3>3 DEF message
  <2>. QED
    BY <1>3, <2>2 DEF ObservationsInv
<1>. QED
  BY <1>2, <1>4 DEF Asks, LastInv, StaleActionIsDropped

LEMMA RecomputeInv ==
  ASSUME NEW n, Consistent(n), file' = file, IInv, Recompute(n)
  PROVE  NodeInv' /\ ObservationsInv' /\ LastInv' /\ StaleActionIsDropped'
<1>1. /\ n \in Nodes /\ n.kind \in {"none", "package", "legacy"} /\ n.mode \in {"typed", "direct"}
      /\ n.strategy \in Algorithms \union {NoAlgorithm}
  BY DEF Consistent, Nodes
<1>2. /\ ObservationsInv /\ LastInv /\ StaleActionIsDropped /\ file \in Revisions
      /\ valid \subseteq Algorithms /\ n.revision <= file
  BY DEF IInv, ControlInv, Consistent
<1>3. CASE n.kind = "package" /\ n.mode = "typed"
  <2>1. Asks(n)
    BY <1>3 DEF Recompute
  <2>. QED
    BY <1>2, <2>1, AsksInv
<1>4. CASE n.kind = "package" /\ n.mode = "direct"
  <2>1. \/ Unplanned(n)
        \/ /\ n.strategy \in valid \ External
           /\ \E raw \in Proposals :
                Plans(n, Outgoing(n.strategy, raw, Observation(n), file))
    BY <1>4 DEF Recompute, ShieldConfig
  <2>2. CASE Unplanned(n)
    BY <1>2, <2>2, UnplannedInv
  <2>3. ASSUME n.strategy \in valid \ External, NEW raw \in Proposals,
               Plans(n, Outgoing(n.strategy, raw, Observation(n), file))
        PROVE  NodeInv' /\ ObservationsInv' /\ LastInv' /\ StaleActionIsDropped'
    <3>1. n.strategy \in Algorithms
      BY <1>2, <2>3
    <3>2. Observation(n) \in Observations /\ Observation(n).revision <= file
      BY <1>1, <1>2, ObservationType
    <3>3. /\ Outgoing(n.strategy, raw, Observation(n), file) \in SoundActions
          /\ Outgoing(n.strategy, raw, Observation(n), file).observation = Observation(n)
      BY <1>2, <3>1, <3>2, OutgoingSound
    <3>. QED
      BY <1>2, <2>3, <3>3, PlansInv
  <2>. QED
    BY <2>1, <2>2, <2>3
<1>5. CASE n.kind = "legacy"
  <2>1. Unplanned(n) \/ \E raw \in Proposals : Plans(n, LegacyAction(n.strategy, raw, n))
    BY <1>5 DEF Recompute
  <2>2. CASE Unplanned(n)
    BY <1>2, <2>2, UnplannedInv
  <2>3. ASSUME NEW raw \in Proposals, Plans(n, LegacyAction(n.strategy, raw, n))
        PROVE  NodeInv' /\ ObservationsInv' /\ LastInv' /\ StaleActionIsDropped'
    <3>1. n.strategy \in Algorithms
      BY <1>1, <1>5 DEF Consistent
    <3>2. /\ LegacyAction(n.strategy, raw, n) \in SoundActions
          /\ LegacyAction(n.strategy, raw, n).observation = Observation(n)
      BY <1>1, <1>2, <3>1, LegacySound
    <3>. QED
      BY <1>2, <2>3, <3>2, PlansInv
  <2>. QED
    BY <2>1, <2>2, <2>3
<1>6. CASE n.kind = "none"
  <2>1. Unplanned(n)
    BY <1>6 DEF Recompute
  <2>. QED
    BY <1>2, <2>1, UnplannedInv
<1>. QED
  BY <1>1, <1>3, <1>4, <1>5, <1>6

-----------------------------------------------------------------------------
(* The inductive invariant.                                                  *)

LEMMA InitInv == Init => IInv
<1>. HAVE Init
<1>1. /\ 0 \in Revisions /\ Configs[0] \in Configurations
      /\ Home \in [Drones -> Int] /\ MaxEvents \in Nat /\ Depth \in Nat
  BY AlgorithmBridgeAssumption, ConfigType DEF Revisions
<1>2. Configs[0].standby \in SUBSET Drones
  BY <1>1 DEF Configurations
<1>3. Layout[Drones \ Configs[0].standby] \in [Drones -> Int]
  <2>1. Layout[Drones \ Configs[0].standby] \in [Drones -> Nat]
    BY AlgorithmBridgeAssumption
  <2>. QED
    BY <2>1
<1>4. PICK mode \in Mode :
       node = [mode |-> mode, strategy |-> NoAlgorithm, kind |-> "none", seen |-> 0,
               revision |-> 0, pending |-> -1, failed |-> {}, standby |-> Configs[0].standby,
               pos |-> Home, target |-> Layout[Drones \ Configs[0].standby]]
  BY DEF Init
<1>5. mode \in {"typed", "direct"}
  BY AlgorithmBridgeAssumption
<1>6. node \in Nodes
  BY <1>1, <1>2, <1>3, <1>4, <1>5 DEF Nodes
<1>7. NodeInv
  BY <1>1, <1>4, <1>6 DEF Init, NodeInv, Consistent
<1>8. ObservationsInv /\ ActionsInv
  BY <1>1 DEF Init, ObservationsInv, ActionsInv
<1>9. BridgeInv /\ ControlInv /\ LastInv /\ StaleActionIsDropped /\ EventsInv
  BY <1>1 DEF Init, BridgeInv, ControlInv, LastInv, StaleActionIsDropped, EventsInv
<1>. QED
  BY <1>7, <1>8, <1>9 DEF IInv

LEMMA ActionTaken ==
  ASSUME ActionsInv, actions # <<>>, actions' = Tail(actions)
  PROVE  ActionsInv' /\ Head(actions) \in SoundActions
<1>1. actions \in Seq(SoundActions) /\ Len(actions) <= Depth /\ Depth \in Nat
  BY AlgorithmBridgeAssumption DEF ActionsInv
<1>2. /\ Tail(actions) \in Seq(SoundActions) /\ Head(actions) \in SoundActions
      /\ Len(Tail(actions)) = Len(actions) - 1
  BY <1>1, TailType
<1>. QED
  BY <1>1, <1>2 DEF ActionsInv

LEMMA ObservationTaken ==
  ASSUME ObservationsInv, observations # <<>>, observations' = Tail(observations), file' = file
  PROVE  /\ ObservationsInv' /\ Head(observations) \in Observations
         /\ Head(observations).revision <= file
<1>1. observations \in Seq(Observations) /\ Len(observations) <= Depth /\ Depth \in Nat
  BY AlgorithmBridgeAssumption DEF ObservationsInv
<1>2. /\ Tail(observations) \in Seq(Observations) /\ Head(observations) \in Observations
      /\ Len(Tail(observations)) = Len(observations) - 1 /\ Len(observations) >= 1
      /\ Head(observations) = observations[1]
      /\ \A i \in 1..Len(Tail(observations)) : Tail(observations)[i] = observations[i + 1]
  BY <1>1, TailType
<1>3. Head(observations).revision <= file
  BY <1>1, <1>2 DEF ObservationsInv
<1>4. \A i \in 1..Len(Tail(observations)) : Tail(observations)[i].revision <= file
  <2>. TAKE i \in 1..Len(Tail(observations))
  <2>1. i + 1 \in 1..Len(observations)
    BY <1>1, <1>2
  <2>2. observations[i + 1].revision <= file
    BY <2>1 DEF ObservationsInv
  <2>. QED
    BY <1>2, <2>2
<1>. QED
  BY <1>1, <1>2, <1>3, <1>4 DEF ObservationsInv

\* An event, and what it leaves alone.
LEMMA EventStep ==
  ASSUME EventsInv, Event
  PROVE  EventsInv'
  BY AlgorithmBridgeAssumption DEF EventsInv, Event

\* A step of the packet runtime that recomputes the formation of a node whose roles,
\* failures or configuration have changed.
LEMMA RecomputeStep ==
  ASSUME IInv, NEW n, Consistent(n), Recompute(n),
         UNCHANGED <<bridge, actions, missionControl>>, EventsInv'
  PROVE  IInv'
<1>1. file' = file
  BY DEF missionControl
<1>2. NodeInv' /\ ObservationsInv' /\ LastInv' /\ StaleActionIsDropped'
  BY <1>1, RecomputeInv
<1>. QED
  BY <1>2 DEF IInv, ActionsInv, BridgeInv, ControlInv, missionControl

LEMMA MissionControlKeepsInv ==
  ASSUME IInv, MissionControlStep
  PROVE  IInv'
<1>1. ASSUME NEW a \in Algorithms, Activate(a)
      PROVE  IInv'
  <2>1. ControlInv'
    BY <1>1 DEF IInv, ControlInv, Activate, WriteSelection
  <2>. QED
    BY <1>1, <2>1, EventStep DEF IInv, Activate, NodeInv, Consistent, ObservationsInv, ActionsInv,
       BridgeInv, LastInv, StaleActionIsDropped
<1>2. ASSUME NEW a \in Algorithms, EditSource(a)
      PROVE  IInv'
  <2>1. ControlInv'
    BY <1>2 DEF IInv, ControlInv, EditSource, Revalidated
  <2>. QED
    BY <1>2, <2>1, EventStep DEF IInv, EditSource, NodeInv, Consistent, ObservationsInv, ActionsInv,
       BridgeInv, LastInv, StaleActionIsDropped
<1>3. CASE Deactivate
  <2>1. ControlInv'
    BY <1>3 DEF IInv, ControlInv, Deactivate, WriteSelection
  <2>. QED
    BY <1>3, <2>1, EventStep DEF IInv, Deactivate, NodeInv, Consistent, ObservationsInv, ActionsInv,
       BridgeInv, LastInv, StaleActionIsDropped
<1>4. CASE EditConfig
  <2>1. ControlInv'
    BY <1>4 DEF IInv, ControlInv, EditConfig
  <2>. QED
    BY <1>4, <2>1, EventStep DEF IInv, EditConfig, NodeInv, Consistent, ObservationsInv, ActionsInv,
       BridgeInv, LastInv, StaleActionIsDropped
<1>5. CASE SaveConfig
  <2>1. file \in Revisions /\ MaxRevision \in Nat /\ saves \in Nat
    BY AlgorithmBridgeAssumption DEF IInv, ControlInv
  <2>2. file' \in Revisions /\ file <= file' /\ saves' \in Nat
    BY <1>5, <2>1 DEF SaveConfig, Revisions
  <2>3. \A r \in Revisions : r <= file => r <= file'
    BY <2>1, <2>2 DEF Revisions
  <2>4. ControlInv'
    BY <1>5, <2>2 DEF IInv, ControlInv, SaveConfig
  <2>5. NodeInv'
    <3>1. node.revision \in Revisions
      BY DEF IInv, NodeInv, Consistent, Nodes
    <3>. QED
      BY <1>5, <2>3, <3>1 DEF IInv, SaveConfig, NodeInv, Consistent
  <2>6. ObservationsInv'
    <3>1. \A i \in 1..Len(observations) : observations[i].revision \in Revisions
      BY ObservedUavs DEF IInv, ObservationsInv
    <3>. QED
      BY <1>5, <2>3, <3>1 DEF IInv, SaveConfig, ObservationsInv
  <2>7. BridgeInv'
    <3>1. bridge # Idle => bridge.observation.revision \in Revisions
      BY ObservedUavs DEF IInv, BridgeInv
    <3>. QED
      BY <1>5, <2>3, <3>1 DEF IInv, SaveConfig, BridgeInv
  <2>. QED
    BY <1>5, <2>4, <2>5, <2>6, <2>7 DEF IInv, SaveConfig, ActionsInv, LastInv,
       StaleActionIsDropped, EventsInv
<1>. QED
  BY <1>1, <1>2, <1>3, <1>4, <1>5 DEF MissionControlStep

LEMMA NodeKeepsInv ==
  ASSUME IInv, NodeStep
  PROVE  IInv'
<1>. /\ node \in Nodes /\ (node.kind = "none" <=> node.strategy = NoAlgorithm)
     /\ node.revision <= file /\ file \in Revisions /\ MaxRevision \in Nat
  BY AlgorithmBridgeAssumption DEF IInv, NodeInv, Consistent, ControlInv
<1>1. CASE LoadActiveStrategy
  <2>. DEFINE algorithm == selection.algorithm
              kind == IF algorithm \in valid THEN "package"
                      ELSE IF algorithm \in Legacy THEN "legacy" ELSE "none"
              strategy == IF kind = "none" THEN NoAlgorithm ELSE algorithm
  <2>1. /\ selection.version \in Nat /\ valid \subseteq Algorithms /\ Legacy \subseteq Algorithms
        /\ NoAlgorithm \notin Algorithms
    BY AlgorithmBridgeAssumption DEF IInv, ControlInv
  <2>2. /\ kind \in {"none", "package", "legacy"} /\ strategy \in Algorithms \union {NoAlgorithm}
        /\ kind = "none" <=> strategy = NoAlgorithm
    BY <2>1
  <2>3. node' = [node EXCEPT !.seen = selection.version, !.kind = kind, !.strategy = strategy]
    BY <1>1 DEF LoadActiveStrategy
  <2>4. file' = file
    BY <1>1 DEF LoadActiveStrategy, missionControl
  <2>. HIDE DEF kind, strategy
  <2>5. NodeInv'
    BY <2>1, <2>2, <2>3, <2>4 DEF NodeInv, Consistent, Nodes
  <2>. QED
    BY <1>1, <2>5 DEF IInv, LoadActiveStrategy, missionControl, ObservationsInv, ActionsInv,
       BridgeInv, ControlInv, LastInv, StaleActionIsDropped, EventsInv
<1>2. CASE UpdateConfig
  <2>1. PICK r \in (node.revision + 1)..file :
          Recompute([node EXCEPT !.revision = r, !.failed = {}, !.standby = Configs[r].standby])
    BY <1>2 DEF UpdateConfig
  <2>2. r \in Revisions /\ r <= file
    <3>1. node.revision \in Revisions
      BY DEF Nodes
    <3>. QED
      BY <3>1 DEF Revisions
  <2>3. Configs[r].standby \in SUBSET Drones
    BY <2>2, ConfigType DEF Configurations
  <2>4. Consistent([node EXCEPT !.revision = r, !.failed = {}, !.standby = Configs[r].standby])
    BY <2>2, <2>3 DEF Consistent, Nodes
  <2>. QED
    BY <1>2, <2>1, <2>4, RecomputeStep DEF UpdateConfig, IInv, EventsInv
<1>3. CASE IgnoreAction
  <2>1. ActionsInv'
    BY <1>3, ActionTaken DEF IInv, IgnoreAction
  <2>. QED
    BY <1>3, <2>1 DEF IInv, IgnoreAction, missionControl, NodeInv, Consistent, ObservationsInv,
       BridgeInv, ControlInv, LastInv, StaleActionIsDropped, EventsInv
<1>4. CASE ApplyAction
  <2>. DEFINE action == Head(actions)
              drones == Targets(node, action.plan)
  <2>1. ActionsInv' /\ action \in SoundActions
    BY <1>4, ActionTaken DEF IInv, ApplyAction
  <2>2. PICK some : /\ some \subseteq drones
                    /\ node' = Retargeted(node, action.plan, some)
                    /\ last' = Applied(node, action, some)
    BY <1>4 DEF ApplyAction
  <2>3. action.plan \in TargetMaps /\ Sound(action) /\ action.revision \in Revisions
    BY <2>1 DEF SoundActions, Actions
  <2>4. Awaited(node, action)
    BY <1>4 DEF ApplyAction
  <2>5. file' = file
    BY <1>4 DEF ApplyAction, missionControl
  <2>. HIDE DEF action
  <2>6. /\ node' \in Nodes /\ some \in SUBSET Drones
        /\ node'.kind = node.kind /\ node'.strategy = node.strategy
        /\ node'.revision = node.revision
    BY <2>2, <2>3, RetargetedType
  <2>7. NodeInv'
    BY <2>5, <2>6 DEF NodeInv, Consistent
  <2>8. LastInv'
    BY <2>1, <2>2, <2>6, AppliedType DEF LastInv
  <2>9. StaleActionIsDropped'
    <3>1. /\ last'.action = action /\ last'.revision = node.revision
          /\ last'.pending = node.pending
      BY <2>2 DEF Applied
    <3>2. ASSUME last'.pending = last'.revision, ~last'.action.own
          PROVE  last'.action.observation.revision \in {last'.revision, 0}
      <4>1. node.pending = node.revision /\ node.revision \in Revisions
        BY <3>1, <3>2 DEF Nodes
      <4>2. node.pending # -1
        BY <4>1 DEF Revisions
      <4>3. action.revision \in {node.pending, 0}
        BY <2>4, <4>2 DEF Awaited
      <4>4. action.revision = action.observation.revision
        BY <2>3, <3>1, <3>2 DEF Sound
      <4>. QED
        BY <3>1, <4>1, <4>3, <4>4
    <3>. QED
      BY <3>2 DEF StaleActionIsDropped
  <2>. QED
    BY <1>4, <2>1, <2>7, <2>8, <2>9 DEF IInv, ApplyAction, missionControl, ObservationsInv,
       BridgeInv, ControlInv, EventsInv
<1>5. ASSUME NEW d \in Drones, DetectFailure(d)
      PROVE  IInv'
  <2>1. PICK replacement :
          Recompute([node EXCEPT !.failed = @ \union {d}, !.standby = @ \ replacement])
    BY <1>5 DEF DetectFailure
  <2>2. Consistent([node EXCEPT !.failed = @ \union {d}, !.standby = @ \ replacement])
    BY DEF Consistent, Nodes
  <2>. QED
    BY <1>5, <2>1, <2>2, RecomputeStep, EventStep DEF DetectFailure, IInv
<1>6. ASSUME NEW d \in Drones, HealDrone(d)
      PROVE  IInv'
  <2>1. Consistent([node EXCEPT !.failed = @ \ {d}, !.standby = @ \ {d}])
    BY DEF Consistent, Nodes
  <2>. QED
    BY <1>6, <2>1, RecomputeStep, EventStep DEF HealDrone, IInv
<1>7. ASSUME NEW d \in Drones, StandbyDrone(d)
      PROVE  IInv'
  <2>1. Consistent([node EXCEPT !.standby = @ \union {d}])
    BY DEF Consistent, Nodes
  <2>. QED
    BY <1>7, <2>1, RecomputeStep, EventStep DEF StandbyDrone, IInv
<1>8. ASSUME NEW d \in Drones, PoseArrives(d)
      PROVE  IInv'
  <2>1. node' \in Nodes /\ node'.kind = node.kind /\ node'.strategy = node.strategy
        /\ node'.revision = node.revision
    BY <1>8 DEF PoseArrives, Nodes
  <2>2. NodeInv'
    BY <1>8, <2>1 DEF PoseArrives, missionControl, NodeInv, Consistent
  <2>. QED
    BY <1>8, <2>2, EventStep DEF IInv, PoseArrives, missionControl, ObservationsInv, ActionsInv,
       BridgeInv, ControlInv, LastInv, StaleActionIsDropped
<1>9. CASE ResetChain
  <2>1. Consistent([node EXCEPT !.failed = {}])
    BY DEF Consistent, Nodes
  <2>. QED
    BY <1>9, <2>1, RecomputeStep, EventStep DEF ResetChain, IInv
<1>10. CASE StandbyJoins
  <2>1. PICK near : Recompute([node EXCEPT !.standby = @ \ near])
    BY <1>10 DEF StandbyJoins
  <2>2. Consistent([node EXCEPT !.standby = @ \ near])
    BY DEF Consistent, Nodes
  <2>. QED
    BY <1>10, <2>1, <2>2, RecomputeStep, EventStep DEF StandbyJoins, IInv
<1>11. ASSUME NEW command \in Commands, MissionCommand(command)
       PROVE  IInv'
  <2>. DEFINE target == [d \in Drones |->
         CASE command = "takeoff" -> IF node.target[d] < TakeoffAltitude THEN TakeoffAltitude
                                     ELSE node.target[d]
           [] command = "hold" -> node.pos[d]
           [] command = "land" -> 0
           [] command = "return_home" -> Home[d]]
  <2>1. /\ node.target \in [Drones -> Int] /\ node.pos \in [Drones -> Int]
        /\ Home \in [Drones -> Int] /\ TakeoffAltitude \in Int
    BY AlgorithmBridgeAssumption DEF Nodes
  <2>2. target \in [Drones -> Int]
    BY <2>1 DEF Commands
  <2>3. node' = [node EXCEPT !.target = target]
    BY <1>11 DEF MissionCommand
  <2>. HIDE DEF target
  <2>4. NodeInv'
    BY <1>11, <2>2, <2>3 DEF MissionCommand, missionControl, NodeInv, Consistent, Nodes
  <2>. QED
    BY <1>11, <2>4, EventStep DEF IInv, MissionCommand, missionControl, ObservationsInv, ActionsInv,
       BridgeInv, ControlInv, LastInv, StaleActionIsDropped
<1>. QED
  BY <1>1, <1>2, <1>3, <1>4, <1>5, <1>6, <1>7, <1>8, <1>9, <1>10, <1>11 DEF NodeStep

LEMMA BridgeKeepsInv ==
  ASSUME IInv, BridgeGoesOn \/ WorkerAnswers
  PROVE  IInv'
<1>1. CASE DeclineObservation
  <2>1. ObservationsInv'
    BY <1>1, ObservationTaken DEF IInv, DeclineObservation, missionControl
  <2>. QED
    BY <1>1, <2>1 DEF IInv, DeclineObservation, missionControl, NodeInv, Consistent, ActionsInv,
       BridgeInv, ControlInv, LastInv, StaleActionIsDropped, EventsInv
<1>2. CASE Invoke
  <2>1. ObservationsInv'
    BY <1>2, ObservationTaken DEF IInv, Invoke, missionControl
  <2>2. Head(observations) \in Observations /\ Head(observations).revision <= file
    BY <1>2, ObservationTaken DEF IInv, Invoke, missionControl
  <2>3. selection.algorithm \in Algorithms
    BY <1>2 DEF IInv, ControlInv, Invoke
  <2>4. BridgeInv'
    BY <1>2, <2>2, <2>3 DEF BridgeInv, Invoke, missionControl
  <2>. QED
    BY <1>2, <2>1, <2>4 DEF IInv, Invoke, missionControl, NodeInv, Consistent, ActionsInv,
       ControlInv, LastInv, StaleActionIsDropped, EventsInv
<1>3. CASE WorkerFails
  BY <1>3 DEF IInv, WorkerFails, missionControl, NodeInv, Consistent, ObservationsInv, ActionsInv,
     BridgeInv, ControlInv, LastInv, StaleActionIsDropped, EventsInv
<1>4. CASE WorkerAnswers
  <2>1. bridge # Idle
    BY <1>4 DEF WorkerAnswers, Idle
  <2>2. /\ bridge.algorithm \in Algorithms /\ bridge.observation \in Observations
        /\ bridge.observation.revision <= file /\ file \in Revisions
    BY <2>1 DEF IInv, BridgeInv, ControlInv
  <2>3. PICK raw \in Proposals :
          actions' = Published(actions, Outgoing(bridge.algorithm, raw, bridge.observation, file))
    BY <1>4 DEF WorkerAnswers, ShieldConfig
  <2>. DEFINE sent == Outgoing(bridge.algorithm, raw, bridge.observation, file)
  <2>4. sent \in SoundActions
    BY <2>2, OutgoingSound
  <2>. HIDE DEF sent
  <2>5. ActionsInv'
    BY <2>3, <2>4, PublishedType DEF IInv, ActionsInv, sent
  <2>. QED
    BY <1>4, <2>5 DEF IInv, WorkerAnswers, missionControl, NodeInv, Consistent, ObservationsInv,
       BridgeInv, ControlInv, LastInv, StaleActionIsDropped, EventsInv
<1>. QED
  BY <1>1, <1>2, <1>3, <1>4 DEF BridgeGoesOn

LEMMA StutterKeepsInv ==
  ASSUME IInv, UNCHANGED vars
  PROVE  IInv'
  BY DEF IInv, vars, missionControl, NodeInv, Consistent, ObservationsInv, ActionsInv, BridgeInv,
     ControlInv, LastInv, StaleActionIsDropped, EventsInv

LEMMA InvHolds == Spec => []IInv
<1>1. IInv /\ [Next]_vars => IInv'
  BY MissionControlKeepsInv, NodeKeepsInv, BridgeKeepsInv, StutterKeepsInv DEF Next
<1>. QED
  BY <1>1, InitInv, PTL DEF Spec

-----------------------------------------------------------------------------
LEMMA SoundActionIsAction == \A a \in SoundActions : IsAction(a)
  BY PlanIsTargetMap DEF SoundActions, Actions, IsAction

\* Every value has its type, and the topics keep no more messages than their depth.
THEOREM TypeCorrect == Spec => []TypeOK
<1>1. IInv => TypeOK
  <2>. HAVE IInv
  <2>1. Len(actions) <= Depth /\ \A i \in 1..Len(actions) : IsAction(actions[i])
    BY SoundActionIsAction DEF IInv, ActionsInv
  <2>2. last = <<>> \/ IsApplication(last)
    BY SoundActionIsAction DEF IInv, LastInv, Applications, IsApplication
  <2>. QED
    BY <2>1, <2>2 DEF IInv, NodeInv, Consistent, ObservationsInv, BridgeInv, ControlInv, EventsInv,
       TypeOK
<1>. QED
  BY <1>1, InvHolds, PTL

LEMMA KnownIsSound == IInv => \A a \in Known : a \in Actions /\ Sound(a)
  BY DEF IInv, ActionsInv, LastInv, Applications, SoundActions, Known

\* Whatever algorithms answer and however late, an action the shield accepted is safe by
\* the configuration it was shielded with (apply_safety_shield, in the bridge and in
\* direct mode).
THEOREM AcceptedActionsAreSafe == Spec => []AcceptedActionIsSafe
<1>1. IInv => AcceptedActionIsSafe
  BY KnownIsSound DEF Sound, AcceptedActionIsSafe
<1>. QED
  BY <1>1, InvHolds, PTL

\* The bridge reads the configuration when the worker has answered, so that no action is
\* shielded with limits older than its observation.
THEOREM ShieldConfigsAreCurrent == Spec => []ShieldConfigIsCurrent
<1>1. IInv => ShieldConfigIsCurrent
  <2>1. ASSUME IInv, NEW a \in Known
        PROVE  a.shieldedWith >= a.observation.revision
    <3>1. a.shieldedWith \in Int /\ a.observation.revision \in Int
      BY <2>1, KnownIsSound DEF Actions, Observations, Revisions
    <3>2. a.observation.revision <= a.shieldedWith
      BY <2>1, KnownIsSound DEF Sound
    <3>. QED
      BY <3>1, <3>2
  <2>. QED
    BY <2>1 DEF ShieldConfigIsCurrent
<1>. QED
  BY <1>1, InvHolds, PTL

\* _algorithm_action_cb applies no answer to an observation of an earlier configuration
\* once it has asked under the present one.
THEOREM StaleActionsAreDropped == Spec => []StaleActionIsDropped
<1>1. IInv => StaleActionIsDropped
  BY DEF IInv
<1>. QED
  BY <1>1, InvHolds, PTL

-----------------------------------------------------------------------------
(* Late actions.                                                             *)

LEMMA PublishedNotShorter ==
  ASSUME NEW S, NEW topic \in Seq(S), NEW message \in S, Len(topic) <= Depth
  PROVE  Len(Published(topic, message)) >= Len(topic)
<1>1. Depth \in Nat /\ Depth # 0
  BY AlgorithmBridgeAssumption
<1>2. CASE Len(topic) = Depth
  BY <1>1, <1>2, TailType DEF Published
<1>3. CASE Len(topic) # Depth
  BY <1>1, <1>3 DEF Published
<1>. QED
  BY <1>2, <1>3

\* An action leaves the topic only when the callback drops or applies it.
LEMMA OnlyTheNodeTakesActions ==
  ASSUME IInv, [Next]_vars, Len(actions') < Len(actions)
  PROVE  IgnoreAction \/ ApplyAction
<1>1. Len(actions) \in Nat
  BY DEF IInv, ActionsInv
<1>2. actions' # actions
  BY <1>1
<1>3. ~MissionControlStep
  BY <1>2 DEF MissionControlStep, Activate, EditSource, Deactivate, EditConfig, SaveConfig
<1>4. ~BridgeGoesOn
  BY <1>2 DEF BridgeGoesOn, DeclineObservation, Invoke, WorkerFails
<1>5. ~WorkerAnswers
  <2>. SUFFICES ASSUME WorkerAnswers
                PROVE  FALSE
    OBVIOUS
  <2>1. bridge # Idle
    BY DEF WorkerAnswers, Idle
  <2>2. /\ bridge.algorithm \in Algorithms /\ bridge.observation \in Observations
        /\ bridge.observation.revision <= file /\ file \in Revisions
    BY <2>1 DEF IInv, BridgeInv, ControlInv
  <2>3. PICK raw \in Proposals :
          actions' = Published(actions, Outgoing(bridge.algorithm, raw, bridge.observation, file))
    BY DEF WorkerAnswers, ShieldConfig
  <2>. DEFINE sent == Outgoing(bridge.algorithm, raw, bridge.observation, file)
  <2>4. sent \in SoundActions
    BY <2>2, OutgoingSound
  <2>. HIDE DEF sent
  <2>5. Len(Published(actions, sent)) >= Len(actions)
    BY <2>4, PublishedNotShorter DEF IInv, ActionsInv
  <2>6. actions' = Published(actions, sent)
    BY <2>3 DEF sent
  <2>7. Len(Published(actions, sent)) \in Nat
    BY <2>4, PublishedType DEF IInv, ActionsInv
  <2>. QED
    BY <1>1, <2>5, <2>6, <2>7
<1>6. ~UNCHANGED vars
  BY <1>2 DEF vars
<1>7. NodeStep
  BY <1>3, <1>4, <1>5, <1>6 DEF Next
<1>. QED
  BY <1>2, <1>7 DEF NodeStep, LoadActiveStrategy, UpdateConfig, DetectFailure, HealDrone, StandbyDrone,
     PoseArrives, ResetChain, StandbyJoins, MissionCommand

\* An action that reaches _algorithm_action_cb after a failure or a change of roles does
\* not move the drones that have failed or stand by now, however much of a plan with a
\* bad vector is applied.
THEOREM LateActionsSpareOthers == Spec => LateActionSparesOthers
<1>1. ASSUME IInv, [Next]_vars, Len(actions') < Len(actions),
             NEW d \in node.failed \union node.standby
      PROVE  node'.target[d] = node.target[d]
  <2>1. CASE IgnoreAction
    BY <2>1 DEF IgnoreAction
  <2>2. CASE ApplyAction
    <3>1. PICK some : /\ some \subseteq Targets(node, Head(actions).plan)
                      /\ node' = Retargeted(node, Head(actions).plan, some)
      BY <2>2 DEF ApplyAction
    <3>2. Head(actions) \in SoundActions
      BY <1>1, <2>2, ActionTaken DEF IInv, ApplyAction
    <3>3. Head(actions).plan \in TargetMaps /\ node \in Nodes
      BY <1>1, <3>2 DEF SoundActions, Actions, IInv, NodeInv, Consistent
    <3>4. d \in Drones /\ d \notin some
      BY <1>1, <3>1, <3>3 DEF Nodes, Targets, Relays
    <3>. QED
      BY <3>1, <3>3, <3>4, RetargetedType
  <2>. QED
    BY <1>1, <2>1, <2>2, OnlyTheNodeTakesActions
<1>2. IInv /\ [Next]_vars =>
        [Len(actions') < Len(actions) =>
           \A d \in node.failed \union node.standby : node'.target[d] = node.target[d]]_vars
  BY <1>1
<1>. QED
  BY <1>2, InvHolds, PTL DEF Spec, LateActionSparesOthers
=============================================================================
