--------------------------- MODULE AlgorithmBridge ---------------------------
(***************************************************************************)
(* Researcher algorithms in the running system.  The packet runtime        *)
(* publishes an observation whenever it recomputes the formation; the      *)
(* algorithm bridge, a node of its own, runs the selected algorithm in a   *)
(* worker process, passes its answer through the safety shield and         *)
(* publishes an action, which the packet runtime applies to the formation  *)
(* it has by then.  Mission Control selects algorithms through a file both *)
(* nodes read.  In direct mode the packet runtime runs the algorithm and   *)
(* the shield itself; a legacy strategy module runs without the shield.    *)
(*                                                                         *)
(* Revision 0 is the configuration the node starts with, which it calls    *)
(* runtime-current.  What an algorithm computes is any of Proposals.       *)
(***************************************************************************)
EXTENDS SafetyShield, Sequences

CONSTANTS
  Algorithms,   \* algorithm packages
  NoAlgorithm,  \* no algorithm is selected
  Mode,         \* NETLAB_ALGORITHM_BRIDGE_MODE: the modes to check
  External,     \* the algorithms that run as ROS 2 nodes of their own
  Legacy,       \* the algorithms with a legacy strategy module
  Proposals,    \* what algorithms may answer
  Configs,      \* the configuration of each revision
  MaxRevision,  \* the last revision
  Home,         \* where each drone starts
  Layout,       \* the formation of each set of active relays
  TakeoffAltitude,
  Depth,        \* messages a topic keeps, 10 in the code
  MaxEvents     \* bound on what operators and drones do

Revisions == 0..MaxRevision

\* An answer names its source revision, or none (-1).
IsAnswer(raw) ==
  /\ IsPlan(raw.plan)
  /\ raw \in [valid : BOOLEAN, moves : BOOLEAN, plan : {raw.plan}, frame : STRING,
              revision : Revisions \union {-1}, fallback : BOOLEAN]

ASSUME AlgorithmBridgeAssumption ==
  /\ NoAlgorithm \notin Algorithms
  /\ Mode \subseteq {"typed", "direct"}
  /\ External \subseteq Algorithms
  /\ Legacy \subseteq Algorithms
  /\ MaxRevision \in Nat
  /\ \A raw \in Proposals : IsAnswer(raw)
  /\ Configs \in [Revisions -> Configurations]
  /\ Home \in [Drones -> Nat]
  /\ Layout \in [SUBSET Drones -> [Drones -> Nat]]
  /\ TakeoffAltitude \in Nat
  /\ Depth \in Nat \ {0}
  /\ MaxEvents \in Nat

VARIABLES
  node,          \* the packet runtime
  observations,  \* topic /netlab/algorithm/observation
  bridge,        \* the algorithm bridge
  actions,       \* topic /netlab/algorithm/action
  selection,     \* the selection file and how often it was written
  valid,         \* packages the registry finds valid
  file,          \* the revision in the configuration file
  saves,         \* handlers of Mission Control that are to save a configuration
  last,          \* history: the last action applied
  events

missionControl == <<selection, valid, file, saves>>
vars == <<node, observations, bridge, actions, missionControl, last, events>>

Idle == [phase |-> "idle"]

\* Mutant of Published: a topic keeps every message.
PublishedAll(topic, message) == Append(topic, message)

\* A topic keeps the last messages.
Published(topic, message) ==
  Append(IF Len(topic) = Depth THEN Tail(topic) ELSE topic, message)

-----------------------------------------------------------------------------
(* The packet runtime's view of the swarm.                                   *)

Relays(n) == Drones \ (n.failed \union n.standby)

\* _canonical_algorithm_observation
Observation(n) ==
  [revision |-> n.revision,
   uavs |-> [d \in Drones |->
     [position |-> n.pos[d], active |-> d \notin n.standby, failed |-> d \in n.failed,
      low |-> d \in Configs[n.revision].low]]]

\* A failed drone sinks by four metres, down to the ground (0.3 m in the code).
Sunk(altitude) == IF altitude < 4 THEN 0 ELSE altitude - 4

\* The targets of _recompute_desired_positions before the strategy's.
Formation(n) ==
  [d \in Drones |->
     CASE d \in Relays(n) -> Layout[Relays(n)][d]
       [] d \in n.failed -> Sunk(n.pos[d])
       [] OTHER -> IF n.pos[d] = Home[d] THEN Home[d] ELSE n.target[d]]

\* Mutant of Targets: any drone of the experiment may be retargeted.
TargetsOfAll(n, plan) == {d \in DOMAIN plan \intersect Drones : plan[d] # BadVector}

\* The drones a plan retargets: relays that have not failed, at targets that are
\* vectors.
Targets(n, plan) == {d \in DOMAIN plan \intersect Relays(n) : plan[d] # BadVector}

Retargeted(n, plan, drones) ==
  [n EXCEPT !.target = [d \in Drones |-> IF d \in drones THEN plan[d] ELSE @[d]]]

-----------------------------------------------------------------------------
(* Actions: what an algorithm answered, and what the shield made of it.  The *)
(* fields observation, shieldedWith, verdict and own are history.            *)

\* The mutant of ShieldConfig: the configuration is read once, at the start.
FirstConfig == 0

\* The configuration is read again for every action.
ShieldConfig == file

\* What the bridge sends: the action of the decision, or the algorithm's own when
\* the decision has none.
Outgoing(algorithm, raw, observation, config) ==
  LET action == ActionOf(raw, observation)
      decision == ApplySafetyShield(action, observation, Configs[config])
  IN [algorithm |-> algorithm, revision |-> action.revision,
      fallback |-> decision.carries = "fallback" \/ raw.fallback,
      plan |-> IF decision.carries = "nothing" THEN raw.plan ELSE decision.plan,
      verdict |-> IF decision.carries = "nothing" THEN "unshielded" ELSE decision.carries,
      observation |-> observation, shieldedWith |-> config, own |-> raw.revision # -1]

\* A legacy module's plan_positions answers with a plan only.
LegacyAction(algorithm, raw, n) ==
  [algorithm |-> algorithm, revision |-> n.revision, fallback |-> FALSE, plan |-> raw.plan,
   verdict |-> "legacy", observation |-> Observation(n), shieldedWith |-> file, own |-> FALSE]

Applied(n, action, drones) ==
  [action |-> action, drones |-> drones, revision |-> n.revision, pending |-> n.pending]

(***************************************************************************)
(* _recompute_desired_positions and _apply_strategy_position_plan for the  *)
(* node n, which has a new role, failure or configuration.                 *)
(***************************************************************************)
Unplanned(n) ==
  /\ node' = [n EXCEPT !.target = Formation(n)]
  /\ UNCHANGED <<observations, last>>

Asks(n) ==
  /\ node' = [n EXCEPT !.target = Formation(n), !.pending = n.revision]
  /\ observations' = Published(observations, Observation(n))
  /\ UNCHANGED last

Plans(n, action) ==
  LET formed == [n EXCEPT !.target = Formation(n)]
      drones == Targets(n, action.plan)
  IN /\ node' = Retargeted(formed, action.plan, drones)
     /\ last' = Applied(n, action, drones)
     /\ UNCHANGED observations

\* Direct mode drops an action the shield does not accept.
Recompute(n) ==
  CASE n.kind = "package" /\ n.mode = "typed" -> Asks(n)
    [] n.kind = "package" /\ n.mode = "direct" ->
         \/ Unplanned(n)
         \/ /\ n.strategy \in valid \ External
            /\ \E raw \in Proposals :
                 LET action == Outgoing(n.strategy, raw, Observation(n), ShieldConfig)
                 IN action.verdict \in {"shielded", "proposal"} /\ Plans(n, action)
    [] n.kind = "legacy" ->
         \/ Unplanned(n)
         \/ \E raw \in Proposals : Plans(n, LegacyAction(n.strategy, raw, n))
    [] OTHER -> Unplanned(n)

-----------------------------------------------------------------------------
Init ==
  /\ \E mode \in Mode :
       node = [mode |-> mode, strategy |-> NoAlgorithm, kind |-> "none", seen |-> 0,
               revision |-> 0, pending |-> -1, failed |-> {}, standby |-> Configs[0].standby,
               pos |-> Home, target |-> Layout[Drones \ Configs[0].standby]]
  /\ observations = <<>>
  /\ bridge = Idle
  /\ actions = <<>>
  /\ selection = [algorithm |-> NoAlgorithm, version |-> 0]
  /\ valid = Algorithms
  /\ file = 0
  /\ saves = 0
  /\ last = <<>>
  /\ events = 0

Event ==
  /\ events < MaxEvents
  /\ events' = events + 1

-----------------------------------------------------------------------------
(* Mission Control.  Selecting an algorithm writes the selection file first  *)
(* and saves the configuration after that.                                   *)

WriteSelection(algorithm) ==
  selection' = [algorithm |-> algorithm, version |-> selection.version + 1]

Activate(algorithm) ==
  /\ Event
  /\ algorithm \in valid
  /\ WriteSelection(algorithm)
  /\ saves' = saves + 1
  /\ UNCHANGED <<node, observations, bridge, actions, valid, file, last>>

Deactivate ==
  /\ Event
  /\ WriteSelection(NoAlgorithm)
  /\ saves' = saves + 1
  /\ UNCHANGED <<node, observations, bridge, actions, valid, file, last>>

\* The handlers that load the configuration, change a section and save it.
EditConfig ==
  /\ Event
  /\ saves' = saves + 1
  /\ UNCHANGED <<node, observations, bridge, actions, selection, valid, file, last>>

\* save_config, up to the file; it may refuse the configuration.
SaveConfig ==
  /\ saves > 0
  /\ saves' = saves - 1
  /\ file' \in {file, IF file < MaxRevision THEN file + 1 ELSE file}
  /\ UNCHANGED <<node, observations, bridge, actions, selection, valid, last, events>>

\* The registry reads manifests and sources again whenever it is asked; what it
\* may find of a package that has been edited.
Revalidated(algorithm) == {valid \union {algorithm}, valid \ {algorithm}}

EditSource(algorithm) ==
  /\ Event
  /\ valid' \in Revalidated(algorithm)
  /\ valid' # valid
  /\ UNCHANGED <<node, observations, bridge, actions, selection, file, saves, last>>

-----------------------------------------------------------------------------
(* The packet runtime.                                                       *)

\* Mutant of LoadActiveStrategy: a selection of no algorithm is not followed.
LoadAnyStrategy ==
  /\ node.seen # selection.version
  /\ selection.algorithm # NoAlgorithm
  /\ node' = [node EXCEPT !.seen = selection.version, !.strategy = selection.algorithm,
                          !.kind = "package"]
  /\ UNCHANGED <<observations, bridge, actions, missionControl, last, events>>

\* Every tick compares the modification time of the selection file with the one
\* seen last.
LoadActiveStrategy ==
  /\ node.seen # selection.version
  /\ LET algorithm == selection.algorithm
         kind == IF algorithm \in valid THEN "package"
                 ELSE IF algorithm \in Legacy THEN "legacy" ELSE "none"
     IN node' = [node EXCEPT !.seen = selection.version, !.kind = kind,
                             !.strategy = IF kind = "none" THEN NoAlgorithm ELSE algorithm]
  /\ UNCHANGED <<observations, bridge, actions, missionControl, last, events>>

\* _update_config_cb for a revision that has been saved.
UpdateConfig ==
  /\ \E r \in (node.revision + 1)..file :
       Recompute([node EXCEPT !.revision = r, !.failed = {}, !.standby = Configs[r].standby])
  /\ UNCHANGED <<bridge, actions, missionControl, events>>

\* _process_pending_failure.  The algorithm's hooks may name the replacement, any
\* standby drone, before the node's own choice.
DetectFailure(d) ==
  /\ Event
  /\ d \in Relays(node)
  /\ LET candidates == node.standby \ node.failed
     IN \E replacement \in (IF candidates = {} THEN {{}} ELSE {{c} : c \in candidates}) :
          Recompute([node EXCEPT !.failed = @ \union {d}, !.standby = @ \ replacement])
  /\ UNCHANGED <<bridge, actions, missionControl>>

\* _heal_drone_cb, _standby_drone_cb and _reset_chain_cb.
HealDrone(d) ==
  /\ Event
  /\ Recompute([node EXCEPT !.failed = @ \ {d}, !.standby = @ \ {d}])
  /\ UNCHANGED <<bridge, actions, missionControl>>

StandbyDrone(d) ==
  /\ Event
  /\ Recompute([node EXCEPT !.standby = @ \union {d}])
  /\ UNCHANGED <<bridge, actions, missionControl>>

ResetChain ==
  /\ Event
  /\ Recompute([node EXCEPT !.failed = {}])
  /\ UNCHANGED <<bridge, actions, missionControl>>

\* _integrate_standby_if_possible: standby drones near a relay join.
StandbyJoins ==
  /\ Event
  /\ Relays(node) # {}
  /\ \E near \in SUBSET (node.standby \ node.failed) \ {{}} :
       Recompute([node EXCEPT !.standby = @ \ near])
  /\ UNCHANGED <<bridge, actions, missionControl>>

\* The pose of a drone that has flown to its target.
PoseArrives(d) ==
  /\ Event
  /\ node.pos[d] # node.target[d]
  /\ node' = [node EXCEPT !.pos[d] = node.target[d]]
  /\ UNCHANGED <<observations, bridge, actions, missionControl, last>>

Commands == {"takeoff", "hold", "land", "return_home"}

\* _mission_command_cb; emergency_stop moves targets as hold does.  Every drone is
\* meant, also those that have failed.
MissionCommand(command) ==
  /\ Event
  /\ node' = [node EXCEPT !.target = [d \in Drones |->
       CASE command = "takeoff" -> IF @[d] < TakeoffAltitude THEN TakeoffAltitude ELSE @[d]
         [] command = "hold" -> node.pos[d]
         [] command = "land" -> 0
         [] command = "return_home" -> Home[d]]]
  /\ UNCHANGED <<observations, bridge, actions, missionControl, last>>

\* Mutant of Awaited: the source revision is not compared.
AwaitedFromAnyone(n, action) == n.strategy # NoAlgorithm /\ action.algorithm = n.strategy

\* The early returns of _algorithm_action_cb.
Awaited(n, action) ==
  /\ n.strategy # NoAlgorithm
  /\ action.algorithm = n.strategy
  /\ n.pending # -1 => action.revision \in {n.pending, 0}

IgnoreAction ==
  /\ actions # <<>>
  /\ ~Awaited(node, Head(actions))
  /\ actions' = Tail(actions)
  /\ UNCHANGED <<node, observations, bridge, missionControl, last, events>>

\* A target that is not a vector is skipped, or ends the callback when part of the
\* plan has been applied.
ApplyAction ==
  /\ actions # <<>>
  /\ Awaited(node, Head(actions))
  /\ actions' = Tail(actions)
  /\ LET action == Head(actions)
         drones == Targets(node, action.plan)
     IN \E some \in (IF Malformed(action.plan) THEN SUBSET drones ELSE {drones}) :
          /\ node' = Retargeted(node, action.plan, some)
          /\ last' = Applied(node, action, some)
  /\ UNCHANGED <<observations, bridge, missionControl, events>>

-----------------------------------------------------------------------------
(* The bridge.  Its callback runs the algorithm and blocks until it is done. *)

\* An observation without an algorithm to run, or with one that cannot run here.
DeclineObservation ==
  /\ bridge = Idle
  /\ observations # <<>>
  /\ selection.algorithm \notin valid \ External
  /\ observations' = Tail(observations)
  /\ UNCHANGED <<node, bridge, actions, missionControl, last, events>>

Invoke ==
  /\ bridge = Idle
  /\ observations # <<>>
  /\ selection.algorithm \in valid \ External
  /\ observations' = Tail(observations)
  /\ bridge' = [phase |-> "running", algorithm |-> selection.algorithm,
                observation |-> Head(observations)]
  /\ UNCHANGED <<node, actions, missionControl, last, events>>

\* The worker has answered: the configuration is read, the shield applied and the
\* action published.
WorkerAnswers ==
  /\ bridge.phase = "running"
  /\ \E raw \in Proposals :
       actions' = Published(actions, Outgoing(bridge.algorithm, raw, bridge.observation, ShieldConfig))
  /\ bridge' = Idle
  /\ UNCHANGED <<node, observations, missionControl, last, events>>

\* Mutant of WorkerFails: a worker that does not end is not killed.
WorkerHangs == FALSE /\ UNCHANGED vars

\* The worker reports an exception or its own deadline, ends without an answer, or
\* is killed when it has not ended three seconds after its deadline.
WorkerFails ==
  /\ bridge.phase = "running"
  /\ bridge' = Idle
  /\ UNCHANGED <<node, observations, actions, missionControl, last, events>>

-----------------------------------------------------------------------------
MissionControlStep ==
  \/ \E a \in Algorithms : Activate(a) \/ EditSource(a)
  \/ Deactivate
  \/ EditConfig
  \/ SaveConfig

NodeStep ==
  \/ LoadActiveStrategy \/ UpdateConfig \/ IgnoreAction \/ ApplyAction
  \/ \E d \in Drones : DetectFailure(d) \/ HealDrone(d) \/ StandbyDrone(d) \/ PoseArrives(d)
  \/ ResetChain \/ StandbyJoins
  \/ \E command \in Commands : MissionCommand(command)

\* The node ticks.  The bridge's callback runs on; a worker need not answer, but its
\* deadline passes.
BridgeGoesOn == DeclineObservation \/ Invoke \/ WorkerFails

Next == MissionControlStep \/ NodeStep \/ BridgeGoesOn \/ WorkerAnswers

Fairness == WF_vars(LoadActiveStrategy) /\ WF_vars(BridgeGoesOn)

Spec == Init /\ [][Next]_vars /\ Fairness

-----------------------------------------------------------------------------
Nodes ==
  [mode : {"typed", "direct"}, strategy : Algorithms \union {NoAlgorithm},
   kind : {"none", "package", "legacy"}, seen : Nat, revision : Revisions,
   pending : Revisions \union {-1}, failed : SUBSET Drones, standby : SUBSET Drones,
   pos : [Drones -> Int], target : [Drones -> Int]]

Uavs == [position : Int, active : BOOLEAN, failed : BOOLEAN, low : BOOLEAN]

Observations == [revision : Revisions, uavs : [Drones -> Uavs]]

IsAction(a) ==
  /\ IsPlan(a.plan)
  /\ a \in [algorithm : Algorithms, revision : Revisions, fallback : BOOLEAN, plan : {a.plan},
            verdict : {"shielded", "proposal", "fallback", "unshielded", "legacy"},
            observation : Observations, shieldedWith : Revisions, own : BOOLEAN]

IsApplication(l) ==
  /\ IsAction(l.action)
  /\ l \in [action : {l.action}, drones : SUBSET Drones, revision : Revisions,
            pending : Revisions \union {-1}]

TypeOK ==
  /\ node \in Nodes /\ (node.kind = "none" <=> node.strategy = NoAlgorithm)
  /\ observations \in Seq(Observations) /\ Len(observations) <= Depth
  /\ Len(actions) <= Depth /\ \A i \in 1..Len(actions) : IsAction(actions[i])
  /\ bridge = Idle \/ bridge \in [phase : {"running"}, algorithm : Algorithms,
                                  observation : Observations]
  /\ selection \in [algorithm : Algorithms \union {NoAlgorithm}, version : Nat]
  /\ valid \subseteq Algorithms
  /\ file \in Revisions
  /\ saves \in Nat
  /\ last = <<>> \/ IsApplication(last)
  /\ events \in 0..MaxEvents

-----------------------------------------------------------------------------
Known == {actions[i] : i \in DOMAIN actions} \union (IF last = <<>> THEN {} ELSE {last.action})

\* An action the shield accepted, in either mode and whatever frame the algorithm
\* answered in, leaves every drone within its motion limits, apart from the others,
\* no further out of bounds than it was and, where the configuration asks for it,
\* keeps every hop up.
AcceptedActionIsSafe ==
  \A a \in Known : a.verdict = "shielded" => SafePlan(a.plan, a.observation, Configs[a.shieldedWith])

\* The configuration an action was shielded with is never older than the one its
\* observation was made under, although the bridge answers late.
ShieldConfigIsCurrent == \A a \in Known : a.shieldedWith >= a.observation.revision

\* Once the node has asked under its present configuration, it applies no action
\* that answers an observation of an earlier one, unless the algorithm names its
\* own source revision or the observation was of the first configuration, which
\* has no name.
StaleActionIsDropped ==
  last # <<>> /\ last.pending = last.revision /\ ~last.action.own =>
    last.action.observation.revision \in {last.revision, 0}

\* An action that arrives after a failure or a change of roles does not move the
\* drones that have failed or stand by now.
LateActionSparesOthers ==
  [][Len(actions') < Len(actions) =>
       \A d \in node.failed \union node.standby : node'.target[d] = node.target[d]]_vars

\* The bridge gets free again, however long the algorithm runs.
BridgeRecovers == []<>(bridge = Idle)

\* The node ends up with the algorithm that was selected last, or with none.
NodeFollowsSelection ==
  <>[](node.seen = selection.version /\ node.strategy \in {NoAlgorithm, selection.algorithm})

\* Algorithms advise: what moves a drone has passed the shield.
ShieldIsAuthoritative ==
  last # <<>> /\ last.drones # {} => last.action.verdict \in {"shielded", "fallback"}
=============================================================================
