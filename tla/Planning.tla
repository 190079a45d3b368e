------------------------------ MODULE Planning ------------------------------
(***************************************************************************)
(* What Mission Control answers before anything runs: the validation of a  *)
(* topology with its analytics, the presets of Topology Studio, the        *)
(* preview of a link, and the validation of a document.  Each is a pure    *)
(* function of the request; together they announce what the link service   *)
(* and the packet runtime will do with the configuration.                  *)
(***************************************************************************)
EXTENDS Experiment, LinkGate, RelayInventory

CONSTANTS
  MinSeparation,    \* minimum_separation_m
  Altitudes,        \* the altitudes of the service region, a set
  Limits            \* the thresholds of the communication section

ASSUME LimitsAssumption ==
  Limits \in [range : Int, hardOutage : Int, snr : Int, capacity : Int, degraded : BOOLEAN,
              penalty : Int]

StationPosition == 0

-----------------------------------------------------------------------------
(* validate_topology.                                                        *)

NodesOf(config) == {Source} \union 1..config.swarm.relay_count

ModeOf(config) == IF config.topology.mode \in Modes THEN config.topology.mode ELSE "manual"

BranchesOf(config) == SanitizeBranches(config.topology.branches, config.swarm.relay_count)

EdgesOf(config) ==
  IF ModeOf(config) = "manual" /\ config.topology.manual_edges # <<>>
  THEN config.topology.manual_edges
  ELSE BranchesToEdges(BranchesOf(config))

SinksOf(config) ==
  IF config.topology.sinks # {} THEN config.topology.sinks
  ELSE IF BranchesOf(config) = <<>> THEN {} ELSE {Last(BranchesOf(config)[1])}

FailedOf(config) ==
  {config.swarm.drones[i].id : i \in {j \in DOMAIN config.swarm.drones : config.swarm.drones[j].failed}}

StructuralErrors(config, order) ==
  LET nodes == NodesOf(config)
      edges == EdgesOf(config)
      graph == Adjacency(nodes, edges, TRUE)
      holds(code) ==
        CASE code = "INVALID_MODE" -> config.topology.mode \notin Modes
          [] code = "NO_BRANCHES" -> BranchesOf(config) = <<>> /\ ModeOf(config) # "manual"
          [] code = "DUPLICATE_EDGES" -> ~IsInjective(edges)
          [] code = "MISSING_ENDPOINT" -> ~(Ends(edges) \subseteq nodes)
          [] code = "SELF_LOOP" -> \E i \in DOMAIN edges : edges[i][1] = edges[i][2]
          [] code = "CYCLE_NOT_ALLOWED" -> ModeOf(config) # "manual" /\ HasCycle(graph, order)
          [] code = "UNREACHABLE_SINK" -> ~(SinksOf(config) \subseteq Reached(graph, order, Source))
          [] code = "FAILED_NODE_IN_ACTIVE_ROUTE" -> Ends(edges) \intersect FailedOf(config) # {}
  IN {code \in {"INVALID_MODE", "NO_BRANCHES", "DUPLICATE_EDGES", "MISSING_ENDPOINT", "SELF_LOOP",
                "CYCLE_NOT_ALLOWED", "UNREACHABLE_SINK", "FAILED_NODE_IN_ACTIVE_ROUTE"} : holds(code)}

\* Altitude bounds and separation concern the drones only.
PhysicalErrors(config) ==
  LET drones == config.swarm.drones
  IN (IF \A i \in DOMAIN drones : drones[i].position \in Altitudes THEN {} ELSE {"ALTITUDE_VIOLATION"})
     \union
     (IF \E i, j \in DOMAIN drones :
           i < j /\ Gap(drones[i].position, drones[j].position) < MinSeparation
      THEN {"MINIMUM_SEPARATION_VIOLATION"} ELSE {})

-----------------------------------------------------------------------------
(* validate_config_topology adds an analytical preview of every edge whose   *)
(* endpoints have a position.  A fallback model that is not analytical ends  *)
(* the preview at its first edge.                                            *)

DroneOf(config, n) ==
  CHOOSE drone \in Range(config.swarm.drones) : drone.id = n

Positioned(config) ==
  {Source} \union {config.swarm.drones[i].id : i \in DOMAIN config.swarm.drones}

PositionOf(config, n) == IF n = Source THEN StationPosition ELSE DroneOf(config, n).position

HopEnds(config, edge) ==
  LET up(n) == n = Source \/ DroneOf(config, n).active
      down(n) == n # Source /\ DroneOf(config, n).failed
  IN [srcActive |-> up(edge[1]), dstActive |-> up(edge[2]),
      srcFailed |-> down(edge[1]), dstFailed |-> down(edge[2])]

\* Mutant of EdgePreview: the single hop range is the outage distance.
EdgePreviewToOutage(config, edge) ==
  EvaluateFeasibility(
    AnalyticalLink(Gap(PositionOf(config, edge[1]), PositionOf(config, edge[2])), 0),
    TRUE, HopEnds(config, edge),
    [Limits EXCEPT !.range = config.communication.outage, !.hardOutage = config.communication.outage])

EdgePreview(config, edge) ==
  EvaluateFeasibility(
    AnalyticalLink(Gap(PositionOf(config, edge[1]), PositionOf(config, edge[2])), 0),
    TRUE, HopEnds(config, edge),
    [Limits EXCEPT !.range = config.communication.range, !.hardOutage = config.communication.outage])

Previewed(config) ==
  IF config.communication.fallback \notin AnalyticalModels THEN {}
  ELSE {e \in Range(EdgesOf(config)) : {e[1], e[2]} \subseteq Positioned(config)}

ValidateConfigTopology(config, order) ==
  LET errors == StructuralErrors(config, order)
      structurally == errors = {}
      physically == PhysicalErrors(config) = {}
      links == Previewed(config)
      feasible == IF links = {} THEN "unknown"
                  ELSE IF \A e \in links : EdgePreview(config, e) = "FEASIBLE"
                  THEN "yes" ELSE "no"
  IN [errors |-> errors, structurally |-> structurally, physically |-> physically, feasible |-> feasible,
      operational |-> structurally /\ physically /\ feasible # "no"]

-----------------------------------------------------------------------------
(* Topology Studio's presets, and POST /api/topology up to the save.         *)

Preset(mode, relays, branchCount) ==
  LET all == [i \in 1..relays |-> i]
      hands == Max({1, branchCount})
      roots == Min({2, relays})
      rest == [i \in 1..(relays - roots) |-> roots + i]
      dealt == [k \in 1..hands |-> Hand(all, k, hands)]
  IN CASE mode = "chain" -> <<all>>
       [] mode = "parallel" -> Kept(dealt, {k \in 1..hands : dealt[k] # <<>>})
       [] mode = "forest" /\ relays < 2 -> << <<1>> >>
       [] mode = "forest" ->
            [k \in 1..hands |-> <<1 + ((k - 1) % roots)>> \o Hand(rest, k, hands)]

\* update_topology before its validation: the inventory is replaced and the
\* counts are taken from the roles.
UpdatedTopology(config, topology, drones) ==
  LET standby == {i \in DOMAIN drones : drones[i].role = "standby"}
      merged == Overlaid(topology, config.topology)
  IN [config EXCEPT
        !.topology = [merged EXCEPT !.branches = SanitizeBranches(@, 100000)],
        !.swarm = [drone_count |-> Len(drones),
                   relay_count |-> Len(drones) - Cardinality(standby),
                   standby_count |-> Cardinality(standby),
                   drones |-> drones]]

AcceptsTopology(config, order) ==
  LET validation == ValidateConfigTopology(config, order)
  IN validation.structurally /\ validation.physically /\ Errors(config) = {}

\* Mutant of RuntimePayload: the branches are read in manual mode only.
RuntimePayloadByMode(envelope) ==
  [count |-> envelope.drone_count, failed |-> envelope.failed_indices,
   standby |-> {i \in DOMAIN envelope.drones : envelope.drones[i].role = "standby"},
   mode |-> envelope.transmission_mode,
   rows |-> IF envelope.transmission_mode = "manual" THEN envelope.manual_branches ELSE <<>>]

\* What the packet runtime reads of the envelope, and the hops it will take.
RuntimePayload(envelope) ==
  [count |-> envelope.drone_count, failed |-> envelope.failed_indices,
   standby |-> {i \in DOMAIN envelope.drones : envelope.drones[i].role = "standby"},
   mode |-> envelope.transmission_mode, rows |-> envelope.manual_branches]

RuntimeBranches(config) == Branches(Configured(RuntimePayload(EmitLegacyConfig(config))))
=============================================================================
