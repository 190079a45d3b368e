--------------------------- MODULE MissionControl ---------------------------
(***************************************************************************)
(* Mission Control: the operations of Lifecycle, and the planning requests *)
(* an operator makes before running one.  A planning request only reads    *)
(* its payload, so requests are served one at a time while no operation    *)
(* has been submitted; answer is what the handler replies.                 *)
(***************************************************************************)
EXTENDS Planning, Lifecycle

CONSTANTS
  Graphs,      \* graphs to analyse: a number of relays and a list of edges
  Orders,      \* orders in which a process may iterate over a set of nodes
  Proposals,   \* experiments whose topology is to be validated
  Presets,     \* presets of Topology Studio: <<mode, number of branches>>
  Documents,   \* documents to load and save
  Hops         \* link requests

\* The requests of the packet runtime (_query_sionna): its hops are between drones
\* that are up, the noise is the receiver's, and the link may not be degraded.
ASSUME HopsAssumption ==
  Hops \subseteq
    [model : STRING, fallbackModel : STRING, allowFallback : BOOLEAN, distance : Distances,
     interference : Int, noiseFloor : {ThermalNoise}, ends : {AllUp},
     limits : [range : Int, hardOutage : Int, snr : Int, capacity : Int,
               degraded : {FALSE}, penalty : Int]]

\* An order has all nodes of all proposals; every relay has a drone; edges are pairs.
ASSUME ProposalsAssumption ==
  \A config \in Proposals :
    /\ Range(EdgesOf(config)) \subseteq Nat \X Nat
    /\ NodesOf(config) \subseteq Positioned(config)
    /\ \A order \in Orders :
         /\ order \in Seq(Nat)
         /\ NodesOf(config) \union Ends(EdgesOf(config)) \subseteq Range(order)

\* Presets of one branch or more, for a reference experiment of two relays or more that
\* keep their distance and stay in the service region.
ASSUME PresetsAssumption ==
  /\ Presets \subseteq {"chain", "parallel", "forest"} \X (Nat \ {0})
  /\ DefaultRelays \in 2..512
  /\ \A i \in 1..DefaultRelays : 28 * i \in Altitudes
  /\ MinSeparation \in 0..28
  /\ Orders # {}
  /\ \A order \in Orders : order \in Seq(Nat) /\ 0..DefaultRelays \subseteq Range(order)

ASSUME DocumentsAssumption ==
  \A document \in Documents : document.kind \in {"versioned", "envelope", "flat"}

VARIABLES request, answer

missionVars == <<vars, request, answer>>

Nothing == [type |-> "none"]

Requests ==
  [type : {"metrics"}, graph : Graphs, order : Orders] \union
  [type : {"topology"}, config : Proposals, order : Orders] \union
  [type : {"preset"}, preset : Presets] \union
  [type : {"document"}, document : Documents] \union
  [type : {"hop"}, hop : Hops]

\* The experiment Topology Studio posts for a preset: its relays and no others.
PresetConfig(preset) ==
  UpdatedTopology(DefaultExperiment,
    [mode |-> preset[1], branches |-> Preset(preset[1], DefaultRelays, preset[2]),
     sinks |-> {Last(Preset(preset[1], DefaultRelays, preset[2])[1])}],
    [i \in 1..DefaultRelays |-> Drone(i, DefaultRelays)])

GraphNodes(graph) == {Source} \union 1..graph.relays

\* The handlers.  The sink of a graph to analyse is its last relay.
Handle(r) ==
  CASE r.type = "metrics" ->
         TopologyMetrics(GraphNodes(r.graph), r.graph.edges, {r.graph.relays},
                         Ranked(GraphNodes(r.graph), r.order))
    [] r.type = "topology" -> ValidateConfigTopology(r.config, r.order)
    [] r.type = "preset" ->
         [accepted |-> AcceptsTopology(PresetConfig(r.preset), CHOOSE order \in Orders : TRUE),
          runs |-> RuntimeBranches(PresetConfig(r.preset))]
    [] r.type = "document" ->
         [valid |-> Valid(r.document), again |-> LoadExperiment(SaveExperiment(r.document))]
    [] r.type = "hop" -> EvaluateOne(r.hop)

Serve ==
  /\ request = Nothing
  /\ \A o \in Operations : op[o].status = "NONE"
  /\ state.phase = "STOPPED"
  /\ \E r \in Requests : request' = r /\ answer' = Handle(r)
  /\ UNCHANGED vars

Replied ==
  /\ request # Nothing
  /\ request' = Nothing
  /\ answer' = Nothing
  /\ UNCHANGED vars

Operates ==
  /\ request = Nothing
  /\ Next
  /\ UNCHANGED <<request, answer>>

MissionInit == Init /\ request = Nothing /\ answer = Nothing
MissionNext == Serve \/ Replied \/ Operates
MissionSpec == MissionInit /\ [][MissionNext]_missionVars /\ Fairness

-----------------------------------------------------------------------------
(* References the answers are compared with.                                 *)

\* b is in every set that holds a and that no edge leaves.
Reaches(edges, nodes, a, b) ==
  \A S \in SUBSET nodes : a \in S /\ (\A e \in edges : e[1] \in S => e[2] \in S) => b \in S

BothWays(edges) == edges \union {<<e[2], e[1]>> : e \in edges}

Without(edges, n) == {e \in edges : n \notin {e[1], e[2]}}

\* The nodes at most k edges away from a.
Ball(edges, a, k) ==
  LET near[i \in 0..k] ==
        IF i = 0 THEN {a} ELSE near[i - 1] \union {e[2] : e \in {f \in edges : f[1] \in near[i - 1]}}
  IN near[k]

\* The shortest walks from a to b, as the sequences of their nodes.
Geodesics(edges, nodes, a, b) ==
  LET k == CHOOSE i \in 0..Cardinality(nodes) :
             b \in Ball(edges, a, i) /\ (i > 0 => b \notin Ball(edges, a, i - 1))
      walks[i \in 0..k] ==
        IF i = 0 THEN {<<a>>}
        ELSE UNION {{Append(w, e[2]) : e \in {f \in edges : f[1] = Last(w)}} : w \in walks[i - 1]}
  IN {w \in walks[k] : Last(w) = b}

Analysed == GraphNodes(request.graph)

-----------------------------------------------------------------------------
(* Properties of the planning requests.                                      *)

\* The nodes and edges Mission Control marks as single points of failure are
\* exactly those whose removal separates nodes that were connected, whatever the
\* order in which the low-link search meets the neighbours.
CutsAreExact ==
  request.type = "metrics" =>
    LET edges == BothWays(Range(request.graph.edges))
        separates(n) == \E a, b \in Analysed \ {n} :
          Reaches(edges, Analysed, a, b) /\ ~Reaches(Without(edges, n), Analysed \ {n}, a, b)
    IN /\ answer.points = {n \in Analysed : separates(n)}
       /\ answer.bridges = {{e[1], e[2]} : e \in {f \in edges :
            ~Reaches(edges \ {f, <<f[2], f[1]>>}, Analysed, f[1], f[2])}}

\* The diameter is exact: the shortcut that sweeps a tree only twice is taken for
\* trees only, and a graph in several parts has none.
DiameterIsExact ==
  request.type = "metrics" =>
    LET edges == BothWays(Range(request.graph.edges))
        spans(k) == \A a \in Analysed : Ball(edges, a, k) = Analysed
        ks == {k \in 0..request.graph.relays : spans(k)}
    IN answer.diameter = IF ks = {} THEN -1 ELSE Min(ks)

\* The numbers of disjoint paths behind the resilience score are those of Menger's
\* theorem: the smallest set of edges, or of relays, that cuts the sink off.
DisjointPathsAreExact ==
  request.type = "metrics" =>
    LET edges == Range(request.graph.edges)
        sink == request.graph.relays
        leaving(S) == Cardinality({e \in edges : e[1] \in S /\ e[2] \notin S})
        direct == edges \intersect {<<Source, sink>>}
        cuts(K) == ~Reaches({e \in edges \ direct : {e[1], e[2]} \intersect K = {}},
                            Analysed \ K, Source, sink)
    IN /\ answer.edgeDisjoint[sink] =
            Min({leaving(S \union {Source}) : S \in SUBSET (Analysed \ {Source, sink})})
       /\ answer.nodeDisjoint[sink] = Cardinality(direct) +
            Min({Cardinality(K) : K \in {L \in SUBSET (Analysed \ {Source, sink}) : cuts(L)}})
       /\ answer.connectivity <= answer.redundancy

\* Betweenness is the share of the shortest paths between other nodes that pass
\* through a node, summed over both directions.
BetweennessIsExact ==
  request.type = "metrics" =>
    LET edges == BothWays(Range(request.graph.edges))
        Share(n, pair) ==
          LET all == Geodesics(edges, Analysed, pair[1], pair[2])
          IN (Unit * Cardinality({w \in all : n \in Range(w)})) \div Cardinality(all)
        pairs(n) == {pair \in (Analysed \ {n}) \X (Analysed \ {n}) :
                       pair[1] # pair[2] /\ Reaches(edges, Analysed, pair[1], pair[2])}
    IN \A n \in Analysed :
         answer.betweenness[n] = MapThenSumSet(LAMBDA pair : Share(n, pair), pairs(n))

\* A topology of branches is refused for a cycle exactly when its edges have one;
\* branches may share relays, so two of them can close a cycle none has alone.
CycleIsExact ==
  request.type = "topology" =>
    LET edges == Range(EdgesOf(request.config))
        nodes == NodesOf(request.config) \union Ends(EdgesOf(request.config))
    IN "CYCLE_NOT_ALLOWED" \in answer.errors <=>
         /\ ModeOf(request.config) # "manual"
         /\ \E e \in edges : Reaches(edges, nodes, e[2], e[1])

\* A topology Mission Control calls operational on the strength of its preview
\* reaches every sink over hops between drones that have not failed, each with
\* enough signal and in range.
OperationalIsRoutable ==
  request.type = "topology" /\ answer.operational /\ answer.feasible # "unknown" =>
    LET config == request.config
        good(e) ==
          LET gap == Gap(PositionOf(config, e[1]), PositionOf(config, e[2]))
          IN /\ {e[1], e[2]} \intersect FailedOf(config) = {}
             /\ gap <= config.communication.range
             /\ RxPower[gap] - ThermalNoise >= Limits.snr
    IN \A sink \in SinksOf(config) :
         Reaches({e \in Range(EdgesOf(config)) : good(e)}, NodesOf(config), Source, sink)

\* A preset that is accepted is run as Topology Studio shows it, except a forest of
\* one branch, which the packet runtime runs through the relay it leaves out.  A
\* forest is accepted only while no two branches share a root.
PresetsAreRunAsShown ==
  request.type = "preset" =>
    LET mode == request.preset[1]
        count == request.preset[2]
        shown == Preset(mode, DefaultRelays, count)
    IN /\ answer.accepted <=> (mode = "forest" => count <= Min({2, DefaultRelays}))
       /\ answer.accepted /\ ~(mode = "forest" /\ count = 1) => answer.runs = shown

\* Saving a valid document of any release and loading it again gives the migrated
\* document, and it is still valid.  A flat document with antennas of its own is
\* the exception: the second migration gives it back the reference assignments.
UpgradeKeepsDocument ==
  request.type = "document" /\ answer.valid /\
  ~(request.document.kind = "flat" /\ "antennas" \in DOMAIN request.document.body) =>
    /\ answer.again = Migrated(request.document)
    /\ Errors(answer.again) = {}

\* The gate the packet runtime would apply itself agrees with the verdict of the
\* link service, whatever the model and the distance, but for a hop of exactly the
\* hard outage distance.
GatesAgree ==
  request.type = "hop" /\ answer.ok /\ request.hop.distance # request.hop.limits.hardOutage =>
    SameVerdict(request.hop, answer)
=============================================================================
