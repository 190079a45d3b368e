-------------------------- MODULE MCMissionControl --------------------------
(* Model checking of MissionControl: a reference experiment of four drones,  *)
(* three of them relays, and pairs of operations that overlap.               *)
EXTENDS MissionControl

\* Received power falls by 10 dB per 28 m; the third relay is out of reach of the
\* station.
SmallRxPower == [d \in {28 * i : i \in 0..8} |-> -60 - 10 * (d \div 28)]

SmallNoise == -94
SmallAltitudes == 1..150

SmallLimits == [range |-> 90, hardOutage |-> 220, snr |-> 3, capacity |-> 3,
                degraded |-> FALSE, penalty |-> 1]

\* All graphs of edges from any node to one of three relays, and graphs of more
\* nodes: a square with a tail, two rings in one node, two crossing routes.
Arrows == << <<0, 1>>, <<0, 2>>, <<0, 3>>, <<1, 2>>, <<1, 3>>, <<2, 1>>, <<2, 3>>, <<3, 1>>, <<3, 2>> >>
SmallGraphs ==
  {[relays |-> 3, edges |-> SelectSeq(Arrows, LAMBDA e : e \in S)] : S \in SUBSET Range(Arrows)} \union
  {[relays |-> 4, edges |-> << <<0, 1>>, <<0, 2>>, <<1, 3>>, <<2, 3>>, <<1, 4>> >>],
   [relays |-> 4, edges |-> << <<0, 1>>, <<1, 2>>, <<2, 0>>, <<2, 3>>, <<3, 4>>, <<4, 2>> >>],
   [relays |-> 5, edges |-> << <<0, 1>>, <<0, 4>>, <<1, 2>>, <<1, 3>>, <<2, 5>>, <<3, 5>>, <<4, 2>> >>],
   [relays |-> 5, edges |-> << <<0, 1>>, <<1, 2>>, <<2, 3>>, <<3, 4>>, <<2, 5>> >>]}

\* Node 9 is an endpoint that does not exist.
SmallOrders == {<<0, 1, 2, 3, 4, 5, 9>>, <<9, 3, 1, 5, 0, 2, 4>>}

Rows == {<<1>>, <<3>>, <<1, 2>>, <<2, 1>>, <<2, 3>>, <<1, 2, 3>>, <<1, 3, 2>>, <<3, 1>>}

Proposal(mode, branches, edges, sinks, failed, fallback, range) ==
  [DefaultExperiment EXCEPT
     !.topology = [mode |-> mode, branches |-> branches, manual_edges |-> edges, sinks |-> sinks],
     !.swarm.drones = [i \in DOMAIN @ |-> [@[i] EXCEPT !.failed = i \in failed]],
     !.communication.fallback = fallback,
     !.communication.range = range]

SmallProposals ==
  {Proposal("parallel", <<r, s>>, <<>>, {3}, failed, "free_space", range) :
     r \in Rows, s \in Rows, failed \in {{}, {2}}, range \in {50, 90}} \union
  {Proposal("manual", <<>>, edges, {3}, {}, fallback, range) :
     edges \in {<< <<0, 1>>, <<1, 2>>, <<2, 3>>, <<3, 1>> >>, << <<0, 3>> >>,
                << <<0, 3>>, <<1, 1>>, <<2, 9>> >>},
     fallback \in {"free_space", "trace_replay"}, range \in {50, 90}} \union
  {Proposal("mesh", << <<1, 2>>, <<3>> >>, <<>>, {}, {}, "log_distance", 90)}

SmallPresets == {"chain", "parallel", "forest"} \X (1..3)

\* Versioned, enveloped and flat documents; some are not valid.
Versioned == {[kind |-> "versioned", body |-> b] : b \in
  {[traffic |-> [flows |-> <<1, 2>>]], DefaultExperiment, [communication |-> [range |-> 200]], [communication |-> [range |-> 230]],
   [communication |-> [model |-> "sionna_rt"]],
   [topology |-> [mode |-> "manual"]], [swarm |-> [drone_count |-> 2]]}}

Flat == {[kind |-> "flat", body |-> b] : b \in
  {[drone_count |-> 2], [drone_count |-> 5, relay_count |-> 3], [relay_count |-> 9], [branch_count |-> 2, standby_count |-> 1],
   [transmission_mode |-> "mesh", branch_count |-> 5], [manual_branches |-> << <<1>>, <<2, 3>> >>],
   [antennas |-> <<[id |-> UavAntenna, attached |-> 1]>>],
   [range |-> 50, outage |-> 40]}}

SmallDocuments == Versioned \union Flat \union
  {EmitLegacyConfig(Migrated(d)) : d \in Versioned \union Flat}

SmallHops ==
  [model : {"free_space", "sionna_rt", "trace_replay"}, fallbackModel : {"free_space"},
   allowFallback : BOOLEAN, distance : {28, 84, 112, 168, 224}, interference : {0, 4, 9},
   noiseFloor : {ThermalNoise}, ends : {AllUp},
   limits : {[SmallLimits EXCEPT !.range = r, !.hardOutage = h] : r \in {90, 168}, h \in {168, 220}}]

S(kind) == <<kind, "server">>
C(kind) == <<kind, "cli">>

\* Overlapping operations, of one process and of two.
SmallWorkloads ==
  {<<S("start_build"), C("stop")>>, <<S("start"), S("update_swarm")>>, <<S("restart"), S("hold")>>,
   <<S("start_experiment"), S("update_topology")>>, <<C("synchronize"), S("save_config")>>,
   <<C("promote_standby"), S("update_swarm")>>, <<S("stop_experiment"), S("fail_uav")>>,
   <<S("hold"), S("stop_experiment")>>, <<S("heal_uav"), C("recompute_topology")>>,
   <<S("standby_uav"), C("reset_chain")>>, <<S("stop"), S("synchronize")>>}
=============================================================================
