----------------------------- MODULE Experiment -----------------------------
(***************************************************************************)
(* The experiment document (netlab/config.py): migration of old documents, *)
(* validation, the compatibility envelope written to disk and what loading *)
(* it again gives.                                                         *)
(*                                                                         *)
(* A document is a record, with the fields the validator relates to each   *)
(* other; ids are numbers (drones and relays), the station is 0, antennas  *)
(* are model values.  A versioned document may leave fields out, a flat    *)
(* one is of an older release, and an envelope holds a versioned document  *)
(* under v6 beside the flat aliases.                                       *)
(***************************************************************************)
EXTENDS Topology

CONSTANTS
  DefaultTotal, DefaultRelays,     \* the reference experiment's inventory
  GroundAntenna, UavAntenna        \* its two antennas

ASSUME ExperimentAssumption ==
  /\ DefaultRelays \in 1..DefaultTotal
  /\ GroundAntenna # UavAntenna

PropagationModels ==
  {"free_space", "log_distance", "probabilistic_air_to_ground", "stochastic_shadowing",
   "sionna_analytical", "sionna_rt", "trace_replay", "plugin"}

Gap(a, b) == IF a < b THEN b - a ELSE a - b

Field(document, key, default) == IF key \in DOMAIN document THEN document[key] ELSE default

\* The entries of over, and those of base it does not have.
Overlaid(over, base) ==
  [k \in DOMAIN over \union DOMAIN base |-> IF k \in DOMAIN over THEN over[k] ELSE base[k]]

\* _drone
Drone(i, relays) ==
  [id |-> i, role |-> IF i <= relays THEN "relay" ELSE "standby",
   active |-> TRUE, failed |-> FALSE, position |-> 28 * i]

DefaultExperiment ==
  [swarm |-> [drone_count |-> DefaultTotal, relay_count |-> DefaultRelays,
              standby_count |-> DefaultTotal - DefaultRelays,
              drones |-> [i \in 1..DefaultTotal |-> Drone(i, DefaultRelays)]],
   topology |-> [mode |-> "chain", sinks |-> {DefaultRelays}, manual_edges |-> <<>>,
                 branches |-> << [i \in 1..DefaultRelays |-> i] >>],
   communication |-> [model |-> "sionna_analytical", fallback |-> "free_space",
                      range |-> 90, outage |-> 220],
   antennas |-> [definitions |-> <<GroundAntenna, UavAntenna>>,
                 assignments |-> [e \in 0..DefaultTotal |->
                                    IF e = 0 THEN GroundAntenna ELSE UavAntenna]],
   traffic |-> [flows |-> <<1>>]]

-----------------------------------------------------------------------------
(* Migration.                                                                *)

\* The fields whose values are objects; lists and plain values are replaced.
Objects == {"swarm", "topology", "communication", "antennas", "traffic"}

\* deep_merge, for one object and for the document that holds it; of the objects
\* inside an object, the assignments of the antennas are the one that matters here.
MergedSection(base, override) ==
  [k \in DOMAIN base \union DOMAIN override |->
     IF k \notin DOMAIN override THEN base[k]
     ELSE IF k = "assignments" /\ k \in DOMAIN base THEN Overlaid(override[k], base[k])
     ELSE override[k]]

DeepMerge(base, override) ==
  [k \in DOMAIN base \union DOMAIN override |->
     IF k \notin DOMAIN override THEN base[k]
     ELSE IF k \in Objects /\ k \in DOMAIN base THEN MergedSection(base[k], override[k])
     ELSE override[k]]

\* The inventory of a flat document.
MigratedSwarm(flat) ==
  LET listed == Field(flat, "drones", <<>>)
      total == Max({1, Field(flat, "drone_count", IF listed = <<>> THEN DefaultTotal ELSE Len(listed))})
      asked == Field(flat, "relay_count", Max({1, total - Field(flat, "standby_count", 0)}))
      relays == Max({1, Min({total, asked})})
      Listed(i) == IF i \in DOMAIN listed THEN Overlaid(listed[i], Drone(i, relays)) ELSE Drone(i, relays)
  IN [drone_count |-> total, relay_count |-> relays, standby_count |-> total - relays,
      drones |-> [i \in 1..total |-> Listed(i)]]

MigratedTopology(flat, relays) ==
  LET count == Field(flat, "branch_count", 1)
      named == Field(flat, "transmission_mode", "chain")
      mode == IF named \in Modes THEN named ELSE IF count > 1 THEN "parallel" ELSE "chain"
      all == [i \in 1..relays |-> i]
      given == Field(flat, "manual_branches", <<>>)
      hands == IF mode = "chain" THEN 1 ELSE Max({1, count})
  IN [mode |-> mode,
      branches |-> IF given # <<>> THEN given ELSE [k \in 1..hands |-> Hand(all, k, hands)]]

\* Each antenna of a flat document says what it is attached to.
MigratedAntennas(listed) ==
  [definitions |-> [i \in DOMAIN listed |-> listed[i].id],
   assignments |-> [e \in {listed[i].attached : i \in DOMAIN listed} |->
      listed[Max({i \in DOMAIN listed : listed[i].attached = e})].id]]

MigratedFlat(flat) ==
  LET base == DefaultExperiment
      swarm == MigratedSwarm(flat)
      antennas == Field(flat, "antennas", <<>>)
  IN [base EXCEPT
        !.swarm = swarm,
        !.topology = Overlaid(MigratedTopology(flat, swarm.relay_count), @),
        !.communication.range = Field(flat, "range", @),
        !.communication.outage = Field(flat, "outage", @),
        !.antennas = IF antennas = <<>> THEN @ ELSE MigratedAntennas(antennas)]

\* Mutant of Migrated: an envelope is read through its aliases.
MigratedThroughAliases(document) ==
  CASE document.kind = "versioned" -> DeepMerge(DefaultExperiment, document.body)
    [] OTHER -> MigratedFlat(IF document.kind = "flat" THEN document.body ELSE document)

\* migrate_legacy_config
Migrated(document) ==
  CASE document.kind = "versioned" -> DeepMerge(DefaultExperiment, document.body)
    [] document.kind = "envelope"  -> DeepMerge(DefaultExperiment, document.v6)
    [] document.kind = "flat"      -> MigratedFlat(document.body)

-----------------------------------------------------------------------------
(* Validation (validate_experiment): the codes of all errors.                *)

CountErrors(swarm) ==
  (IF swarm.drone_count \in 1..512 THEN {} ELSE {"OUT_OF_RANGE"}) \union
  (IF /\ swarm.relay_count \in 1..swarm.drone_count
      /\ swarm.standby_count >= 0
      /\ swarm.relay_count + swarm.standby_count = swarm.drone_count
   THEN {} ELSE {"COUNT_CONSISTENCY"}) \union
  (IF Len(swarm.drones) = swarm.drone_count THEN {} ELSE {"INVENTORY_SIZE"}) \union
  (IF \E i, j \in DOMAIN swarm.drones : i < j /\ swarm.drones[i].id = swarm.drones[j].id
   THEN {"DUPLICATE"} ELSE {})

ManualErrors(topology, entities) ==
  LET edges == topology.manual_edges
  IN IF edges = <<>> THEN {"REQUIRED"}
     ELSE (IF Ends(edges) \subseteq entities THEN {} ELSE {"UNKNOWN_ENDPOINT"}) \union
          (IF \E i \in DOMAIN edges : edges[i][1] = edges[i][2] THEN {"SELF_LOOP"} ELSE {})

BranchErrors(branches, relays) ==
  IF branches = <<>> THEN {"REQUIRED"}
  ELSE (IF <<>> \in Range(branches) THEN {"EMPTY_BRANCH"} ELSE {}) \union
       (IF UNION {Range(branches[k]) : k \in DOMAIN branches} \subseteq 1..relays
        THEN {} ELSE {"UNKNOWN_RELAY"}) \union
       (IF \E k \in DOMAIN branches : ~IsInjective(branches[k]) THEN {"DUPLICATE_NODE"} ELSE {})

AntennaErrors(antennas) ==
  (IF IsInjective(antennas.definitions) THEN {} ELSE {"DUPLICATE_OR_MISSING"}) \union
  (IF Range(antennas.assignments) \subseteq Range(antennas.definitions) THEN {} ELSE {"UNKNOWN_ANTENNA"})

\* The documents put no assets into the world, which ray tracing needs.
CommunicationErrors(communication) ==
  (IF communication.model \in PropagationModels THEN {} ELSE {"UNSUPPORTED_MODEL"}) \union
  (IF communication.outage >= communication.range THEN {} ELSE {"THRESHOLD_ORDER"}) \union
  (IF communication.model = "sionna_rt" THEN {"RAY_TRACING_WORLD_REQUIRED"} ELSE {})

Errors(config) ==
  LET swarm == config.swarm
      topology == config.topology
      entities == {Source} \union {swarm.drones[i].id : i \in DOMAIN swarm.drones}
  IN CountErrors(swarm) \union
     (IF topology.mode \in Modes THEN {} ELSE {"ENUM"}) \union
     (IF topology.mode = "manual" THEN ManualErrors(topology, entities)
                                  ELSE BranchErrors(topology.branches, swarm.relay_count)) \union
     CommunicationErrors(config.communication) \union
     AntennaErrors(config.antennas) \union
     (IF config.traffic.flows = <<>> \/ ~IsInjective(config.traffic.flows) THEN {"FLOWS"} ELSE {})

Valid(document) == Errors(Migrated(document)) = {}

-----------------------------------------------------------------------------
(* Saving and loading.                                                       *)

\* emit_legacy_config migrates its argument once more.  The aliases are what the
\* packet runtime reads.
EmitLegacyConfig(config) ==
  LET cfg == Migrated([kind |-> "versioned", body |-> config])
      drones == cfg.swarm.drones
  IN [kind |-> "envelope", v6 |-> cfg,
      drone_count |-> cfg.swarm.drone_count, relay_count |-> cfg.swarm.relay_count,
      failed_indices |-> {i \in DOMAIN drones : drones[i].failed},
      transmission_mode |-> cfg.topology.mode,
      branch_count |-> Len(cfg.topology.branches),
      manual_branches |-> cfg.topology.branches,
      drones |-> drones]

\* save_experiment, for a document that is valid, and load_experiment.
SaveExperiment(document) == EmitLegacyConfig(Migrated(document))
LoadExperiment(envelope) == Migrated(envelope)
=============================================================================
