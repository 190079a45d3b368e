------------------------ MODULE MissionControlProofs ------------------------
(***************************************************************************)
(* Mission Control, for any documents, proposals, graphs and workloads:    *)
(* serving planning requests leaves the operations as they are, and what   *)
(* the answers say is right.                                               *)
(***************************************************************************)
EXTENDS MissionControl, LifecycleProofs, LinkGateProofs, RelayInventoryProofs,
        FiniteSetTheorems, SequenceTheorems

-----------------------------------------------------------------------------
(* The composition.                                                          *)

\* Mission Control with its planning requests (do_POST in server.py) implements the
\* operations alone: to serve a request, and to have answered it, is a stutter.
THEOREM PlanningIsAStutter == MissionSpec => FairSpec
<1>1. [MissionNext]_missionVars => [Next]_vars
  BY DEF MissionNext, missionVars, Serve, Replied, Operates, vars
<1>2. MissionInit => Init
  BY DEF MissionInit
<1>. QED
  BY <1>1, <1>2, PTL DEF MissionSpec, FairSpec

\* So the state Mission Control shows keeps its types, claims no commitment the
\* revision store does not back, shows a stopped stack offline and reports only
\* missions the packet runtime has handled, also while requests are planned.
THEOREM OperationsStaySafe ==
  MissionSpec => [](TypeOK /\ StateClaimsAreBacked /\ OfflineWhenStopped /\ MissionAckIsFresh)
  BY PlanningIsAStutter, TypeCorrect, ClaimsOfCommitmentAreBacked, StoppedStackIsOffline,
     CompletedMissionsWereHandled, PTL

\* What an operator waits for: nothing, or the answer to what was asked.
Answered ==
  \/ request = Nothing
  \/ request \in Requests /\ answer = Handle(request)

\* An answer is what the handler gives for the request it answers.
LEMMA AnswersAnswer == MissionSpec => []Answered
<1>1. MissionInit => Answered
  BY DEF MissionInit, Answered
<1>2. Answered /\ [MissionNext]_missionVars => Answered'
  <2>. SUFFICES ASSUME Answered, [MissionNext]_missionVars PROVE Answered'
    OBVIOUS
  <2>1. CASE Serve
    BY <2>1 DEF Serve, Answered
  <2>2. CASE Replied
    BY <2>2 DEF Replied, Answered
  <2>3. CASE Operates
    BY <2>3 DEF Operates, Answered
  <2>4. CASE UNCHANGED missionVars
    BY <2>4 DEF missionVars, Answered
  <2>. QED
    BY <2>1, <2>2, <2>3, <2>4 DEF MissionNext
<1>. QED
  BY <1>1, <1>2, PTL DEF MissionSpec

\* The handler that gave an answer, by the type of the request.
LEMMA HandlerOf ==
  ASSUME Answered
  PROVE  /\ request.type = "topology" =>
              /\ request.config \in Proposals /\ request.order \in Orders
              /\ answer = ValidateConfigTopology(request.config, request.order)
         /\ request.type = "preset" =>
              /\ request.preset \in Presets
              /\ answer = [accepted |-> AcceptsTopology(PresetConfig(request.preset),
                                                        CHOOSE order \in Orders : TRUE),
                           runs |-> RuntimeBranches(PresetConfig(request.preset))]
         /\ request.type = "document" =>
              /\ request.document \in Documents
              /\ answer = [valid |-> Valid(request.document),
                           again |-> LoadExperiment(SaveExperiment(request.document))]
         /\ request.type = "hop" =>
              request.hop \in Hops /\ answer = EvaluateOne(request.hop)
<1>1. request = Nothing => request.type = "none"
  BY DEF Nothing
<1>2. CASE request = Nothing
  BY <1>1, <1>2
<1>3. CASE request \in Requests /\ answer = Handle(request)
  <2>1. request.type = "topology" =>
          request \in [type : {"topology"}, config : Proposals, order : Orders]
    BY <1>3 DEF Requests
  <2>2. request.type = "preset" => request \in [type : {"preset"}, preset : Presets]
    BY <1>3 DEF Requests
  <2>3. request.type = "document" => request \in [type : {"document"}, document : Documents]
    BY <1>3 DEF Requests
  <2>4. request.type = "hop" => request \in [type : {"hop"}, hop : Hops]
    BY <1>3 DEF Requests
  <2>. QED
    BY <1>3, <2>1, <2>2, <2>3, <2>4 DEF Handle
<1>. QED
  BY <1>2, <1>3 DEF Answered

-----------------------------------------------------------------------------
(* Hops.                                                                     *)

\* For any propagation, model, limits and distance but exactly the hard outage
\* distance, the verdict of the link service on a hop is the one the packet runtime's
\* own gate gives (evaluate_feasibility in link.py, _gate_reason in
\* snaas_relay_chain.py).
THEOREM GatesAlwaysAgree == MissionSpec => []GatesAgree
<1>1. Answered => GatesAgree
  <2>. SUFFICES ASSUME Answered, request.type = "hop", answer.ok,
                       request.hop.distance # request.hop.limits.hardOutage
                PROVE  SameVerdict(request.hop, answer)
    BY DEF GatesAgree
  <2>1. request.hop \in Hops /\ answer = EvaluateOne(request.hop)
    BY HandlerOf
  <2>2. request.hop \in PlainRequests
    BY <2>1, HopsAssumption DEF PlainRequests
  <2>. QED
    BY <2>1, <2>2, GatesAgreeOnPlainRequests
<1>. QED
  BY <1>1, AnswersAnswer, PTL

-----------------------------------------------------------------------------
(* Documents.                                                                *)

\* What deep_merge needs to know of an object that is merged into.
IsObject(base) ==
  /\ base = [k \in DOMAIN base |-> base[k]]
  /\ "assignments" \in DOMAIN base =>
       base["assignments"] = [e \in DOMAIN base["assignments"] |-> base["assignments"][e]]

\* To lay an object over another one twice is to do it once.
LEMMA OverriddenTwice ==
  ASSUME NEW f, NEW g
  PROVE  Overlaid(Overlaid(f, g), g) = Overlaid(f, g)
  BY DEF Overlaid

\* An object laid over itself stays as it is.
LEMMA OverriddenByItself ==
  ASSUME NEW f, f = [x \in DOMAIN f |-> f[x]]
  PROVE  Overlaid(f, f) = f
  BY DEF Overlaid

\* To merge a section again into what it has been merged into changes nothing.
LEMMA SectionMergedTwice ==
  ASSUME NEW base, NEW override, IsObject(base)
  PROVE  MergedSection(base, MergedSection(base, override)) = MergedSection(base, override)
<1>. DEFINE once == MergedSection(base, override)
            twice == MergedSection(base, once)
<1>1. /\ DOMAIN once = DOMAIN base \union DOMAIN override
      /\ once = [k \in DOMAIN base \union DOMAIN override |-> once[k]]
  BY DEF MergedSection
<1>2. twice = [k \in DOMAIN base \union DOMAIN override |-> twice[k]]
  BY <1>1 DEF MergedSection
<1>3. ASSUME NEW k \in DOMAIN base \union DOMAIN override
      PROVE  twice[k] = once[k]
  <2>1. CASE k = "assignments" /\ k \in DOMAIN base
    <3>1. twice[k] = Overlaid(once[k], base[k])
      BY <1>1, <2>1 DEF MergedSection
    <3>2. CASE k \in DOMAIN override
      <4>1. once[k] = Overlaid(override[k], base[k])
        BY <2>1, <3>2 DEF MergedSection
      <4>. QED
        BY <3>1, <4>1, OverriddenTwice
    <3>3. CASE k \notin DOMAIN override
      <4>1. once[k] = base[k]
        BY <3>3 DEF MergedSection
      <4>2. Overlaid(base[k], base[k]) = base[k]
        BY <2>1, OverriddenByItself DEF IsObject
      <4>. QED
        BY <3>1, <4>1, <4>2
    <3>. QED
      BY <3>2, <3>3
  <2>2. CASE ~(k = "assignments" /\ k \in DOMAIN base)
    BY <1>1, <2>2 DEF MergedSection
  <2>. QED
    BY <2>1, <2>2
<1>. QED
  <2>. HIDE DEF once, twice
  <2>. QED
    BY <1>1, <1>2, <1>3 DEF once, twice

\* A section with a value for every field is kept as it is, but for its assignments.
LEMMA CompleteSectionKept ==
  ASSUME NEW base, NEW override, IsObject(base),
         override = [k \in DOMAIN override |-> override[k]],
         DOMAIN base \subseteq DOMAIN override,
         "assignments" \in DOMAIN base => override["assignments"] = base["assignments"]
  PROVE  MergedSection(base, override) = override
<1>1. ASSUME NEW k \in DOMAIN override
      PROVE  MergedSection(base, override)[k] = override[k]
  <2>1. CASE k = "assignments" /\ k \in DOMAIN base
    <3>1. MergedSection(base, override)[k] = Overlaid(base[k], base[k])
      BY <2>1 DEF MergedSection
    <3>2. Overlaid(base[k], base[k]) = base[k]
      BY <2>1, OverriddenByItself DEF IsObject
    <3>. QED
      BY <2>1, <3>1, <3>2
  <2>2. CASE ~(k = "assignments" /\ k \in DOMAIN base)
    BY <2>2 DEF MergedSection
  <2>. QED
    BY <2>1, <2>2
<1>2. MergedSection(base, override) = [k \in DOMAIN override |-> MergedSection(base, override)[k]]
  BY DEF MergedSection
<1>. QED
  BY <1>1, <1>2

\* A document whose sections, where they are objects, are the base's own or have
\* been merged into them.
LEMMA CompleteDocumentKept ==
  ASSUME NEW base, NEW document,
         document = [k \in DOMAIN document |-> document[k]],
         DOMAIN base \subseteq DOMAIN document,
         \A k \in Objects \intersect DOMAIN base :
           MergedSection(base[k], document[k]) = document[k]
  PROVE  DeepMerge(base, document) = document
<1>1. ASSUME NEW k \in DOMAIN document
      PROVE  DeepMerge(base, document)[k] = document[k]
  <2>1. CASE k \in Objects /\ k \in DOMAIN base
    BY <2>1 DEF DeepMerge
  <2>2. CASE ~(k \in Objects /\ k \in DOMAIN base)
    BY <2>2 DEF DeepMerge
  <2>. QED
    BY <2>1, <2>2
<1>2. DeepMerge(base, document) = [k \in DOMAIN document |-> DeepMerge(base, document)[k]]
  BY DEF DeepMerge
<1>. QED
  BY <1>1, <1>2

\* deep_merge is idempotent: to merge the base into a merged document changes nothing.
LEMMA MergedTwice ==
  ASSUME NEW base, NEW override,
         \A k \in Objects \intersect DOMAIN base : IsObject(base[k])
  PROVE  DeepMerge(base, DeepMerge(base, override)) = DeepMerge(base, override)
<1>. DEFINE once == DeepMerge(base, override)
<1>1. /\ once = [k \in DOMAIN once |-> once[k]]
      /\ DOMAIN base \subseteq DOMAIN once
  BY DEF DeepMerge
<1>2. ASSUME NEW k \in Objects \intersect DOMAIN base
      PROVE  MergedSection(base[k], once[k]) = once[k]
  <2>1. CASE k \in DOMAIN override
    <3>1. once[k] = MergedSection(base[k], override[k])
      BY <2>1 DEF DeepMerge
    <3>. QED
      BY <3>1, SectionMergedTwice
  <2>2. CASE k \notin DOMAIN override
    <3>1. once[k] = base[k]
      BY <2>2 DEF DeepMerge
    <3>2. base[k] = [x \in DOMAIN base[k] |-> base[k][x]]
      BY DEF IsObject
    <3>. QED
      BY <3>1, <3>2, CompleteSectionKept
  <2>. QED
    BY <2>1, <2>2
<1>. QED
  <2>. HIDE DEF once
  <2>. QED
    BY <1>1, <1>2, CompleteDocumentKept DEF once

\* The sections of the reference experiment.
LEMMA DefaultSections ==
  /\ DOMAIN DefaultExperiment = Objects
  /\ DefaultExperiment = [k \in Objects |-> DefaultExperiment[k]]
  /\ \A k \in Objects : IsObject(DefaultExperiment[k])
  /\ \A k \in Objects \ {"antennas"} : "assignments" \notin DOMAIN DefaultExperiment[k]
<1>1. /\ DOMAIN DefaultExperiment = Objects
      /\ DefaultExperiment = [k \in Objects |-> DefaultExperiment[k]]
  BY DEF DefaultExperiment, Objects
<1>2. /\ IsObject(DefaultExperiment.swarm) /\ "assignments" \notin DOMAIN DefaultExperiment.swarm
      /\ IsObject(DefaultExperiment.topology)
      /\ "assignments" \notin DOMAIN DefaultExperiment.topology
  BY DEF DefaultExperiment, IsObject
<1>3. /\ IsObject(DefaultExperiment.communication)
      /\ "assignments" \notin DOMAIN DefaultExperiment.communication
      /\ IsObject(DefaultExperiment.traffic)
      /\ "assignments" \notin DOMAIN DefaultExperiment.traffic
  BY DEF DefaultExperiment, IsObject
<1>4. IsObject(DefaultExperiment.antennas)
  BY DEF DefaultExperiment, IsObject
<1>. QED
  <2>. HIDE DEF DefaultExperiment
  <2>. QED
    BY <1>1, <1>2, <1>3, <1>4 DEF Objects

\* A flat document without antennas of its own becomes a document with all sections
\* of the reference experiment and all fields of each.
LEMMA FlatIsComplete ==
  ASSUME NEW flat, "antennas" \notin DOMAIN flat
  PROVE  DeepMerge(DefaultExperiment, MigratedFlat(flat)) = MigratedFlat(flat)
<1>. DEFINE base == DefaultExperiment
            swarm == MigratedSwarm(flat)
            topology == Overlaid(MigratedTopology(flat, swarm.relay_count), base.topology)
            communication == [base.communication EXCEPT
                                !.range = Field(flat, "range", @), !.outage = Field(flat, "outage", @)]
            document == MigratedFlat(flat)
<1>1. document = [swarm |-> swarm, topology |-> topology, communication |-> communication,
                  antennas |-> base.antennas, traffic |-> base.traffic]
  <2>1. Field(flat, "antennas", <<>>) = <<>>
    BY DEF Field
  <2>2. /\ DOMAIN base = Objects
        /\ DOMAIN base.communication = {"model", "fallback", "range", "outage"}
        /\ base.communication = [k \in DOMAIN base.communication |-> base.communication[k]]
    BY DefaultSections DEF IsObject, Objects, DefaultExperiment
  <2>3. /\ DOMAIN document = Objects
        /\ document = [k \in Objects |-> document[k]]
    <3>. HIDE DEF base
    <3>. QED
      BY <2>2 DEF MigratedFlat, base
  <2>4. document.swarm = swarm /\ document.topology = topology /\ document.traffic = base.traffic
    <3>1. "swarm" \in DOMAIN base /\ "topology" \in DOMAIN base
      BY <2>2 DEF Objects
    <3>. HIDE DEF Objects, DefaultExperiment
    <3>. QED
      BY <3>1 DEF MigratedFlat
  <2>5. document.antennas = base.antennas
    BY <2>1, <2>2 DEF MigratedFlat, Objects
  <2>6. document.communication = communication
    <3>1. document.communication =
            [[base.communication EXCEPT !.range = Field(flat, "range", @)]
                EXCEPT !.outage = Field(flat, "outage", @)]
      BY <2>2 DEF MigratedFlat, Objects
    <3>. QED
      BY <2>2, <3>1
  <2>. HIDE DEF swarm, topology, communication, document, base
  <2>. QED
    BY <2>3, <2>4, <2>5, <2>6 DEF Objects
<1>2. MergedSection(base.swarm, swarm) = swarm
  <2>1. /\ swarm = [k \in DOMAIN swarm |-> swarm[k]]
        /\ DOMAIN swarm = {"drone_count", "relay_count", "standby_count", "drones"}
    BY DEF MigratedSwarm
  <2>2. DOMAIN base.swarm = {"drone_count", "relay_count", "standby_count", "drones"}
    BY DEF DefaultExperiment
  <2>3. IsObject(base.swarm) /\ "assignments" \notin DOMAIN base.swarm
    BY DefaultSections DEF Objects
  <2>. HIDE DEF swarm, base
  <2>. QED
    BY <2>1, <2>2, <2>3, CompleteSectionKept
<1>3. MergedSection(base.topology, topology) = topology
  <2>1. /\ topology = [k \in DOMAIN topology |-> topology[k]]
        /\ DOMAIN base.topology \subseteq DOMAIN topology
    <3>. HIDE DEF base, swarm
    <3>. QED
      BY DEF Overlaid
  <2>2. IsObject(base.topology) /\ "assignments" \notin DOMAIN base.topology
    BY DefaultSections DEF Objects
  <2>. HIDE DEF topology, base
  <2>. QED
    BY <2>1, <2>2, CompleteSectionKept
<1>4. MergedSection(base.communication, communication) = communication
  <2>1. IsObject(base.communication) /\ "assignments" \notin DOMAIN base.communication
    BY DefaultSections DEF Objects
  <2>2. DOMAIN communication = DOMAIN base.communication
    <3>. HIDE DEF base
    <3>. QED
      OBVIOUS
  <2>3. communication = [k \in DOMAIN communication |-> communication[k]]
    <3>. HIDE DEF base
    <3>. QED
      OBVIOUS
  <2>. HIDE DEF communication, base
  <2>. QED
    BY <2>1, <2>2, <2>3, CompleteSectionKept
<1>5. MergedSection(base.antennas, base.antennas) = base.antennas
  <2>1. IsObject(base.antennas)
    BY DefaultSections DEF Objects
  <2>2. base.antennas = [k \in DOMAIN base.antennas |-> base.antennas[k]]
    BY <2>1 DEF IsObject
  <2>. HIDE DEF base
  <2>. QED
    BY <2>1, <2>2, CompleteSectionKept
<1>6. MergedSection(base.traffic, base.traffic) = base.traffic
  <2>1. IsObject(base.traffic)
    BY DefaultSections DEF Objects
  <2>2. base.traffic = [k \in DOMAIN base.traffic |-> base.traffic[k]]
    BY <2>1 DEF IsObject
  <2>. HIDE DEF base
  <2>. QED
    BY <2>1, <2>2, CompleteSectionKept
<1>. HIDE DEF swarm, topology, communication
<1>7. /\ DOMAIN document = Objects
      /\ document = [k \in DOMAIN document |-> document[k]]
  <2>. HIDE DEF document, base
  <2>. QED
    BY <1>1 DEF Objects
<1>8. ASSUME NEW k \in Objects
      PROVE  MergedSection(base[k], document[k]) = document[k]
  <2>. HIDE DEF document, base
  <2>1. /\ document.swarm = swarm /\ document.topology = topology
        /\ document.communication = communication
        /\ document.antennas = base.antennas /\ document.traffic = base.traffic
    BY <1>1
  <2>2. k \in {"swarm", "topology", "communication", "antennas", "traffic"}
    BY DEF Objects
  <2>. QED
    BY <1>2, <1>3, <1>4, <1>5, <1>6, <2>1, <2>2
<1>9. DeepMerge(base, document) = document
  <2>1. DOMAIN base = Objects
    BY DefaultSections
  <2>. HIDE DEF document, base
  <2>. QED
    BY <1>7, <1>8, <2>1, CompleteDocumentKept
<1>. QED
  BY <1>9

\* The migrated document of any release but a flat one with antennas.
LEMMA MigratedIsKept ==
  ASSUME NEW document, document.kind \in {"versioned", "envelope", "flat"},
         ~(document.kind = "flat" /\ "antennas" \in DOMAIN document.body)
  PROVE  DeepMerge(DefaultExperiment, Migrated(document)) = Migrated(document)
<1>1. \A k \in Objects \intersect DOMAIN DefaultExperiment : IsObject(DefaultExperiment[k])
  BY DefaultSections
<1>2. CASE document.kind = "versioned"
  <2>1. Migrated(document) = DeepMerge(DefaultExperiment, document.body)
    BY <1>2 DEF Migrated
  <2>. QED
    BY <1>1, <2>1, MergedTwice
<1>3. CASE document.kind = "envelope"
  <2>1. Migrated(document) = DeepMerge(DefaultExperiment, document.v6)
    BY <1>3 DEF Migrated
  <2>. QED
    BY <1>1, <2>1, MergedTwice
<1>4. CASE document.kind = "flat"
  <2>1. Migrated(document) = MigratedFlat(document.body)
    BY <1>4 DEF Migrated
  <2>. QED
    BY <1>4, <2>1, FlatIsComplete
<1>. QED
  BY <1>2, <1>3, <1>4

\* Saving a valid document of any release, whatever fields it leaves out, and loading
\* it again gives the migrated document, still valid: the migrations of load_experiment,
\* validate_experiment and emit_legacy_config (config.py) undo nothing of each other.
THEOREM UpgradesKeepDocuments == MissionSpec => []UpgradeKeepsDocument
<1>1. Answered => UpgradeKeepsDocument
  <2>. SUFFICES ASSUME Answered, request.type = "document", answer.valid,
                       ~(request.document.kind = "flat" /\
                         "antennas" \in DOMAIN request.document.body)
                PROVE  answer.again = Migrated(request.document) /\ Errors(answer.again) = {}
    BY DEF UpgradeKeepsDocument
  <2>. DEFINE document == request.document
              config == Migrated(document)
              envelope == EmitLegacyConfig(config)
  <2>1. /\ document \in Documents
        /\ answer.valid = Valid(document)
        /\ answer.again = LoadExperiment(SaveExperiment(document))
    <3>1. /\ request.document \in Documents
          /\ answer = [valid |-> Valid(request.document),
                       again |-> LoadExperiment(SaveExperiment(request.document))]
      BY HandlerOf
    <3>. QED
      BY <3>1
  <2>2. DeepMerge(DefaultExperiment, config) = config
    BY <2>1, DocumentsAssumption, MigratedIsKept
  <2>3. envelope.kind = "envelope" /\ envelope.v6 = DeepMerge(DefaultExperiment, config)
    BY DEF EmitLegacyConfig, Migrated
  <2>4. Migrated(envelope) = DeepMerge(DefaultExperiment, envelope.v6)
    <3>. HIDE DEF envelope
    <3>. QED
      BY <2>3 DEF Migrated
  <2>5. answer.again = config
    BY <2>1, <2>2, <2>3, <2>4 DEF LoadExperiment, SaveExperiment
  <2>. QED
    BY <2>1, <2>5 DEF Valid
<1>. QED
  BY <1>1, AnswersAnswer, PTL

-----------------------------------------------------------------------------
(* Loops.                                                                    *)

\* A loop runs: its states are those its body gives one after the other.
IsRun(run, S, body, start, n) ==
  /\ run \in [0..n -> S]
  /\ run[0] = start
  /\ \A i \in 1..n : run[i] = body[run[i - 1]]
  /\ Loop(body, start, n) = run[n]

\* Every loop does, for any number of rounds.
LEMMA LoopRuns ==
  ASSUME NEW S, NEW body \in [S -> S], NEW start \in S, NEW n \in Nat
  PROVE  \E run : IsRun(run, S, body, start, n)
<1>. DEFINE Runs(f, m) == f = [i \in 0..m |-> IF i = 0 THEN start ELSE body[f[i - 1]]]
            bad == {m \in Nat : ~\E f : Runs(f, m) /\ f \in [0..m -> S]}
<1>1. bad = {}
  <2>. SUFFICES ASSUME bad # {} PROVE FALSE
    OBVIOUS
  <2>1. PICK m \in bad : \A k \in bad : m <= k
    <3>1. bad \in SUBSET Nat
      OBVIOUS
    <3>. QED
      BY <3>1, LeastIndexExists
  <2>2. CASE m = 0
    <3>. DEFINE f == [i \in 0..m |-> start]
    <3>1. Runs(f, m) /\ f \in [0..m -> S]
      BY <2>2
    <3>. QED
      BY <3>1
  <2>3. CASE m # 0
    <3>1. m \in Nat /\ m - 1 \in Nat /\ m - 1 \notin bad
      <4>1. m \in Nat
        OBVIOUS
      <4>. HIDE DEF bad
      <4>. QED
        BY <2>1, <2>3, <4>1
    <3>2. PICK g : Runs(g, m - 1) /\ g \in [0..(m - 1) -> S]
      BY <3>1
    <3>. DEFINE f == [i \in 0..m |-> IF i < m THEN g[i] ELSE body[g[m - 1]]]
    <3>3. g[m - 1] \in S /\ body[g[m - 1]] \in S
      <4>1. g \in [0..(m - 1) -> S] /\ m - 1 \in 0..(m - 1)
        BY <3>1, <3>2
      <4>. HIDE DEF bad, Runs
      <4>. QED
        BY <4>1
    <3>4. f \in [0..m -> S]
      BY <3>1, <3>2, <3>3
    <3>5. ASSUME NEW i \in 0..m
          PROVE  f[i] = IF i = 0 THEN start ELSE body[f[i - 1]]
      <4>1. CASE i = m
        <5>1. f[i] = body[g[m - 1]] /\ f[m - 1] = g[m - 1]
          BY <3>1, <4>1
        <5>. QED
          BY <2>3, <4>1, <5>1
      <4>2. CASE i # m /\ i = 0
        <5>1. f[i] = g[0] /\ g[0] = start
          BY <3>1, <3>2, <4>2
        <5>. QED
          BY <4>2, <5>1
      <4>3. CASE i # m /\ i # 0
        <5>1. i \in 0..(m - 1) /\ i < m /\ i - 1 \in 0..m /\ i - 1 < m
          BY <3>1, <4>3
        <5>2. f[i] = g[i] /\ f[i - 1] = g[i - 1]
          BY <5>1
        <5>3. g[i] = body[g[i - 1]]
          <6>. HIDE DEF f
          <6>. QED
            BY <3>2, <4>3, <5>1
        <5>. QED
          BY <4>3, <5>2, <5>3
      <4>. QED
        BY <4>1, <4>2, <4>3
    <3>6. Runs(f, m)
      <4>. DEFINE h == [i \in 0..m |-> IF i = 0 THEN start ELSE body[f[i - 1]]]
      <4>1. DOMAIN f = 0..m /\ f = [i \in 0..m |-> f[i]]
        OBVIOUS
      <4>2. \A i \in 0..m : f[i] = h[i]
        BY <3>5
      <4>3. f = h
        <5>1. h = [i \in 0..m |-> h[i]]
          OBVIOUS
        <5>. HIDE DEF f, h
        <5>. QED
          BY <4>1, <4>2, <5>1
      <4>. QED
        BY <4>3
    <3>. QED
      <4>. HIDE DEF f, Runs
      <4>. QED
        BY <3>4, <3>6 DEF Runs
  <2>. QED
    BY <2>2, <2>3
<1>2. PICK f : Runs(f, n) /\ f \in [0..n -> S]
  BY <1>1
<1>. DEFINE run == CHOOSE g : Runs(g, n)
<1>3. Runs(run, n)
  <2>. HIDE DEF Runs
  <2>. QED
    BY <1>2
<1>4. \A g : Runs(g, n) => g = f
  <2>. SUFFICES ASSUME NEW g, Runs(g, n), g # f PROVE FALSE
    OBVIOUS
  <2>. DEFINE differ == {i \in 0..n : g[i] # f[i]}
  <2>0. g = [i \in 0..n |-> g[i]] /\ f = [i \in 0..n |-> f[i]]
    BY <1>2
  <2>1. differ # {}
    <3>. HIDE DEF Runs
    <3>. QED
      BY <2>0
  <2>2. PICK i \in differ : \A j \in differ : i <= j
    <3>1. differ \in SUBSET Nat
      OBVIOUS
    <3>. QED
      BY <2>1, <3>1, LeastIndexExists
  <2>3. g[i] = f[i]
    <3>1. CASE i = 0
      BY <1>2, <3>1
    <3>2. CASE i # 0
      <4>1. i - 1 \in 0..n /\ i - 1 \notin differ
        BY <2>2, <3>2
      <4>2. g[i - 1] = f[i - 1]
        BY <4>1
      <4>3. g[i] = body[g[i - 1]] /\ f[i] = body[f[i - 1]]
        BY <1>2, <2>2, <3>2
      <4>. QED
        BY <4>2, <4>3
    <3>. QED
      BY <3>1, <3>2
  <2>. QED
    BY <2>2, <2>3
<1>5. run = f
  <2>. HIDE DEF Runs, run
  <2>. QED
    BY <1>3, <1>4
<1>6. Loop(body, start, n) = run[n]
  BY DEF Loop
<1>7. f[0] = start /\ \A i \in 1..n : f[i] = body[f[i - 1]]
  <2>1. f = [i \in 0..n |-> IF i = 0 THEN start ELSE body[f[i - 1]]]
    BY <1>2
  <2>2. \A i \in 0..n : f[i] = IF i = 0 THEN start ELSE body[f[i - 1]]
    BY <2>1
  <2>. QED
    BY <2>2
<1>. QED
  <2>. HIDE DEF Runs, run
  <2>. QED
    BY <1>2, <1>5, <1>6, <1>7 DEF IsRun

\* What the body of a loop preserves holds at its end.
LEMMA LoopPreserves ==
  ASSUME NEW S, NEW body \in [S -> S], NEW start, NEW n \in Nat, NEW Inv \in SUBSET S,
         start \in Inv, \A s \in Inv : body[s] \in Inv
  PROVE  Loop(body, start, n) \in Inv
<1>1. PICK run \in [0..n -> S] :
           /\ run[0] = start
           /\ \A i \in 1..n : run[i] = body[run[i - 1]]
           /\ Loop(body, start, n) = run[n]
  <2>1. start \in S
    OBVIOUS
  <2>2. PICK run : IsRun(run, S, body, start, n)
    BY <2>1, LoopRuns
  <2>. QED
    BY <2>2 DEF IsRun
<1>. DEFINE bad == {i \in 0..n : run[i] \notin Inv}
<1>2. bad = {}
  <2>. SUFFICES ASSUME bad # {} PROVE FALSE
    OBVIOUS
  <2>1. PICK i \in bad : \A j \in bad : i <= j
    <3>1. bad \in SUBSET Nat
      OBVIOUS
    <3>. QED
      BY <3>1, LeastIndexExists
  <2>2. i # 0
    BY <1>1, <2>1
  <2>3. i \in 1..n /\ i - 1 \in 0..n /\ i - 1 \notin bad
    BY <2>1, <2>2
  <2>4. run[i - 1] \in Inv
    BY <2>3
  <2>. QED
    BY <1>1, <2>1, <2>3, <2>4
<1>. QED
  BY <1>1, <1>2

\* A loop whose body counts down from at most n until it is done is done after n rounds.
LEMMA LoopEnds ==
  ASSUME NEW S, NEW body \in [S -> S], NEW start, NEW n \in Nat, NEW Inv \in SUBSET S,
         start \in Inv, \A s \in Inv : body[s] \in Inv,
         NEW Done \in SUBSET Inv, \A s \in Done : body[s] = s,
         NEW left \in [Inv -> Nat], left[start] <= n,
         \A s \in Inv \ Done : left[body[s]] < left[s]
  PROVE  Loop(body, start, n) \in Done
<1>1. PICK run \in [0..n -> S] :
           /\ run[0] = start
           /\ \A i \in 1..n : run[i] = body[run[i - 1]]
           /\ Loop(body, start, n) = run[n]
  <2>1. start \in S
    OBVIOUS
  <2>2. PICK run : IsRun(run, S, body, start, n)
    BY <2>1, LoopRuns
  <2>. QED
    BY <2>2 DEF IsRun
<1>. DEFINE Fine(i) == run[i] \in Inv /\ (run[i] \in Done \/ left[run[i]] + i <= left[start])
            bad == {i \in 0..n : ~Fine(i)}
<1>2. bad = {}
  <2>. SUFFICES ASSUME bad # {} PROVE FALSE
    OBVIOUS
  <2>1. PICK i \in bad : \A j \in bad : i <= j
    <3>1. bad \in SUBSET Nat
      OBVIOUS
    <3>. QED
      BY <3>1, LeastIndexExists
  <2>2. i # 0
    <3>1. left[start] \in Nat
      OBVIOUS
    <3>2. Fine(0)
      BY <1>1, <3>1
    <3>. QED
      BY <2>1, <3>2
  <2>3. i \in 1..n /\ i - 1 \in 0..n /\ i - 1 \notin bad
    BY <2>1, <2>2
  <2>4. /\ run[i - 1] \in Inv
        /\ run[i - 1] \in Done \/ left[run[i - 1]] + (i - 1) <= left[start]
    BY <2>3
  <2>5. run[i] = body[run[i - 1]] /\ run[i] \in Inv
    BY <1>1, <2>3, <2>4
  <2>6. Fine(i)
    <3>1. CASE run[i - 1] \in Done
      BY <2>5, <3>1
    <3>2. CASE run[i - 1] \notin Done
      <4>1. left[run[i]] < left[run[i - 1]]
        BY <2>4, <2>5, <3>2
      <4>2. left[run[i]] \in Nat /\ left[run[i - 1]] \in Nat /\ left[start] \in Nat
        BY <2>4, <2>5
      <4>. QED
        BY <2>3, <2>4, <2>5, <3>2, <4>1, <4>2
    <3>. QED
      BY <3>1, <3>2
  <2>. QED
    BY <2>1, <2>6
<1>3. Fine(n)
  <2>. HIDE DEF Fine
  <2>1. n \in 0..n /\ \A i \in 0..n : i \notin bad
    BY <1>2
  <2>. QED
    BY <2>1
<1>4. ASSUME run[n] \notin Done
      PROVE  FALSE
  <2>1. left[body[run[n]]] < left[run[n]] /\ body[run[n]] \in Inv
    BY <1>3, <1>4
  <2>2. left[body[run[n]]] \in Nat /\ left[run[n]] \in Nat /\ left[start] \in Nat
    BY <1>3, <2>1
  <2>3. left[run[n]] + n <= left[start]
    BY <1>3, <1>4
  <2>. QED
    BY <2>1, <2>2, <2>3
<1>. QED
  BY <1>1, <1>4

-----------------------------------------------------------------------------
(* Reachability.                                                             *)

\* An order in which all nodes come.
Enumerates(order, N) == order \in Seq(Nat) /\ N \subseteq Range(order)

\* What an iteration over a set meets first is in the set.
LEMMA FirstIsIn ==
  ASSUME NEW N, NEW order, Enumerates(order, N), NEW S \in SUBSET N, S # {}
  PROVE  First(S, order) \in S
<1>. DEFINE at == {i \in DOMAIN order : order[i] \in S}
<1>1. DOMAIN order = 1..Len(order) /\ Len(order) \in Nat
  BY DEF Enumerates
<1>2. at # {} /\ at \in SUBSET Nat
  <2>1. PICK n : n \in S
    OBVIOUS
  <2>2. \E i \in DOMAIN order : order[i] = n
    BY <2>1 DEF Enumerates, Range
  <2>. QED
    BY <1>1, <2>1, <2>2
<1>3. PICK i \in at : \A j \in at : i <= j
  BY <1>2, LeastIndexExists
<1>4. \E k \in DOMAIN order :
         order[k] \in S /\ \A j \in DOMAIN order : order[j] \in S => k <= j
  BY <1>3
<1>. QED
  BY <1>4 DEF First

\* A graph with its set of nodes, and a set of nodes no edge leaves.
IsGraph(graph, N) == graph \in [N -> SUBSET N] /\ IsFiniteSet(N)

Closed(graph, C) == \A n \in C : graph[n] \subseteq C

\* The states of the search.
Searches(N) == [queue : SUBSET N, seen : SUBSET N]

\* What a round of reachable does: it takes a node from the queue.
LEMMA VisitFacts ==
  ASSUME NEW N, NEW graph, NEW order, IsGraph(graph, N), Enumerates(order, N),
         NEW s \in Searches(N), s.queue # {}
  PROVE  \E met \in s.queue :
           Visit(graph, order, s) =
             [queue |-> (s.queue \union graph[met]) \ (s.seen \union {met}),
              seen |-> s.seen \union {met}]
<1>1. s.queue \in SUBSET N
  BY DEF Searches
<1>2. First(s.queue, order) \in s.queue
  BY <1>1, FirstIsIn
<1>. QED
  BY <1>2 DEF Visit

\* A round leads from a state of the search to a state of the search.
LEMMA SearchBody ==
  ASSUME NEW N, NEW graph, NEW order, IsGraph(graph, N), Enumerates(order, N)
  PROVE  [s \in Searches(N) |-> Visit(graph, order, s)] \in [Searches(N) -> Searches(N)]
<1>. SUFFICES ASSUME NEW s \in Searches(N) PROVE Visit(graph, order, s) \in Searches(N)
  OBVIOUS
<1>1. CASE s.queue = {}
  BY <1>1 DEF Visit
<1>2. CASE s.queue # {}
  <2>1. PICK met \in s.queue :
           Visit(graph, order, s) =
             [queue |-> (s.queue \union graph[met]) \ (s.seen \union {met}),
              seen |-> s.seen \union {met}]
    BY <1>2, VisitFacts
  <2>2. s.queue \subseteq N /\ s.seen \subseteq N /\ graph[met] \subseteq N
    BY <2>1 DEF Searches, IsGraph
  <2>. QED
    BY <2>1, <2>2 DEF Searches
<1>. QED
  BY <1>1, <1>2

\* reachable returns only nodes that are in every closed set with the source.
LEMMA ReachedIsReachable ==
  ASSUME NEW N, NEW graph, NEW order, IsGraph(graph, N), Enumerates(order, N),
         NEW source \in N, NEW C \in SUBSET N, source \in C, Closed(graph, C)
  PROVE  Reached(graph, order, source) \subseteq C
<1>. DEFINE S == Searches(N)
            body == [s \in S |-> Visit(graph, order, s)]
            start == [queue |-> {source}, seen |-> {}]
            Inv == {s \in S : s.queue \subseteq C /\ s.seen \subseteq C}
<1>1. DOMAIN graph = N /\ Cardinality(N) \in Nat
  BY FS_CardinalityType DEF IsGraph
<1>2. Reached(graph, order, source) = Loop(body, start, Cardinality(N)).seen
  BY <1>1 DEF Reached, Searches
<1>3. body \in [S -> S]
  BY SearchBody
<1>4. start \in Inv
  BY DEF Searches
<1>5. ASSUME NEW s \in Inv
      PROVE  body[s] \in Inv
  <2>1. CASE s.queue = {}
    BY <2>1 DEF Visit
  <2>2. CASE s.queue # {}
    <3>1. PICK met \in s.queue :
             Visit(graph, order, s) =
               [queue |-> (s.queue \union graph[met]) \ (s.seen \union {met}),
                seen |-> s.seen \union {met}]
      BY <2>2, VisitFacts
    <3>2. met \in C /\ graph[met] \subseteq C
      BY <3>1 DEF Closed
    <3>3. body[s] = Visit(graph, order, s) /\ body[s] \in S
      BY <1>3
    <3>. HIDE DEF body, S
    <3>. QED
      BY <3>1, <3>2, <3>3
  <2>. QED
    BY <2>1, <2>2
<1>6. Loop(body, start, Cardinality(N)) \in Inv
  <2>1. Inv \in SUBSET S
    OBVIOUS
  <2>. HIDE DEF body, start, Inv, S
  <2>. QED
    BY <1>1, <1>3, <1>4, <1>5, <2>1, LoopPreserves
<1>. QED
  <2>. HIDE DEF body, start
  <2>. QED
    BY <1>2, <1>6

\* And it returns them all: its result holds the source, and no edge leaves it.
LEMMA ReachedIsClosed ==
  ASSUME NEW N, NEW graph, NEW order, IsGraph(graph, N), Enumerates(order, N),
         NEW source \in N
  PROVE  /\ source \in Reached(graph, order, source)
         /\ Closed(graph, Reached(graph, order, source))
<1>. DEFINE S == Searches(N)
            body == [s \in S |-> Visit(graph, order, s)]
            start == [queue |-> {source}, seen |-> {}]
            Inv == {s \in S : /\ s.queue \intersect s.seen = {}
                              /\ source \in s.queue \union s.seen
                              /\ \A n \in s.seen : graph[n] \subseteq s.seen \union s.queue}
            Done == {s \in Inv : s.queue = {}}
            left == [s \in Inv |-> Cardinality(N \ s.seen)]
<1>1. DOMAIN graph = N /\ IsFiniteSet(N) /\ Cardinality(N) \in Nat
  BY FS_CardinalityType DEF IsGraph
<1>2. Reached(graph, order, source) = Loop(body, start, Cardinality(N)).seen
  BY <1>1 DEF Reached, Searches
<1>3. body \in [S -> S]
  BY SearchBody
<1>4. start \in Inv
  BY DEF Searches
<1>5. ASSUME NEW s \in Inv, s.queue # {}
      PROVE  /\ body[s] \in Inv
             /\ left[body[s]] < left[s]
  <2>1. PICK met \in s.queue :
             Visit(graph, order, s) =
               [queue |-> (s.queue \union graph[met]) \ (s.seen \union {met}),
                seen |-> s.seen \union {met}]
    BY <1>5, VisitFacts
  <2>2. body[s] = Visit(graph, order, s) /\ body[s] \in S
    BY <1>3
  <2>3. met \in N /\ met \notin s.seen
    BY <2>1 DEF Searches
  <2>4. body[s].queue = (s.queue \union graph[met]) \ (s.seen \union {met})
        /\ body[s].seen = s.seen \union {met}
    BY <2>1, <2>2
  <2>5. body[s] \in Inv
    <3>. HIDE DEF body, S
    <3>. QED
      BY <2>2, <2>4
  <2>6. /\ N \ body[s].seen \subseteq N \ s.seen
        /\ N \ body[s].seen # N \ s.seen
        /\ IsFiniteSet(N \ s.seen)
    BY <1>1, <2>3, <2>4, FS_Difference
  <2>7. Cardinality(N \ body[s].seen) < Cardinality(N \ s.seen)
    <3>. DEFINE before == N \ s.seen
                after == N \ body[s].seen
    <3>1. after \in SUBSET before /\ after # before /\ IsFiniteSet(before)
      BY <2>6
    <3>. HIDE DEF before, after
    <3>2. Cardinality(after) < Cardinality(before)
      BY <3>1, FS_Subset, FS_CardinalityType
    <3>. QED
      BY <3>2 DEF before, after
  <2>. QED
    <3>. HIDE DEF body
    <3>. QED
      BY <2>5, <2>7
<1>6. ASSUME NEW s \in Inv, s.queue = {}
      PROVE  body[s] = s
  BY <1>6 DEF Visit
<1>7. left \in [Inv -> Nat] /\ left[start] <= Cardinality(N)
  <2>1. \A s \in Inv : Cardinality(N \ s.seen) \in Nat
    BY <1>1, FS_Difference, FS_CardinalityType
  <2>2. left[start] = Cardinality(N)
    <3>1. N \ {} = N
      OBVIOUS
    <3>2. left[start] = Cardinality(N \ start.seen)
      BY <1>4
    <3>. QED
      BY <3>1, <3>2
  <2>. QED
    BY <1>1, <2>1, <2>2
<1>8. Loop(body, start, Cardinality(N)) \in Done
  <2>1. Inv \in SUBSET S /\ Done \in SUBSET Inv
    OBVIOUS
  <2>2. \A s \in Inv : body[s] \in Inv
    <3>. HIDE DEF body, left
    <3>. QED
      BY <1>5, <1>6
  <2>3. (\A s \in Done : body[s] = s) /\ \A s \in Inv \ Done : left[body[s]] < left[s]
    <3>. HIDE DEF body, left
    <3>. QED
      BY <1>5, <1>6
  <2>. HIDE DEF body, start, Inv, S, Done, left
  <2>. QED
    BY <1>1, <1>3, <1>4, <1>7, <2>1, <2>2, <2>3, LoopEnds
<1>. QED
  <2>. HIDE DEF body, start
  <2>. QED
    BY <1>2, <1>8 DEF Closed

-----------------------------------------------------------------------------
(* The validation of a topology.                                             *)

\* The conditions of validate_topology, one by one.
LEMMA StructuralMeaning ==
  ASSUME NEW config, NEW order
  PROVE  /\ StructuralErrors(config, order) \subseteq
              {"INVALID_MODE", "NO_BRANCHES", "DUPLICATE_EDGES", "MISSING_ENDPOINT", "SELF_LOOP",
               "CYCLE_NOT_ALLOWED", "UNREACHABLE_SINK", "FAILED_NODE_IN_ACTIVE_ROUTE"}
         /\ "INVALID_MODE" \in StructuralErrors(config, order) <=>
              config.topology.mode \notin Modes
         /\ "NO_BRANCHES" \in StructuralErrors(config, order) <=>
              BranchesOf(config) = <<>> /\ ModeOf(config) # "manual"
         /\ "DUPLICATE_EDGES" \in StructuralErrors(config, order) <=>
              ~IsInjective(EdgesOf(config))
         /\ "SELF_LOOP" \in StructuralErrors(config, order) <=>
              \E i \in DOMAIN EdgesOf(config) : EdgesOf(config)[i][1] = EdgesOf(config)[i][2]
         /\ "MISSING_ENDPOINT" \in StructuralErrors(config, order) <=>
              ~(Ends(EdgesOf(config)) \subseteq NodesOf(config))
         /\ "CYCLE_NOT_ALLOWED" \in StructuralErrors(config, order) <=>
              /\ ModeOf(config) # "manual"
              /\ HasCycle(Adjacency(NodesOf(config), EdgesOf(config), TRUE), order)
         /\ "UNREACHABLE_SINK" \in StructuralErrors(config, order) <=>
              ~(SinksOf(config) \subseteq
                  Reached(Adjacency(NodesOf(config), EdgesOf(config), TRUE), order, Source))
         /\ "FAILED_NODE_IN_ACTIVE_ROUTE" \in StructuralErrors(config, order) <=>
              Ends(EdgesOf(config)) \intersect FailedOf(config) # {}
  BY DEF StructuralErrors

\* Nodes that come in an order are finitely many.
LEMMA OrdersAreFinite ==
  ASSUME NEW order, NEW N, Enumerates(order, N)
  PROVE  IsFiniteSet(N)
<1>1. Len(order) \in Nat /\ DOMAIN order = 1..Len(order) /\ order \in [1..Len(order) -> Nat]
  BY DEF Enumerates
<1>2. IsFiniteSet(1..Len(order))
  BY <1>1, FS_Interval
<1>3. order \in Surjection(1..Len(order), Range(order))
  BY <1>1 DEF Surjection, Range
<1>4. IsFiniteSet(Range(order))
  BY <1>2, <1>3, FS_Surjection
<1>5. N \in SUBSET Range(order)
  BY DEF Enumerates
<1>. QED
  BY <1>4, <1>5, FS_Subset

\* The graph of a proposal, over its nodes and the ends of its edges.
LEMMA ProposalGraph ==
  ASSUME NEW config \in Proposals, NEW order \in Orders
  PROVE  LET N == NodesOf(config) \union Ends(EdgesOf(config))
             graph == Adjacency(NodesOf(config), EdgesOf(config), TRUE)
         IN /\ IsGraph(graph, N)
            /\ Enumerates(order, N)
            /\ \A n, m \in N : m \in graph[n] <=> <<n, m>> \in Range(EdgesOf(config))
<1>. DEFINE N == NodesOf(config) \union Ends(EdgesOf(config))
            graph == Adjacency(NodesOf(config), EdgesOf(config), TRUE)
<1>1. Enumerates(order, N)
  BY ProposalsAssumption DEF Enumerates
<1>2. IsFiniteSet(N)
  BY <1>1, OrdersAreFinite
<1>3. graph = [n \in N |-> {m \in N : \E i \in DOMAIN EdgesOf(config) :
                                         EdgesOf(config)[i] = <<n, m>>}]
  BY DEF Adjacency
<1>. HIDE DEF N, graph
<1>4. IsGraph(graph, N)
  BY <1>2, <1>3 DEF IsGraph
<1>5. \A n, m \in N : m \in graph[n] <=> <<n, m>> \in Range(EdgesOf(config))
  BY <1>3 DEF Range
<1>. QED
  BY <1>1, <1>4, <1>5 DEF N, graph

\* An edge whose preview is FEASIBLE.
LEMMA FeasibleEdge ==
  ASSUME NEW config, NEW e, EdgePreview(config, e) = "FEASIBLE"
  PROVE  LET gap == Gap(PositionOf(config, e[1]), PositionOf(config, e[2]))
         IN gap <= config.communication.range /\ RxPower[gap] - ThermalNoise >= Limits.snr
<1>. DEFINE gap == Gap(PositionOf(config, e[1]), PositionOf(config, e[2]))
            metrics == AnalyticalLink(gap, 0)
            limits == [Limits EXCEPT !.range = config.communication.range,
                                     !.hardOutage = config.communication.outage]
<1>1. EvaluateFeasibility(metrics, TRUE, HopEnds(config, e), limits) = "FEASIBLE"
  BY DEF EdgePreview
<1>2. metrics.distance <= limits.range /\ metrics.snr >= limits.snr
  <2>. HIDE DEF metrics, limits
  <2>. QED
    BY <1>1, FeasibilityMeaning
<1>3. limits.range = config.communication.range /\ limits.snr = Limits.snr
  BY LimitsAssumption
<1>4. metrics.distance = gap /\ metrics.snr = RxPower[gap] - ThermalNoise
  BY DEF AnalyticalLink
<1>. QED
  <2>. HIDE DEF metrics, limits, gap
  <2>. QED
    BY <1>2, <1>3, <1>4 DEF gap

\* What makes validate_config_topology call a previewed topology operational.
LEMMA OperationalMeaning ==
  ASSUME NEW config, NEW order,
         ValidateConfigTopology(config, order).operational,
         ValidateConfigTopology(config, order).feasible # "unknown"
  PROVE  /\ StructuralErrors(config, order) = {}
         /\ \A e \in Range(EdgesOf(config)) :
              {e[1], e[2]} \subseteq Positioned(config) => EdgePreview(config, e) = "FEASIBLE"
<1>. DEFINE errors == StructuralErrors(config, order)
            links == Previewed(config)
            feasible == IF links = {} THEN "unknown"
                        ELSE IF \A e \in links : EdgePreview(config, e) = "FEASIBLE"
                        THEN "yes" ELSE "no"
            answered == ValidateConfigTopology(config, order)
<1>1. /\ answered.operational <=> errors = {} /\ PhysicalErrors(config) = {} /\ feasible # "no"
      /\ answered.feasible = feasible
  BY DEF ValidateConfigTopology
<1>2. links # {} /\ \A e \in links : EdgePreview(config, e) = "FEASIBLE"
  <2>. HIDE DEF errors, links
  <2>. QED
    BY <1>1
<1>3. links = {e \in Range(EdgesOf(config)) : {e[1], e[2]} \subseteq Positioned(config)}
  BY <1>2 DEF Previewed
<1>. QED
  BY <1>1, <1>2, <1>3

\* A topology called operational on the strength of its preview reaches every sink over
\* hops that are good: every node reachable (topology.py) meets lies in each set of nodes
\* with the station that no good hop leaves.
THEOREM OperationalTopologiesAreRoutable == MissionSpec => []OperationalIsRoutable
<1>1. Answered => OperationalIsRoutable
  <2>. SUFFICES ASSUME Answered, request.type = "topology", answer.operational,
                       answer.feasible # "unknown"
                PROVE  OperationalIsRoutable
    BY DEF OperationalIsRoutable
  <2>. DEFINE config == request.config
              order == request.order
              N == NodesOf(config) \union Ends(EdgesOf(config))
              edges == Range(EdgesOf(config))
              graph == Adjacency(NodesOf(config), EdgesOf(config), TRUE)
              good(e) ==
                LET gap == Gap(PositionOf(config, e[1]), PositionOf(config, e[2]))
                IN /\ {e[1], e[2]} \intersect FailedOf(config) = {}
                   /\ gap <= config.communication.range
                   /\ RxPower[gap] - ThermalNoise >= Limits.snr
  <2>1. /\ config \in Proposals /\ order \in Orders
        /\ answer = ValidateConfigTopology(config, order)
    BY HandlerOf
  <2>2. /\ StructuralErrors(config, order) = {}
        /\ \A e \in edges :
             {e[1], e[2]} \subseteq Positioned(config) => EdgePreview(config, e) = "FEASIBLE"
    BY <2>1, OperationalMeaning
  <2>3. /\ Ends(EdgesOf(config)) \subseteq NodesOf(config)
        /\ SinksOf(config) \subseteq Reached(graph, order, Source)
        /\ Ends(EdgesOf(config)) \intersect FailedOf(config) = {}
    BY <2>2, StructuralMeaning
  <2>4. /\ IsGraph(graph, N) /\ Enumerates(order, N) /\ N = NodesOf(config) /\ Source \in N
        /\ \A n, m \in N : m \in graph[n] <=> <<n, m>> \in edges
    BY <2>1, <2>3, ProposalGraph DEF NodesOf
  <2>5. ASSUME NEW e \in edges
        PROVE  good(e)
    <3>1. e[1] \in Ends(EdgesOf(config)) /\ e[2] \in Ends(EdgesOf(config))
      BY DEF Ends, Range
    <3>2. {e[1], e[2]} \subseteq Positioned(config)
      BY <2>1, <2>3, <3>1, ProposalsAssumption
    <3>3. EdgePreview(config, e) = "FEASIBLE"
      BY <2>2, <3>2
    <3>4. {e[1], e[2]} \intersect FailedOf(config) = {}
      BY <2>3, <3>1
    <3>. HIDE DEF config
    <3>. QED
      BY <3>3, <3>4, FeasibleEdge
  <2>6. ASSUME NEW sink \in SinksOf(config)
        PROVE  Reaches({e \in edges : good(e)}, NodesOf(config), Source, sink)
    <3>. SUFFICES ASSUME NEW C \in SUBSET NodesOf(config), Source \in C,
                         \A e \in {f \in edges : good(f)} : e[1] \in C => e[2] \in C
                  PROVE  sink \in C
      BY DEF Reaches
    <3>1. \A e \in edges : e[1] \in C => e[2] \in C
      <4>. HIDE DEF good, edges
      <4>. QED
        BY <2>5
    <3>2. ASSUME NEW n \in C, NEW m \in graph[n]
          PROVE  m \in C
      <4>1. n \in N /\ m \in N
        BY <2>4 DEF IsGraph
      <4>2. <<n, m>> \in edges
        BY <2>4, <4>1
      <4>. HIDE DEF edges
      <4>. QED
        BY <3>1, <4>2
    <3>3. Closed(graph, C)
      BY <3>2 DEF Closed
    <3>4. Reached(graph, order, Source) \subseteq C
      <4>1. C \in SUBSET N
        BY <2>4
      <4>. HIDE DEF graph, order, N
      <4>. QED
        BY <2>4, <3>3, <4>1, ReachedIsReachable
    <3>. QED
      BY <2>3, <3>4
  <2>. QED
    BY <2>6 DEF OperationalIsRoutable
<1>. QED
  BY <1>1, AnswersAnswer, PTL

-----------------------------------------------------------------------------
(* Cycles.                                                                   *)

LEMMA FrontAndLast ==
  ASSUME NEW N, NEW stack \in Seq(N), stack # <<>>
  PROVE  /\ Len(stack) \in Nat /\ Len(stack) > 0 /\ Last(stack) = stack[Len(stack)]
         /\ Last(stack) \in N
         /\ Front(stack) \in Seq(N) /\ Len(Front(stack)) = Len(stack) - 1
         /\ \A i \in 1..(Len(stack) - 1) : Front(stack)[i] = stack[i]
<1>1. Len(stack) \in Nat /\ Len(stack) > 0 /\ Last(stack) = stack[Len(stack)]
      /\ Last(stack) \in N
  BY DEF Last
<1>2. SubSeq(stack, 1, Len(stack) - 1) \in Seq(N)
      /\ Len(SubSeq(stack, 1, Len(stack) - 1)) = Len(stack) - 1
      /\ \A i \in 1..(Len(stack) - 1) : SubSeq(stack, 1, Len(stack) - 1)[i] = stack[i]
  <2>. DEFINE k == Len(stack) - 1
  <2>1. k \in Int /\ \A i \in 1..k : stack[i] \in N
    BY <1>1
  <2>. HIDE DEF k
  <2>2. /\ SubSeq(stack, 1, k) \in Seq(N)
        /\ Len(SubSeq(stack, 1, k)) = IF 1 <= k THEN k - 1 + 1 ELSE 0
        /\ \A i \in 1..(k - 1 + 1) : SubSeq(stack, 1, k)[i] = stack[1 + i - 1]
    BY <2>1, SubSeqProperties
  <2>4. (~(1 <= k) => k = 0) /\ k - 1 + 1 = k
    <3>1. Len(stack) \in Nat /\ Len(stack) > 0
      BY <1>1
    <3>2. k \in Nat
      BY <3>1 DEF k
    <3>. QED
      BY <3>2
  <2>3. Len(SubSeq(stack, 1, k)) = k /\ \A i \in 1..k : SubSeq(stack, 1, k)[i] = stack[i]
    BY <2>1, <2>2, <2>4
  <2>. QED
    BY <2>2, <2>3 DEF k
<1>. QED
  BY <1>1, <1>2 DEF Front

\* The edge from n to m closes a cycle: every set of nodes with m that no edge leaves
\* holds n.
ClosesCycle(graph, N, n, m) ==
  /\ m \in graph[n]
  /\ \A C \in SUBSET N : m \in C /\ Closed(graph, C) => n \in C

\* What holds of the colours between two rounds: a node has one, and the gray ones are
\* those on the stack,
Partitioned(N, s) ==
  /\ s.white \union s.gray \union s.black = N
  /\ s.white \intersect (s.gray \union s.black) = {} /\ s.gray \intersect s.black = {}

StackIsGray(s) ==
  /\ s.gray = {s.stack[i] : i \in 1..Len(s.stack)}
  /\ \A i, j \in 1..Len(s.stack) : s.stack[i] = s.stack[j] => i = j

\* which is a path;
StackIsPath(graph, s) ==
  \A i \in 1..(Len(s.stack) - 1) : s.stack[i + 1] \in graph[s.stack[i]]

\* a white node has all its neighbours to look at;
Remaining(graph, N, s) ==
  /\ \A n \in N : s.rest[n] \subseteq graph[n]
  /\ \A n \in s.white : s.rest[n] = graph[n]

\* the neighbours a gray node has looked at are black, but for the one that is visited
\* for it: the next on the stack, or one of pending;
LookedAt(graph, s, pending) ==
  \A i \in 1..Len(s.stack) :
    graph[s.stack[i]] \ s.rest[s.stack[i]] \subseteq
      s.black \union (IF i < Len(s.stack) THEN {s.stack[i + 1]} ELSE pending)

\* and the nodes that were black before a black node are a closed set that holds its
\* neighbours and not the node itself.
BlackIsClosed(graph, s) ==
  /\ Closed(graph, s.black)
  /\ \A n \in s.black : \E C \in SUBSET s.black :
       n \notin C /\ graph[n] \subseteq C /\ Closed(graph, C)

Colouring(graph, N, s, pending) ==
  /\ Partitioned(N, s)
  /\ StackIsGray(s)
  /\ StackIsPath(graph, s)
  /\ Remaining(graph, N, s)
  /\ LookedAt(graph, s, pending)
  /\ BlackIsClosed(graph, s)

\* A neighbour is taken from those to look at; it is pending until it is black.
LEMMA LookingColours ==
  ASSUME NEW N, NEW graph, IsGraph(graph, N), NEW s \in ColourStates(N), s.stack # <<>>,
         Colouring(graph, N, s, {}), NEW next \in s.rest[Last(s.stack)]
  PROVE  LET t == [s EXCEPT !.rest[Last(s.stack)] = @ \ {next}]
         IN /\ t \in ColourStates(N)
            /\ Colouring(graph, N, t, {next})
            /\ next \in s.black => Colouring(graph, N, t, {})
<1>. DEFINE top == Last(s.stack)
            t == [s EXCEPT !.rest[top] = @ \ {next}]
<1>1. /\ s.stack \in Seq(N) /\ s.rest \in [N -> SUBSET N] /\ s.black \subseteq N
  BY DEF ColourStates
<1>2. Len(s.stack) \in Nat /\ Len(s.stack) > 0 /\ top = s.stack[Len(s.stack)] /\ top \in N
  BY <1>1, FrontAndLast
<1>3. /\ t.white = s.white /\ t.gray = s.gray /\ t.black = s.black /\ t.stack = s.stack
      /\ t.rest = [s.rest EXCEPT ![top] = @ \ {next}] /\ t.cycle = s.cycle
  BY DEF ColourStates
<1>4. t \in ColourStates(N)
  BY <1>1, <1>2 DEF ColourStates
<1>. HIDE DEF t, top
<1>5. /\ \A n \in N : t.rest[n] = IF n = top THEN s.rest[n] \ {next} ELSE s.rest[n]
  BY <1>1, <1>3
<1>6. /\ top \notin s.white /\ \A n \in N : s.rest[n] \subseteq graph[n]
      /\ \A n \in s.white : n \in N /\ s.rest[n] = graph[n]
  <2>1. top \in s.gray
    BY <1>2 DEF Colouring, StackIsGray
  <2>. QED
    BY <2>1 DEF Colouring, Partitioned, Remaining
<1>7. ASSUME NEW i \in 1..Len(s.stack)
      PROVE  graph[s.stack[i]] \ t.rest[s.stack[i]] \subseteq
               s.black \union (IF i < Len(s.stack) THEN {s.stack[i + 1]} ELSE {next})
  <2>1. graph[s.stack[i]] \ s.rest[s.stack[i]] \subseteq
          s.black \union (IF i < Len(s.stack) THEN {s.stack[i + 1]} ELSE {})
    BY DEF Colouring, LookedAt
  <2>2. s.stack[i] \in N
    BY <1>1
  <2>3. CASE i < Len(s.stack)
    <3>1. s.stack[i] # top
      BY <1>2, <2>3 DEF Colouring, StackIsGray
    <3>. QED
      BY <1>5, <2>1, <2>2, <2>3, <3>1
  <2>4. CASE ~(i < Len(s.stack))
    <3>1. s.stack[i] = top
      BY <1>2, <2>4
    <3>. QED
      BY <1>5, <2>1, <2>2, <2>4, <3>1
  <2>. QED
    BY <2>3, <2>4
<1>8. /\ \A n \in N : t.rest[n] \subseteq graph[n]
      /\ \A n \in s.white : t.rest[n] = graph[n]
  BY <1>5, <1>6
<1>9. /\ Partitioned(N, t) /\ StackIsGray(t) /\ StackIsPath(graph, t) /\ Remaining(graph, N, t)
      /\ BlackIsClosed(graph, t)
  <2>1. Partitioned(N, t)
    BY <1>3 DEF Colouring, Partitioned
  <2>2. StackIsGray(t)
    BY <1>3 DEF Colouring, StackIsGray
  <2>3. StackIsPath(graph, t)
    BY <1>3 DEF Colouring, StackIsPath
  <2>4. Remaining(graph, N, t)
    BY <1>3, <1>8 DEF Remaining
  <2>5. BlackIsClosed(graph, t)
    BY <1>3 DEF Colouring, BlackIsClosed
  <2>. QED
    BY <2>1, <2>2, <2>3, <2>4, <2>5
<1>10. LookedAt(graph, t, {next})
  BY <1>3, <1>7 DEF LookedAt
<1>11. ASSUME next \in s.black
       PROVE  LookedAt(graph, t, {})
  <2>1. ASSUME NEW i \in 1..Len(s.stack)
        PROVE  graph[s.stack[i]] \ t.rest[s.stack[i]] \subseteq
                 s.black \union (IF i < Len(s.stack) THEN {s.stack[i + 1]} ELSE {})
    BY <1>7, <1>11
  <2>. QED
    BY <1>3, <2>1 DEF LookedAt
<1>. QED
  BY <1>4, <1>9, <1>10, <1>11 DEF t, top, Colouring

\* visit is called for a white node.
LEMMA EnteringColours ==
  ASSUME NEW N, NEW graph, IsGraph(graph, N), NEW s \in ColourStates(N), NEW pending,
         Colouring(graph, N, s, pending), NEW n \in s.white,
         s.stack # <<>> => n \in graph[Last(s.stack)] /\ pending \subseteq {n}
  PROVE  Entered(s, n) \in ColourStates(N) /\ Colouring(graph, N, Entered(s, n), {})
<1>. DEFINE t == Entered(s, n)
            len == Len(s.stack)
<1>1. /\ s.stack \in Seq(N) /\ s.rest \in [N -> SUBSET N] /\ n \in N /\ len \in Nat
      /\ s.white \subseteq N /\ s.gray \subseteq N /\ s.black \subseteq N
  BY DEF ColourStates
<1>2. /\ t.white = s.white \ {n} /\ t.gray = s.gray \union {n} /\ t.black = s.black
      /\ t.stack = Append(s.stack, n) /\ t.rest = s.rest /\ t.cycle = s.cycle
  BY DEF ColourStates, Entered
<1>3. t \in ColourStates(N)
  <2>1. Append(s.stack, n) \in Seq(N)
    BY <1>1
  <2>. QED
    BY <1>1, <2>1 DEF ColourStates, Entered
<1>4. /\ Len(t.stack) = len + 1 /\ t.stack[len + 1] = n
      /\ \A i \in 1..len : t.stack[i] = s.stack[i]
  BY <1>1, <1>2
<1>. HIDE DEF t, len
<1>5. Partitioned(N, t)
  BY <1>2 DEF Colouring, Partitioned
<1>6. t.gray = {t.stack[i] : i \in 1..Len(t.stack)}
  <2>1. s.gray = {s.stack[i] : i \in 1..len}
    BY DEF Colouring, StackIsGray, len
  <2>2. ASSUME NEW x \in t.gray
        PROVE  \E i \in 1..Len(t.stack) : x = t.stack[i]
    <3>1. CASE x = n
      BY <1>1, <1>4, <3>1
    <3>2. CASE x \in s.gray
      <4>1. PICK i \in 1..len : x = s.stack[i]
        BY <2>1, <3>2
      <4>2. i \in 1..Len(t.stack) /\ t.stack[i] = x
        BY <1>1, <1>4, <4>1
      <4>. QED
        BY <4>2
    <3>. QED
      BY <1>2, <3>1, <3>2
  <2>3. ASSUME NEW i \in 1..Len(t.stack)
        PROVE  t.stack[i] \in t.gray
    <3>1. CASE i \in 1..len
      BY <1>2, <1>4, <2>1, <3>1
    <3>2. CASE i = len + 1
      BY <1>2, <1>4, <3>2
    <3>. QED
      BY <1>1, <1>4, <3>1, <3>2
  <2>. QED
    BY <2>2, <2>3
<1>7. \A i, j \in 1..Len(t.stack) : t.stack[i] = t.stack[j] => i = j
  <2>1. /\ \A i \in 1..len : s.stack[i] # n
        /\ \A i, j \in 1..len : s.stack[i] = s.stack[j] => i = j
    BY DEF Colouring, Partitioned, StackIsGray, len
  <2>2. 1..Len(t.stack) = (1..len) \union {len + 1}
    BY <1>1, <1>4
  <2>. QED
    BY <1>4, <2>1, <2>2
<1>8. ASSUME NEW i \in 1..(Len(t.stack) - 1)
      PROVE  t.stack[i + 1] \in graph[t.stack[i]]
  <2>1. i \in 1..len /\ t.stack[i] = s.stack[i]
    BY <1>1, <1>4
  <2>2. CASE i = len
    <3>1. s.stack # <<>>
      BY <1>1, <2>1, <2>2 DEF len
    <3>2. t.stack[i + 1] = n /\ s.stack[i] = Last(s.stack)
      BY <1>4, <2>2 DEF Last, len
    <3>. QED
      BY <2>1, <3>1, <3>2
  <2>3. CASE i # len
    <3>1. i \in 1..(len - 1) /\ i + 1 \in 1..len
      BY <1>1, <2>1, <2>3
    <3>2. s.stack[i + 1] \in graph[s.stack[i]]
      BY <3>1 DEF Colouring, StackIsPath, len
    <3>. QED
      BY <1>4, <2>1, <3>1, <3>2
  <2>. QED
    BY <2>2, <2>3
<1>9. Remaining(graph, N, t)
  BY <1>2 DEF Colouring, Remaining
<1>10. ASSUME NEW i \in 1..Len(t.stack)
       PROVE  graph[t.stack[i]] \ t.rest[t.stack[i]] \subseteq
                t.black \union (IF i < Len(t.stack) THEN {t.stack[i + 1]} ELSE {})
  <2>1. CASE i = len + 1
    <3>1. t.stack[i] = n /\ t.rest[n] = graph[n]
      BY <1>2, <1>4, <2>1 DEF Colouring, Remaining
    <3>. QED
      BY <3>1
  <2>2. CASE i = len /\ i # len + 1
    <3>1. i \in 1..len /\ t.stack[i] = s.stack[i] /\ t.stack[i + 1] = n /\ i < Len(t.stack)
      BY <1>1, <1>4, <2>2
    <3>2. s.stack # <<>>
      BY <1>1, <3>1 DEF len
    <3>3. ~(i < len)
      BY <1>1, <2>2
    <3>4. graph[s.stack[i]] \ s.rest[s.stack[i]] \subseteq s.black \union pending
      BY <3>1, <3>3 DEF Colouring, LookedAt, len
    <3>5. pending \subseteq {n}
      BY <3>2
    <3>. QED
      BY <1>2, <3>1, <3>4, <3>5
  <2>3. CASE i # len /\ i # len + 1
    <3>1. i \in 1..len /\ i < len /\ i + 1 \in 1..len /\ i < Len(t.stack)
      BY <1>1, <1>4, <2>3
    <3>2. graph[s.stack[i]] \ s.rest[s.stack[i]] \subseteq s.black \union {s.stack[i + 1]}
      BY <3>1 DEF Colouring, LookedAt, len
    <3>3. t.stack[i] = s.stack[i] /\ t.stack[i + 1] = s.stack[i + 1]
      BY <1>4, <3>1
    <3>. QED
      BY <1>2, <3>1, <3>2, <3>3
  <2>. QED
    BY <2>1, <2>2, <2>3
<1>11. BlackIsClosed(graph, t)
  BY <1>2 DEF Colouring, BlackIsClosed
<1>12. Colouring(graph, N, t, {})
  BY <1>5, <1>6, <1>7, <1>8, <1>9, <1>10, <1>11 DEF Colouring, StackIsGray, StackIsPath, LookedAt
<1>. QED
  BY <1>3, <1>12 DEF t

\* visit returns when it has looked at all neighbours: they are black.
LEMMA FinishingColours ==
  ASSUME NEW N, NEW graph, IsGraph(graph, N), NEW s \in ColourStates(N), s.stack # <<>>,
         Colouring(graph, N, s, {}), s.rest[Last(s.stack)] = {}
  PROVE  /\ Finished(s, Last(s.stack)) \in ColourStates(N)
         /\ Colouring(graph, N, Finished(s, Last(s.stack)), {})
<1>. DEFINE top == Last(s.stack)
            t == Finished(s, top)
            len == Len(s.stack)
<1>1. /\ s.stack \in Seq(N) /\ s.rest \in [N -> SUBSET N]
      /\ s.white \subseteq N /\ s.gray \subseteq N /\ s.black \subseteq N
  BY DEF ColourStates
<1>2. /\ len \in Nat /\ len > 0 /\ top = s.stack[len] /\ top \in N
      /\ Front(s.stack) \in Seq(N) /\ Len(Front(s.stack)) = len - 1
      /\ \A i \in 1..(len - 1) : Front(s.stack)[i] = s.stack[i]
  BY <1>1, FrontAndLast
<1>3. /\ t.white = s.white /\ t.gray = s.gray \ {top} /\ t.black = s.black \union {top}
      /\ t.stack = Front(s.stack) /\ t.rest = s.rest
  BY DEF ColourStates, Finished
<1>4. t \in ColourStates(N)
  BY <1>1, <1>2 DEF ColourStates, Finished
<1>5. /\ s.gray = {s.stack[i] : i \in 1..len}
      /\ \A i, j \in 1..len : s.stack[i] = s.stack[j] => i = j
      /\ \A i \in 1..(len - 1) : s.stack[i + 1] \in graph[s.stack[i]]
      /\ \A i \in 1..len :
           graph[s.stack[i]] \ s.rest[s.stack[i]] \subseteq
             s.black \union (IF i < len THEN {s.stack[i + 1]} ELSE {})
  BY DEF Colouring, StackIsGray, StackIsPath, LookedAt
<1>6. s.rest[top] = {} /\ len \in 1..len
  BY <1>2
<1>. HIDE DEF t, len, top
<1>7. top \in s.gray
  BY <1>2, <1>5, <1>6
<1>8. Partitioned(N, t)
  BY <1>3, <1>7 DEF Colouring, Partitioned
<1>9. Len(t.stack) = len - 1 /\ \A i \in 1..(len - 1) : t.stack[i] = s.stack[i]
  BY <1>2, <1>3
<1>10. 1..len = (1..(len - 1)) \union {len} /\ len \notin 1..(len - 1)
  BY <1>2
<1>11. StackIsGray(t)
  <2>1. t.gray = {s.stack[i] : i \in 1..(len - 1)}
    <3>1. \A i \in 1..(len - 1) : s.stack[i] # top
      BY <1>2, <1>5, <1>10
    <3>2. ASSUME NEW x \in t.gray
          PROVE  \E i \in 1..(len - 1) : x = s.stack[i]
      BY <1>2, <1>3, <1>5, <1>10
    <3>3. \A i \in 1..(len - 1) : s.stack[i] \in t.gray
      BY <1>3, <1>5, <1>10, <3>1
    <3>. QED
      BY <3>2, <3>3
  <2>2. {s.stack[i] : i \in 1..(len - 1)} = {t.stack[i] : i \in 1..(len - 1)}
    BY <1>9
  <2>3. \A i, j \in 1..(len - 1) : t.stack[i] = t.stack[j] => i = j
    BY <1>5, <1>9, <1>10
  <2>. QED
    BY <1>9, <2>1, <2>2, <2>3 DEF StackIsGray
<1>12. StackIsPath(graph, t)
  <2>1. ASSUME NEW i \in 1..(Len(t.stack) - 1)
        PROVE  t.stack[i + 1] \in graph[t.stack[i]]
    <3>1. i \in 1..(len - 1) /\ i + 1 \in 1..(len - 1)
      BY <1>2, <1>9
    <3>. QED
      BY <1>5, <1>9, <3>1
  <2>. QED
    BY <2>1 DEF StackIsPath
<1>13. Remaining(graph, N, t)
  BY <1>3 DEF Colouring, Remaining
<1>14. LookedAt(graph, t, {})
  <2>1. ASSUME NEW i \in 1..Len(t.stack)
        PROVE  graph[t.stack[i]] \ t.rest[t.stack[i]] \subseteq
                 t.black \union (IF i < Len(t.stack) THEN {t.stack[i + 1]} ELSE {})
    <3>1. i \in 1..(len - 1) /\ i \in 1..len /\ i < len /\ t.stack[i] = s.stack[i]
      BY <1>2, <1>9
    <3>2. graph[s.stack[i]] \ s.rest[s.stack[i]] \subseteq s.black \union {s.stack[i + 1]}
      BY <1>5, <3>1
    <3>3. CASE i = len - 1
      <4>1. s.stack[i + 1] = top
        BY <1>2, <3>3
      <4>. QED
        BY <1>3, <3>1, <3>2, <4>1
    <3>4. CASE i # len - 1
      <4>1. i < Len(t.stack) /\ i + 1 \in 1..(len - 1)
        BY <1>2, <1>9, <3>1, <3>4
      <4>2. t.stack[i + 1] = s.stack[i + 1]
        BY <1>9, <4>1
      <4>. QED
        BY <1>3, <3>1, <3>2, <4>1, <4>2
    <3>. QED
      BY <3>3, <3>4
  <2>. QED
    BY <2>1 DEF LookedAt
<1>15. BlackIsClosed(graph, t)
  <2>1. graph[top] \subseteq s.black
    <3>1. graph[s.stack[len]] \ s.rest[s.stack[len]] \subseteq s.black
      BY <1>2, <1>5, <1>6
    <3>. QED
      BY <1>2, <1>6, <3>1
  <2>2. Closed(graph, s.black) /\ top \notin s.black
    BY <1>7 DEF Colouring, BlackIsClosed, Partitioned
  <2>3. Closed(graph, t.black)
    BY <1>3, <2>1, <2>2 DEF Closed
  <2>4. ASSUME NEW n \in t.black
        PROVE  \E C \in SUBSET t.black : n \notin C /\ graph[n] \subseteq C /\ Closed(graph, C)
    <3>1. CASE n = top
      <4>1. s.black \in SUBSET t.black
        BY <1>3
      <4>. QED
        BY <2>1, <2>2, <3>1, <4>1
    <3>2. CASE n \in s.black
      <4>1. PICK C \in SUBSET s.black : n \notin C /\ graph[n] \subseteq C /\ Closed(graph, C)
        BY <3>2 DEF Colouring, BlackIsClosed
      <4>2. C \in SUBSET t.black
        BY <1>3
      <4>. QED
        BY <4>1, <4>2
    <3>. QED
      BY <1>3, <3>1, <3>2
  <2>. QED
    BY <2>3, <2>4 DEF BlackIsClosed
<1>16. Colouring(graph, N, t, {})
  BY <1>8, <1>11, <1>12, <1>13, <1>14, <1>15 DEF Colouring
<1>. QED
  BY <1>4, <1>16 DEF t, top

\* A gray neighbour of the top of the stack leads back to it along the stack.
LEMMA CycleFound ==
  ASSUME NEW N, NEW graph, IsGraph(graph, N), NEW s \in ColourStates(N), s.stack # <<>>,
         Colouring(graph, N, s, {}), NEW next \in s.gray, next \in graph[Last(s.stack)]
  PROVE  ClosesCycle(graph, N, Last(s.stack), next)
<1>. DEFINE len == Len(s.stack)
<1>. SUFFICES ASSUME NEW C \in SUBSET N, next \in C, Closed(graph, C)
              PROVE  Last(s.stack) \in C
  BY DEF ClosesCycle
<1>1. s.stack \in Seq(N)
  BY DEF ColourStates
<1>2. len \in Nat /\ len > 0 /\ Last(s.stack) = s.stack[len]
  BY <1>1, FrontAndLast
<1>3. /\ s.gray = {s.stack[i] : i \in 1..len}
      /\ \A i \in 1..(len - 1) : s.stack[i + 1] \in graph[s.stack[i]]
  BY DEF Colouring, StackIsGray, StackIsPath
<1>. HIDE DEF len
<1>4. PICK k \in 1..len : next = s.stack[k]
  BY <1>3
<1>. DEFINE out == {i \in k..len : s.stack[i] \notin C}
<1>5. out = {}
  <2>. SUFFICES ASSUME out # {} PROVE FALSE
    OBVIOUS
  <2>1. PICK i \in out : \A j \in out : i <= j
    <3>1. out \in SUBSET Nat
      BY <1>2, <1>4
    <3>. QED
      BY <3>1, LeastIndexExists
  <2>2. i # k /\ i \in k..len
    BY <1>4, <2>1
  <2>3. i - 1 \in k..len /\ i - 1 \notin out /\ i - 1 \in 1..(len - 1)
    BY <1>2, <1>4, <2>1, <2>2
  <2>4. s.stack[i - 1] \in C /\ s.stack[i - 1 + 1] \in graph[s.stack[i - 1]]
    BY <1>3, <2>3
  <2>5. i - 1 + 1 = i
    BY <1>2, <1>4, <2>2
  <2>6. s.stack[i] \in C
    BY <2>4, <2>5 DEF Closed
  <2>. QED
    BY <2>1, <2>6
<1>6. len \in k..len
  BY <1>2, <1>4
<1>. QED
  BY <1>2, <1>5, <1>6

-----------------------------------------------------------------------------
(* The rounds of has_cycle.                                                  *)

\* What a round of a search that goes on is: a call of visit, its return, or a turn of
\* its loop.
LEMMA RoundFacts ==
  ASSUME NEW N, NEW graph, NEW order, IsGraph(graph, N), Enumerates(order, N),
         NEW s \in ColourStates(N), ~s.cycle, s.stack # <<>> \/ s.white # {}
  PROVE  \/ /\ s.stack = <<>>
            /\ \E n \in s.white : VisitForCycle(order, s) = Entered(s, n)
         \/ /\ s.stack # <<>> /\ Last(s.stack) \in N /\ s.rest[Last(s.stack)] = {}
            /\ VisitForCycle(order, s) = Finished(s, Last(s.stack))
         \/ /\ s.stack # <<>> /\ Last(s.stack) \in N
            /\ \E next \in s.rest[Last(s.stack)] :
                 VisitForCycle(order, s) = Looked(s, Last(s.stack), next)
<1>1. /\ s.stack \in Seq(N) /\ s.rest \in [N -> SUBSET N] /\ s.white \in SUBSET N
  BY DEF ColourStates
<1>2. CASE s.stack = <<>>
  <2>1. First(s.white, order) \in s.white
    BY <1>1, <1>2, FirstIsIn
  <2>. QED
    BY <1>2, <2>1 DEF VisitForCycle
<1>3. CASE s.stack # <<>>
  <2>1. Last(s.stack) \in N
    BY <1>1, <1>3, FrontAndLast
  <2>2. CASE s.rest[Last(s.stack)] = {}
    BY <1>3, <2>1, <2>2 DEF VisitForCycle
  <2>3. CASE s.rest[Last(s.stack)] # {}
    <3>1. First(s.rest[Last(s.stack)], order) \in s.rest[Last(s.stack)]
      <4>1. s.rest[Last(s.stack)] \in SUBSET N
        BY <1>1, <2>1
      <4>. QED
        BY <2>3, <4>1, FirstIsIn
    <3>2. VisitForCycle(order, s) =
            Looked(s, Last(s.stack), First(s.rest[Last(s.stack)], order))
      BY <1>3, <2>3 DEF VisitForCycle
    <3>. QED
      BY <1>3, <2>1, <3>1, <3>2
  <2>. QED
    BY <2>2, <2>3
<1>. QED
  BY <1>2, <1>3

\* A call of visit, a turn of its loop and its return lead to states of the search.
LEMMA EnteredType ==
  ASSUME NEW N, NEW s \in ColourStates(N), NEW n \in N
  PROVE  Entered(s, n) \in ColourStates(N)
<1>1. Append(s.stack, n) \in Seq(N)
  BY DEF ColourStates
<1>. QED
  BY <1>1 DEF ColourStates, Entered

\* A turn of the loop of visit.
LEMMA LookedType ==
  ASSUME NEW N, NEW s \in ColourStates(N), NEW n \in N, NEW next \in N
  PROVE  Looked(s, n, next) \in ColourStates(N)
<1>. DEFINE t == [s EXCEPT !.rest[n] = @ \ {next}]
<1>1. t \in ColourStates(N)
  BY DEF ColourStates
<1>2. [t EXCEPT !.cycle = TRUE] \in ColourStates(N)
  BY <1>1 DEF ColourStates
<1>3. Entered(t, next) \in ColourStates(N)
  BY <1>1, EnteredType
<1>. QED
  BY <1>1, <1>2, <1>3 DEF Looked

\* The return of visit.
LEMMA FinishedType ==
  ASSUME NEW N, NEW s \in ColourStates(N), s.stack # <<>>
  PROVE  Finished(s, Last(s.stack)) \in ColourStates(N)
<1>1. s.stack \in Seq(N)
  BY DEF ColourStates
<1>2. Front(s.stack) \in Seq(N) /\ Last(s.stack) \in N
  BY <1>1, FrontAndLast
<1>. QED
  BY <1>2 DEF ColourStates, Finished

\* Hence so does a round, whatever it is.
LEMMA CycleBody ==
  ASSUME NEW N, NEW graph, NEW order, IsGraph(graph, N), Enumerates(order, N)
  PROVE  [s \in ColourStates(N) |-> VisitForCycle(order, s)]
           \in [ColourStates(N) -> ColourStates(N)]
<1>1. ASSUME NEW s \in ColourStates(N)
      PROVE  VisitForCycle(order, s) \in ColourStates(N)
  <2>1. CASE s.cycle \/ (s.stack = <<>> /\ s.white = {})
    BY <2>1 DEF VisitForCycle
  <2>2. CASE ~(s.cycle \/ (s.stack = <<>> /\ s.white = {}))
    <3>1. s.white \subseteq N /\ s.rest \in [N -> SUBSET N]
      BY DEF ColourStates
    <3>2. CASE \E n \in s.white : VisitForCycle(order, s) = Entered(s, n)
      BY <3>1, <3>2, EnteredType
    <3>3. CASE s.stack # <<>> /\ VisitForCycle(order, s) = Finished(s, Last(s.stack))
      BY <3>3, FinishedType
    <3>4. CASE /\ Last(s.stack) \in N
               /\ \E next \in s.rest[Last(s.stack)] :
                    VisitForCycle(order, s) = Looked(s, Last(s.stack), next)
      <4>1. PICK next \in s.rest[Last(s.stack)] :
                   VisitForCycle(order, s) = Looked(s, Last(s.stack), next)
        BY <3>4
      <4>2. next \in N
        BY <3>1, <3>4
      <4>. QED
        BY <3>4, <4>1, <4>2, LookedType
    <3>. QED
      BY <2>2, <3>2, <3>3, <3>4, RoundFacts
  <2>. QED
    BY <2>1, <2>2
<1>. QED
  BY <1>1

\* What the search has still to do: nodes to enter, nodes to leave, edges to look at.
EdgesLeft(N, s) == {e \in N \X N : e[2] \in s.rest[e[1]]}
RoundsLeft(N, s) ==
  Cardinality(s.white) + Cardinality(N \ s.black) + Cardinality(EdgesLeft(N, s))

\* It is a number no larger than the rounds has_cycle is given.
LEMMA RoundsLeftType ==
  ASSUME NEW N, IsFiniteSet(N), NEW s \in ColourStates(N)
  PROVE  /\ IsFiniteSet(s.white) /\ IsFiniteSet(N \ s.black) /\ IsFiniteSet(EdgesLeft(N, s))
         /\ RoundsLeft(N, s) \in Nat
         /\ RoundsLeft(N, s) <= Cardinality(N) * (Cardinality(N) + 2)
<1>1. s.white \subseteq N /\ N \ s.black \subseteq N
  BY DEF ColourStates
<1>2. /\ IsFiniteSet(s.white) /\ Cardinality(s.white) <= Cardinality(N)
      /\ IsFiniteSet(N \ s.black) /\ Cardinality(N \ s.black) <= Cardinality(N)
  BY <1>1, FS_Subset
<1>3. IsFiniteSet(N \X N) /\ Cardinality(N \X N) = Cardinality(N) * Cardinality(N)
  BY FS_Product
<1>4. EdgesLeft(N, s) \subseteq N \X N
  BY DEF EdgesLeft
<1>5. /\ IsFiniteSet(EdgesLeft(N, s))
      /\ Cardinality(EdgesLeft(N, s)) <= Cardinality(N) * Cardinality(N)
  BY <1>3, <1>4, FS_Subset
<1>6. /\ Cardinality(N) \in Nat /\ Cardinality(s.white) \in Nat
      /\ Cardinality(N \ s.black) \in Nat /\ Cardinality(EdgesLeft(N, s)) \in Nat
  BY <1>2, <1>5, FS_CardinalityType
<1>. DEFINE n == Cardinality(N)
            square == n * n
            a == Cardinality(s.white)
            b == Cardinality(N \ s.black)
            c == Cardinality(EdgesLeft(N, s))
<1>7. n * (n + 2) = square + n + n /\ square \in Nat
  BY <1>6
<1>8. a \in Nat /\ b \in Nat /\ c \in Nat /\ n \in Nat /\ a <= n /\ b <= n /\ c <= square
  BY <1>2, <1>5, <1>6
<1>9. RoundsLeft(N, s) = a + b + c
  BY DEF RoundsLeft
<1>. HIDE DEF n, square, a, b, c
<1>10. a + b + c \in Nat /\ a + b + c <= square + n + n
  BY <1>7, <1>8
<1>11. RoundsLeft(N, s) <= n * (n + 2)
  BY <1>7, <1>9, <1>10
<1>. QED
  BY <1>2, <1>5, <1>9, <1>10, <1>11 DEF n

\* A part of a finite set has no more elements than the set, and fewer if it is not all of it.
LEMMA SmallerSet ==
  ASSUME NEW A, IsFiniteSet(A), NEW B \in SUBSET A
  PROVE  /\ Cardinality(A) \in Nat /\ Cardinality(B) \in Nat /\ Cardinality(B) <= Cardinality(A)
         /\ B # A => Cardinality(B) < Cardinality(A)
  BY FS_Subset, FS_CardinalityType

\* Each round of a search that goes on leaves less to do.
LEMMA RoundsGoDown ==
  ASSUME NEW N, IsFiniteSet(N), NEW s \in ColourStates(N), NEW t \in ColourStates(N),
         t.white \subseteq s.white, s.black \subseteq t.black,
         \A n \in N : t.rest[n] \subseteq s.rest[n],
         \/ t.white # s.white
         \/ t.black # s.black
         \/ \E n \in N : t.rest[n] # s.rest[n]
  PROVE  RoundsLeft(N, t) < RoundsLeft(N, s)
<1>1. /\ IsFiniteSet(s.white) /\ IsFiniteSet(N \ s.black) /\ IsFiniteSet(EdgesLeft(N, s))
  BY RoundsLeftType
<1>2. /\ t.white \subseteq s.white /\ N \ t.black \subseteq N \ s.black
      /\ EdgesLeft(N, t) \subseteq EdgesLeft(N, s)
  BY DEF EdgesLeft
<1>3. \/ t.white # s.white
      \/ N \ t.black # N \ s.black
      \/ EdgesLeft(N, t) # EdgesLeft(N, s)
  <2>1. s.black \subseteq N /\ t.black \subseteq N /\ s.rest \in [N -> SUBSET N]
    BY DEF ColourStates
  <2>2. ASSUME NEW n \in N, t.rest[n] # s.rest[n]
        PROVE  EdgesLeft(N, t) # EdgesLeft(N, s)
    <3>1. PICK m \in s.rest[n] : m \notin t.rest[n]
      BY <2>2
    <3>2. m \in N
      BY <2>1, <3>1
    <3>3. <<n, m>> \in EdgesLeft(N, s) /\ <<n, m>> \notin EdgesLeft(N, t)
      BY <3>1, <3>2 DEF EdgesLeft
    <3>. QED
      BY <3>3
  <2>. QED
    BY <2>1, <2>2
<1>. DEFINE a == Cardinality(s.white)
            b == Cardinality(N \ s.black)
            c == Cardinality(EdgesLeft(N, s))
            p == Cardinality(t.white)
            q == Cardinality(N \ t.black)
            r == Cardinality(EdgesLeft(N, t))
<1>4. /\ a \in Nat /\ p \in Nat /\ p <= a /\ (t.white # s.white => p < a)
  BY <1>1, <1>2, SmallerSet
<1>5. /\ b \in Nat /\ q \in Nat /\ q <= b /\ (N \ t.black # N \ s.black => q < b)
  BY <1>1, <1>2, SmallerSet
<1>6. /\ c \in Nat /\ r \in Nat /\ r <= c /\ (EdgesLeft(N, t) # EdgesLeft(N, s) => r < c)
  BY <1>1, <1>2, SmallerSet
<1>7. RoundsLeft(N, s) = a + b + c /\ RoundsLeft(N, t) = p + q + r
  BY DEF RoundsLeft
<1>8. p < a \/ q < b \/ r < c
  BY <1>3, <1>4, <1>5, <1>6
<1>9. /\ a \in Nat /\ p \in Nat /\ p <= a /\ b \in Nat /\ q \in Nat /\ q <= b
      /\ c \in Nat /\ r \in Nat /\ r <= c
  BY <1>4, <1>5, <1>6
<1>. HIDE DEF a, b, c, p, q, r
<1>. QED
  BY <1>7, <1>8, <1>9

\* The search goes on while no gray neighbour was met, and then its colours are right;
\* when one was met, an edge closes a cycle.
Searching(graph, N, s) ==
  IF s.cycle THEN \E n \in N : \E m \in graph[n] : ClosesCycle(graph, N, n, m)
  ELSE Colouring(graph, N, s, {})

\* A round keeps the search right, and leaves less to do.
LEMMA RoundKeepsSearching ==
  ASSUME NEW N, NEW graph, NEW order, IsGraph(graph, N), Enumerates(order, N),
         NEW s \in ColourStates(N), Searching(graph, N, s),
         ~s.cycle, s.stack # <<>> \/ s.white # {}
  PROVE  /\ Searching(graph, N, VisitForCycle(order, s))
         /\ RoundsLeft(N, VisitForCycle(order, s)) < RoundsLeft(N, s)
<1>. DEFINE u == VisitForCycle(order, s)
<1>. SUFFICES Searching(graph, N, u) /\ RoundsLeft(N, u) < RoundsLeft(N, s)
  OBVIOUS
<1>1. Colouring(graph, N, s, {}) /\ IsFiniteSet(N)
  BY DEF Searching, IsGraph
<1>2. /\ s.white \in SUBSET N /\ s.gray \in SUBSET N /\ s.black \in SUBSET N
      /\ s.stack \in Seq(N) /\ s.rest \in [N -> SUBSET N] /\ s.cycle \in BOOLEAN
  BY DEF ColourStates
<1>3. u \in ColourStates(N)
  BY CycleBody
<1>. HIDE DEF u
<1>4. ASSUME s.stack = <<>>, NEW n \in s.white, u = Entered(s, n)
      PROVE  Searching(graph, N, u) /\ RoundsLeft(N, u) < RoundsLeft(N, s)
  <2>1. Colouring(graph, N, u, {})
    BY <1>1, <1>4, EnteringColours
  <2>2. /\ u.white = s.white \ {n} /\ u.black = s.black /\ u.rest = s.rest /\ u.cycle = FALSE
    BY <1>2, <1>4 DEF Entered, ColourStates
  <2>3. RoundsLeft(N, u) < RoundsLeft(N, s)
    BY <1>1, <1>3, <2>2, RoundsGoDown
  <2>. QED
    BY <2>1, <2>2, <2>3 DEF Searching
<1>5. ASSUME s.stack # <<>>, s.rest[Last(s.stack)] = {}, u = Finished(s, Last(s.stack))
      PROVE  Searching(graph, N, u) /\ RoundsLeft(N, u) < RoundsLeft(N, s)
  <2>1. Colouring(graph, N, u, {})
    BY <1>1, <1>5, FinishingColours
  <2>2. /\ u.white = s.white /\ u.black = s.black \union {Last(s.stack)}
        /\ u.rest = s.rest /\ u.cycle = FALSE
    BY <1>2, <1>5 DEF Finished, ColourStates
  <2>3. Last(s.stack) \notin s.black
    <3>1. Len(s.stack) \in 1..Len(s.stack) /\ Last(s.stack) = s.stack[Len(s.stack)]
      BY <1>2, <1>5, FrontAndLast
    <3>2. Last(s.stack) \in s.gray
      BY <1>1, <3>1 DEF Colouring, StackIsGray
    <3>. QED
      BY <1>1, <3>2 DEF Colouring, Partitioned
  <2>4. RoundsLeft(N, u) < RoundsLeft(N, s)
    BY <1>1, <1>3, <2>2, <2>3, RoundsGoDown
  <2>. QED
    BY <2>1, <2>2, <2>4 DEF Searching
<1>6. ASSUME s.stack # <<>>, Last(s.stack) \in N,
             NEW next \in s.rest[Last(s.stack)], u = Looked(s, Last(s.stack), next)
      PROVE  Searching(graph, N, u) /\ RoundsLeft(N, u) < RoundsLeft(N, s)
  <2>. DEFINE top == Last(s.stack)
              t == [s EXCEPT !.rest[top] = @ \ {next}]
  <2>1. /\ t \in ColourStates(N) /\ Colouring(graph, N, t, {next})
        /\ next \in s.black => Colouring(graph, N, t, {})
    BY <1>1, <1>6, LookingColours
  <2>2. /\ t.white = s.white /\ t.gray = s.gray /\ t.black = s.black /\ t.stack = s.stack
        /\ t.rest = [s.rest EXCEPT ![top] = @ \ {next}] /\ t.cycle = FALSE
    BY DEF ColourStates
  <2>3. u = IF next \in s.gray THEN [t EXCEPT !.cycle = TRUE]
            ELSE IF next \in s.white THEN Entered(t, next) ELSE t
    BY <1>6 DEF Looked
  <2>4. top \in N /\ next \in graph[top] /\ next \in N
    BY <1>1, <1>2, <1>6 DEF Colouring, Remaining
  <2>. HIDE DEF t, top
  <2>5. /\ t.rest[top] = s.rest[top] \ {next} /\ \A n \in N : t.rest[n] \subseteq s.rest[n]
    BY <1>2, <2>2, <2>4
  <2>6. next \in s.rest[top] /\ top = Last(s.stack)
    BY DEF top
  <2>7. CASE next \in s.gray
    <3>1. u.cycle = TRUE /\ u.white = s.white /\ u.black = s.black /\ u.rest = t.rest
      BY <2>1, <2>2, <2>3, <2>7 DEF ColourStates
    <3>2. ClosesCycle(graph, N, top, next)
      BY <1>1, <1>6, <2>4, <2>6, <2>7, CycleFound
    <3>3. RoundsLeft(N, u) < RoundsLeft(N, s)
      BY <1>1, <1>3, <2>4, <2>5, <2>6, <3>1, RoundsGoDown
    <3>. QED
      BY <2>4, <3>1, <3>2, <3>3 DEF Searching
  <2>8. CASE next \notin s.gray /\ next \in s.white
    <3>1. u = Entered(t, next)
      BY <2>3, <2>8
    <3>2. Colouring(graph, N, u, {})
      <4>1. next \in t.white
        BY <2>2, <2>8
      <4>2. t.stack # <<>> => next \in graph[Last(t.stack)] /\ {next} \subseteq {next}
        BY <2>2, <2>4, <2>6
      <4>. QED
        BY <2>1, <3>1, <4>1, <4>2, EnteringColours
    <3>3. u.cycle = FALSE /\ u.white = s.white \ {next} /\ u.black = s.black /\ u.rest = t.rest
      BY <2>1, <2>2, <3>1 DEF ColourStates, Entered
    <3>4. RoundsLeft(N, u) < RoundsLeft(N, s)
      BY <1>1, <1>3, <2>4, <2>5, <2>6, <3>3, RoundsGoDown
    <3>. QED
      BY <3>2, <3>3, <3>4 DEF Searching
  <2>9. CASE next \notin s.gray /\ next \notin s.white
    <3>1. u = t /\ next \in s.black
      BY <1>1, <2>3, <2>4, <2>9 DEF Colouring, Partitioned
    <3>2. Colouring(graph, N, u, {})
      BY <2>1, <3>1
    <3>3. u.cycle = FALSE /\ u.white = s.white /\ u.black = s.black /\ u.rest = t.rest
      BY <2>2, <3>1
    <3>4. RoundsLeft(N, u) < RoundsLeft(N, s)
      BY <1>1, <1>3, <2>4, <2>5, <2>6, <3>3, RoundsGoDown
    <3>. QED
      BY <3>2, <3>3, <3>4 DEF Searching
  <2>. QED
    BY <2>7, <2>8, <2>9
<1>. QED
  <2>1. \/ /\ s.stack = <<>>
           /\ \E n \in s.white : u = Entered(s, n)
        \/ /\ s.stack # <<>> /\ Last(s.stack) \in N /\ s.rest[Last(s.stack)] = {}
           /\ u = Finished(s, Last(s.stack))
        \/ /\ s.stack # <<>> /\ Last(s.stack) \in N
           /\ \E next \in s.rest[Last(s.stack)] : u = Looked(s, Last(s.stack), next)
    BY RoundFacts DEF u
  <2>. QED
    BY <1>4, <1>5, <1>6, <2>1

\* has_cycle is right about every graph, whatever the order of its sets.
LEMMA HasCycleIsExact ==
  ASSUME NEW N, NEW graph, NEW order, IsGraph(graph, N), Enumerates(order, N)
  PROVE  HasCycle(graph, order) <=>
           \E n \in N : \E m \in graph[n] : ClosesCycle(graph, N, n, m)
<1>. DEFINE S == ColourStates(N)
            body == [s \in S |-> VisitForCycle(order, s)]
            start == [white |-> N, gray |-> {}, black |-> {}, stack |-> <<>>, rest |-> graph,
                      cycle |-> FALSE]
            n == Cardinality(N) * (Cardinality(N) + 2)
            Inv == {s \in S : Searching(graph, N, s)}
            Done == {s \in Inv : s.cycle \/ (s.stack = <<>> /\ s.white = {})}
            left == [s \in Inv |-> RoundsLeft(N, s)]
            end == Loop(body, start, n)
<1>1. DOMAIN graph = N /\ IsFiniteSet(N) /\ Cardinality(N) \in Nat /\ graph \in [N -> SUBSET N]
  BY FS_CardinalityType DEF IsGraph
<1>2. n \in Nat
  BY <1>1
<1>3. HasCycle(graph, order) = end.cycle
  BY <1>1 DEF HasCycle
<1>4. body \in [S -> S]
  BY CycleBody
<1>5. start \in Inv
  <2>1. start \in S
    <3>1. <<>> \in Seq(N)
      OBVIOUS
    <3>. QED
      BY <1>1, <3>1 DEF ColourStates
  <2>2. Partitioned(N, start)
    BY DEF Partitioned
  <2>3. StackIsGray(start)
    BY DEF StackIsGray
  <2>4. StackIsPath(graph, start)
    BY DEF StackIsPath
  <2>5. Remaining(graph, N, start)
    BY DEF Remaining
  <2>6. LookedAt(graph, start, {})
    BY DEF LookedAt
  <2>7. BlackIsClosed(graph, start)
    BY DEF BlackIsClosed, Closed
  <2>8. Colouring(graph, N, start, {})
    BY <2>2, <2>3, <2>4, <2>5, <2>6, <2>7 DEF Colouring
  <2>. QED
    BY <2>1, <2>8 DEF Searching
<1>6. ASSUME NEW s \in Inv, s \notin Done
      PROVE  body[s] \in Inv /\ RoundsLeft(N, body[s]) < RoundsLeft(N, s)
  <2>1. /\ s \in S /\ Searching(graph, N, s) /\ ~s.cycle /\ (s.stack # <<>> \/ s.white # {})
    BY <1>6
  <2>2. body[s] = VisitForCycle(order, s) /\ body[s] \in S
    BY <1>4, <2>1
  <2>. HIDE DEF body
  <2>. QED
    BY <2>1, <2>2, RoundKeepsSearching
<1>7. ASSUME NEW s \in Done
      PROVE  body[s] = s
  BY DEF VisitForCycle
<1>8. left \in [Inv -> Nat] /\ left[start] <= n
  BY <1>1, <1>5, RoundsLeftType
<1>9. end \in Done
  <2>1. Inv \in SUBSET S /\ Done \in SUBSET Inv
    OBVIOUS
  <2>2. \A s \in Inv : body[s] \in Inv
    <3>. HIDE DEF body, Inv
    <3>. QED
      BY <1>6, <1>7
  <2>3. \A s \in Inv \ Done : left[body[s]] < left[s]
    <3>1. \A s \in Inv : left[s] = RoundsLeft(N, s)
      OBVIOUS
    <3>. HIDE DEF body, Inv, left, Done
    <3>. QED
      BY <1>6, <2>2, <3>1
  <2>. HIDE DEF body, Inv, left, Done, start, n, S
  <2>. QED
    BY <1>2, <1>4, <1>5, <1>7, <1>8, <2>1, <2>2, <2>3, LoopEnds
<1>10. /\ end \in S /\ Searching(graph, N, end)
       /\ end.cycle \/ (end.stack = <<>> /\ end.white = {})
  <2>. HIDE DEF body, start, n, S
  <2>. QED
    BY <1>9
<1>. HIDE DEF body, start, n, end
<1>11. CASE end.cycle
  BY <1>3, <1>10, <1>11 DEF Searching
<1>12. CASE ~end.cycle
  <2>1. /\ end.white \union end.gray \union end.black = N /\ end.white = {}
        /\ end.gray = {end.stack[i] : i \in 1..Len(end.stack)} /\ end.stack = <<>>
        /\ BlackIsClosed(graph, end)
    BY <1>10, <1>12 DEF Searching, Colouring, Partitioned, StackIsGray
  <2>2. end.gray = {} /\ end.black = N
    <3>1. Len(end.stack) = 0
      BY <2>1
    <3>2. 1..Len(end.stack) = {}
      BY <3>1
    <3>3. end.gray = {}
      BY <2>1, <3>2
    <3>. QED
      BY <2>1, <3>3
  <2>3. ASSUME NEW a \in N, NEW b \in graph[a], ClosesCycle(graph, N, a, b)
        PROVE  FALSE
    <3>1. PICK C \in SUBSET N : a \notin C /\ graph[a] \subseteq C /\ Closed(graph, C)
      BY <2>1, <2>2 DEF BlackIsClosed
    <3>. QED
      BY <2>3, <3>1 DEF ClosesCycle
  <2>. QED
    BY <1>3, <1>12, <2>3
<1>. QED
  BY <1>11, <1>12

\* A proposal is refused for a cycle exactly when its edges have one (has_cycle in
\* validate_topology): true of every proposal, whatever the order in which the sets of
\* neighbours are met.
THEOREM CyclesAreFoundExactly == MissionSpec => []CycleIsExact
<1>1. Answered => CycleIsExact
  <2>. SUFFICES ASSUME Answered, request.type = "topology"
                PROVE  LET edges == Range(EdgesOf(request.config))
                           nodes == NodesOf(request.config) \union Ends(EdgesOf(request.config))
                       IN "CYCLE_NOT_ALLOWED" \in answer.errors <=>
                            /\ ModeOf(request.config) # "manual"
                            /\ \E e \in edges : Reaches(edges, nodes, e[2], e[1])
    BY DEF CycleIsExact
  <2>. DEFINE config == request.config
              order == request.order
              edges == Range(EdgesOf(config))
              N == NodesOf(config) \union Ends(EdgesOf(config))
              graph == Adjacency(NodesOf(config), EdgesOf(config), TRUE)
  <2>1. /\ config \in Proposals /\ order \in Orders
        /\ answer = ValidateConfigTopology(config, order)
    BY HandlerOf
  <2>2. answer.errors = StructuralErrors(config, order)
    BY <2>1 DEF ValidateConfigTopology
  <2>3. /\ IsGraph(graph, N) /\ Enumerates(order, N)
        /\ \A n, m \in N : m \in graph[n] <=> <<n, m>> \in edges
    BY <2>1, ProposalGraph
  <2>4. \A e \in edges : e[1] \in N /\ e[2] \in N /\ e = <<e[1], e[2]>>
    <3>1. \A e \in edges : e[1] \in N /\ e[2] \in N
      BY DEF Ends, Range
    <3>2. \A e \in edges : e \in Nat \X Nat
      BY <2>1, ProposalsAssumption
    <3>3. \A e \in edges : e = <<e[1], e[2]>>
      <4>. HIDE DEF edges
      <4>. QED
        BY <3>2
    <3>. QED
      BY <3>1, <3>3
  <2>. HIDE DEF edges, graph, N, config, order
  <2>5. ASSUME NEW C \in SUBSET N
        PROVE  Closed(graph, C) <=> \A e \in edges : e[1] \in C => e[2] \in C
    <3>1. ASSUME Closed(graph, C), NEW e \in edges, e[1] \in C
          PROVE  e[2] \in C
      <4>1. e[2] \in graph[e[1]]
        BY <2>3, <2>4
      <4>. QED
        BY <3>1, <4>1 DEF Closed
    <3>2. ASSUME \A e \in edges : e[1] \in C => e[2] \in C, NEW n \in C, NEW m \in graph[n]
          PROVE  m \in C
      <4>1. n \in N /\ m \in N
        BY <2>3 DEF IsGraph
      <4>2. <<n, m>> \in edges
        BY <2>3, <4>1
      <4>. QED
        BY <3>2, <4>2
    <3>. QED
      BY <3>1, <3>2 DEF Closed
  <2>6. ASSUME NEW n \in N, NEW m \in graph[n]
        PROVE  ClosesCycle(graph, N, n, m) <=> Reaches(edges, N, m, n)
    BY <2>5 DEF ClosesCycle, Reaches
  <2>7. HasCycle(graph, order) <=> \E e \in edges : Reaches(edges, N, e[2], e[1])
    <3>1. ASSUME HasCycle(graph, order)
          PROVE  \E e \in edges : Reaches(edges, N, e[2], e[1])
      <4>1. PICK n \in N : \E m \in graph[n] : ClosesCycle(graph, N, n, m)
        BY <2>3, <3>1, HasCycleIsExact
      <4>2. PICK m \in graph[n] : ClosesCycle(graph, N, n, m)
        BY <4>1
      <4>3. m \in N
        BY <2>3, <4>2 DEF IsGraph
      <4>4. <<n, m>> \in edges /\ Reaches(edges, N, m, n)
        BY <2>3, <2>6, <4>2, <4>3
      <4>. QED
        BY <4>4
    <3>2. ASSUME NEW e \in edges, Reaches(edges, N, e[2], e[1])
          PROVE  HasCycle(graph, order)
      <4>1. e[1] \in N /\ e[2] \in graph[e[1]]
        BY <2>3, <2>4
      <4>2. ClosesCycle(graph, N, e[1], e[2])
        BY <2>6, <3>2, <4>1
      <4>. QED
        BY <2>3, <4>1, <4>2, HasCycleIsExact
    <3>. QED
      BY <3>1, <3>2
  <2>8. "CYCLE_NOT_ALLOWED" \in answer.errors <=>
          ModeOf(config) # "manual" /\ HasCycle(graph, order)
    BY <2>2, StructuralMeaning DEF graph
  <2>. QED
    BY <2>7, <2>8 DEF edges, N, config
<1>. QED
  BY <1>1, AnswersAnswer, PTL

-----------------------------------------------------------------------------
(* The presets of Topology Studio.                                           *)

Line(n) == [i \in 1..n |-> i]

\* The numbers up to n in order.
LEMMA IntervalInOrder ==
  ASSUME NEW n \in Nat
  PROVE  Cardinality(1..n) = n /\ InOrder(1..n) = Line(n)
<1>. DEFINE f == InOrder(1..n)
<1>1. Cardinality(1..n) = n
  BY FS_Interval
<1>2. /\ f \in [1..n -> 1..n]
      /\ \A i, j \in 1..n : i < j => f[i] < f[j]
  <2>1. \E seq \in [1..n -> 1..n] : \A i, j \in 1..n : i < j => seq[i] < seq[j]
    <3>1. [i \in 1..n |-> i] \in [1..n -> 1..n]
      OBVIOUS
    <3>. QED
      BY <3>1
  <2>2. f = CHOOSE seq \in [1..n -> 1..n] : \A i, j \in 1..n : i < j => seq[i] < seq[j]
    BY <1>1 DEF InOrder
  <2>. QED
    BY <2>1, <2>2
<1>. HIDE DEF f
<1>3. \A i \in 1..n : i <= f[i]
  <2>. DEFINE bad == {i \in 1..n : ~(i <= f[i])}
  <2>. SUFFICES ASSUME bad # {} PROVE FALSE
    OBVIOUS
  <2>1. PICK i \in bad : \A j \in bad : i <= j
    <3>1. bad \in SUBSET Nat
      OBVIOUS
    <3>. QED
      BY <3>1, LeastIndexExists
  <2>2. i \in 1..n /\ f[i] \in 1..n /\ f[i] < i
    BY <1>2, <2>1
  <2>3. i - 1 \in 1..n /\ i - 1 \notin bad
    BY <2>1, <2>2
  <2>4. f[i - 1] \in 1..n /\ i - 1 <= f[i - 1] /\ f[i - 1] < f[i]
    BY <1>2, <2>2, <2>3
  <2>. QED
    BY <2>2, <2>4
<1>4. \A i \in 1..n : f[i] <= i
  <2>. DEFINE bad == {d \in 0..(n - 1) : ~(f[n - d] <= n - d)}
  <2>1. bad = {}
    <3>. SUFFICES ASSUME bad # {} PROVE FALSE
      OBVIOUS
    <3>1. PICK d \in bad : \A j \in bad : d <= j
      <4>1. bad \in SUBSET Nat
        OBVIOUS
      <4>. QED
        BY <4>1, LeastIndexExists
    <3>2. d \in 0..(n - 1) /\ n - d \in 1..n /\ f[n - d] \in 1..n /\ n - d < f[n - d]
      BY <1>2, <3>1
    <3>3. d - 1 \in 0..(n - 1) /\ d - 1 \notin bad
      BY <3>1, <3>2
    <3>4. n - (d - 1) \in 1..n /\ n - d < n - (d - 1)
      BY <3>2, <3>3
    <3>5. f[n - (d - 1)] <= n - (d - 1) /\ f[n - d] < f[n - (d - 1)]
          /\ f[n - (d - 1)] \in 1..n
      BY <1>2, <3>2, <3>3, <3>4
    <3>. QED
      BY <3>2, <3>4, <3>5
  <2>2. ASSUME NEW i \in 1..n
        PROVE  f[i] <= i
    <3>1. n - i \in 0..(n - 1) /\ n - (n - i) = i
      OBVIOUS
    <3>. QED
      BY <2>1, <3>1
  <2>. QED
    BY <2>2
<1>5. \A i \in 1..n : f[i] = i
  BY <1>2, <1>3, <1>4
<1>. QED
  BY <1>1, <1>2, <1>5 DEF f, Line

\* A loop that keeps the first elements of a sequence.
LEMMA KeptPrefix ==
  ASSUME NEW seq, NEW n \in Nat
  PROVE  Kept(seq, 1..n) = [i \in 1..n |-> seq[i]]
  BY IntervalInOrder DEF Kept, Line

\* A loop that keeps all elements.
LEMMA KeptAll ==
  ASSUME NEW T, NEW seq \in Seq(T)
  PROVE  Kept(seq, DOMAIN seq) = seq
<1>1. Len(seq) \in Nat /\ DOMAIN seq = 1..Len(seq)
  OBVIOUS
<1>2. Kept(seq, 1..Len(seq)) = [i \in 1..Len(seq) |-> seq[i]]
  BY <1>1, KeptPrefix
<1>. QED
  BY <1>1, <1>2

\* Branches as a preset shows them: none is empty, and the relays of each are in order.
OrderedRows(rows, n) ==
  /\ rows \in Seq(Seq(1..n))
  /\ rows # <<>>
  /\ \A k \in 1..Len(rows) : rows[k] # <<>> /\ Increasing(rows[k], Len(rows[k]))

\* sanitize_branches finds nothing to drop in them.
LEMMA OrderedRowsKept ==
  ASSUME NEW n \in Nat, NEW count \in Nat, n <= count, NEW rows, OrderedRows(rows, n)
  PROVE  SanitizeBranches(rows, count) = rows
<1>1. rows \in Seq(Seq(1..n)) /\ DOMAIN rows = 1..Len(rows)
  BY DEF OrderedRows
<1>2. ASSUME NEW k \in DOMAIN rows
      PROVE  SanitizedBranch(rows[k], count) = rows[k]
  <2>. DEFINE row == rows[k]
  <2>1. row \in Seq(1..n) /\ Increasing(row, Len(row))
    BY <1>1 DEF OrderedRows
  <2>. HIDE DEF row
  <2>2. DOMAIN row = 1..Len(row) /\ Len(row) \in Nat /\ \A i \in 1..Len(row) : row[i] \in 1..n
    BY <2>1
  <2>3. ASSUME NEW i \in DOMAIN row
        PROVE  row[i] \in 1..count /\ \A j \in 1..(i - 1) : row[j] # row[i]
    <3>1. row[i] \in 1..count
      BY <2>2
    <3>2. ASSUME NEW j \in 1..(i - 1)
          PROVE  row[j] # row[i]
      <4>1. i \in 1..Len(row) /\ j \in 1..Len(row) /\ j < i
        BY <2>2
      <4>2. row[j] < row[i] /\ row[i] \in 1..n /\ row[j] \in 1..n
        BY <2>1, <2>2, <4>1 DEF Increasing
      <4>. QED
        BY <4>2
    <3>. QED
      BY <3>1, <3>2
  <2>4. {i \in DOMAIN row :
           row[i] \in 1..count /\ \A j \in 1..(i - 1) : row[j] # row[i]} = DOMAIN row
    BY <2>3
  <2>5. SanitizedBranch(row, count) = Kept(row, DOMAIN row)
    BY <2>4 DEF SanitizedBranch
  <2>. QED
    BY <2>1, <2>5, KeptAll DEF row
<1>. DEFINE clean == [k \in DOMAIN rows |-> SanitizedBranch(rows[k], count)]
<1>3. clean = rows
  BY <1>1, <1>2
<1>4. SanitizeBranches(rows, count) = Kept(clean, {k \in DOMAIN rows : clean[k] # <<>>})
  BY DEF SanitizeBranches
<1>. HIDE DEF clean
<1>5. {k \in DOMAIN rows : rows[k] # <<>>} = DOMAIN rows
  BY <1>1 DEF OrderedRows
<1>. QED
  BY <1>1, <1>3, <1>4, <1>5, KeptAll

\* A hand dealt from a list in order is in order.
LEMMA HandFacts ==
  ASSUME NEW T, T \subseteq Int, NEW seq \in Seq(T), Increasing(seq, Len(seq)),
         NEW n \in Nat, n # 0, NEW k \in 1..n
  PROVE  /\ Hand(seq, k, n) \in Seq(T)
         /\ Increasing(Hand(seq, k, n), Len(Hand(seq, k, n)))
         /\ k <= Len(seq) => Hand(seq, k, n) # <<>>
         /\ k > Len(seq) => Hand(seq, k, n) = <<>>
<1>. DEFINE m == (Len(seq) - k) \div n + 1
            row == [i \in 1..m |-> seq[(i - 1) * n + k]]
<1>1. Hand(seq, k, n) = row
  BY DEF Hand
<1>2. Len(seq) \in Nat
  OBVIOUS
<1>3. m \in Nat /\ (k <= Len(seq) => m >= 1)
  BY <1>2
<1>4. k > Len(seq) => m = 0
  BY <1>2
<1>5. \A i \in 1..m : (i - 1) * n + k \in 1..Len(seq)
  BY <1>2
<1>6. \A i, j \in 1..m : i < j => (i - 1) * n + k < (j - 1) * n + k
  OBVIOUS
<1>. HIDE DEF m
<1>7. row \in [1..m -> T]
  BY <1>5
<1>8. row \in Seq(T) /\ Len(row) = m
  BY <1>3, <1>7, IsSequence
<1>9. Increasing(row, Len(row))
  <2>. SUFFICES ASSUME NEW i \in 1..m, NEW j \in 1..m, i < j
                PROVE  row[i] < row[j]
    BY <1>8 DEF Increasing
  <2>. DEFINE x == (i - 1) * n + k
              y == (j - 1) * n + k
  <2>1. x \in 1..Len(seq) /\ y \in 1..Len(seq) /\ x < y
    BY <1>5, <1>6
  <2>2. row[i] = seq[x] /\ row[j] = seq[y]
    OBVIOUS
  <2>. HIDE DEF x, y, row
  <2>. QED
    BY <2>1, <2>2 DEF Increasing
<1>. HIDE DEF row
<1>10. k <= Len(seq) => row # <<>>
  BY <1>3, <1>8
<1>11. k > Len(seq) => row = <<>>
  BY <1>4, <1>8
<1>. QED
  BY <1>1, <1>8, <1>9, <1>10, <1>11

\* The relays of a preset dealt to a number of branches.
Hands(n) == [k \in 1..n |-> Hand(Line(DefaultRelays), k, n)]

\* The rows of a forest.
ForestRow(n, k) ==
  <<1 + ((k - 1) % 2)>> \o Hand([i \in 1..(DefaultRelays - 2) |-> 2 + i], k, n)

\* The relays of a line are in order, each once.
LEMMA LineFacts ==
  ASSUME NEW n \in Nat
  PROVE  /\ Line(n) \in Seq(1..n) /\ Len(Line(n)) = n
         /\ Increasing(Line(n), Len(Line(n))) /\ Simple(Line(n))
<1>1. Line(n) \in [1..n -> 1..n]
  BY DEF Line
<1>2. Line(n) \in Seq(1..n) /\ Len(Line(n)) = n
  BY <1>1, IsSequence
<1>. QED
  BY <1>2 DEF Line, Increasing, Simple

\* Dealing to as many branches as there are relays or fewer.
LEMMA HandsAreOrdered ==
  ASSUME DefaultRelays \in Nat, NEW n \in 1..DefaultRelays
  PROVE  /\ OrderedRows(Hands(n), DefaultRelays) /\ Len(Hands(n)) = n
         /\ \A k, l \in 1..n : k # l => Range(Hands(n)[k]) \intersect Range(Hands(n)[l]) = {}
<1>. DEFINE R == DefaultRelays
            line == Line(R)
<1>1. /\ line \in Seq(1..R) /\ Len(line) = R /\ Increasing(line, Len(line)) /\ Simple(line)
  BY LineFacts
<1>2. n \in Nat /\ n # 0 /\ 1..R \subseteq Int
  OBVIOUS
<1>3. Hands(n) = [k \in 1..n |-> Hand(line, k, n)]
  BY DEF Hands
<1>. HIDE DEF line
<1>4. ASSUME NEW k \in 1..n
      PROVE  /\ Hand(line, k, n) \in Seq(1..R) /\ Hand(line, k, n) # <<>>
             /\ Increasing(Hand(line, k, n), Len(Hand(line, k, n)))
  <2>1. k <= Len(line)
    BY <1>1
  <2>. QED
    BY <1>1, <1>2, <2>1, HandFacts
<1>5. Hands(n) \in [1..n -> Seq(1..R)]
  BY <1>3, <1>4
<1>6. Hands(n) \in Seq(Seq(1..R)) /\ Len(Hands(n)) = n
  BY <1>2, <1>5, IsSequence
<1>7. Hands(n) # <<>>
  BY <1>2, <1>6
<1>8. OrderedRows(Hands(n), R)
  BY <1>3, <1>4, <1>6, <1>7 DEF OrderedRows
<1>9. ASSUME NEW k \in 1..n, NEW l \in 1..n, k # l
      PROVE  Range(Hands(n)[k]) \intersect Range(Hands(n)[l]) = {}
  <2>1. Hands(n) = Dealt(line, n)
    BY <1>3 DEF Hand, Dealt
  <2>. QED
    BY <1>1, <1>2, <1>9, <2>1, DealtPartition
<1>. QED
  BY <1>6, <1>8, <1>9

\* A chain is one branch with all relays: one hand.
LEMMA ChainShape ==
  ASSUME DefaultRelays \in Nat, DefaultRelays >= 2, NEW count \in Nat \ {0}
  PROVE  Preset("chain", DefaultRelays, count) = Hands(1)
<1>1. Preset("chain", DefaultRelays, count) = <<Line(DefaultRelays)>>
  BY DEF Preset, Line
<1>2. Hand(Line(DefaultRelays), 1, 1) = Line(DefaultRelays)
  <2>1. Len(Line(DefaultRelays)) = DefaultRelays
    BY LineFacts
  <2>2. (DefaultRelays - 1) \div 1 + 1 = DefaultRelays
    OBVIOUS
  <2>3. \A i \in 1..DefaultRelays : (i - 1) * 1 + 1 = i
    OBVIOUS
  <2>4. Hand(Line(DefaultRelays), 1, 1)
          = [i \in 1..DefaultRelays |-> Line(DefaultRelays)[(i - 1) * 1 + 1]]
    BY <2>1, <2>2 DEF Hand
  <2>5. \A i \in 1..DefaultRelays : Line(DefaultRelays)[(i - 1) * 1 + 1] = i
    BY <2>3 DEF Line
  <2>. QED
    BY <2>4, <2>5 DEF Line
<1>3. Hands(1) = [k \in 1..1 |-> Line(DefaultRelays)]
  BY <1>2 DEF Hands
<1>. QED
  BY <1>1, <1>3

\* Parallel branches are hands; when there are fewer relays than branches, the empty
\* ones are left out, and what remains is a hand for each relay.
LEMMA ParallelShape ==
  ASSUME DefaultRelays \in Nat, DefaultRelays >= 2, NEW count \in Nat \ {0}
  PROVE  Preset("parallel", DefaultRelays, count)
           = Hands(IF count <= DefaultRelays THEN count ELSE DefaultRelays)
<1>. DEFINE R == DefaultRelays
            line == Line(R)
            n == IF count <= R THEN count ELSE R
            dealt == [k \in 1..count |-> Hand(line, k, count)]
<1>1. /\ line \in Seq(1..R) /\ Len(line) = R /\ Increasing(line, Len(line))
      /\ count \in Nat /\ count # 0 /\ 1..R \subseteq Int /\ n \in 1..R /\ n \in Nat
  BY LineFacts
<1>2. Max({1, count}) = count
  BY DEF Max
<1>3. Preset("parallel", R, count) = Kept(dealt, {k \in 1..count : dealt[k] # <<>>})
  BY <1>2 DEF Preset, Line
<1>. HIDE DEF line
<1>4. {k \in 1..count : dealt[k] # <<>>} = 1..n
  <2>1. ASSUME NEW k \in 1..count
        PROVE  dealt[k] # <<>> <=> k <= R
    <3>1. k <= R \/ k > R
      OBVIOUS
    <3>. QED
      BY <1>1, <3>1, HandFacts
  <2>2. \A k \in 1..count : k <= R <=> k \in 1..n
    OBVIOUS
  <2>3. 1..n \subseteq 1..count
    OBVIOUS
  <2>. HIDE DEF dealt, n
  <2>. QED
    BY <2>1, <2>2, <2>3
<1>5. Preset("parallel", R, count) = [k \in 1..n |-> dealt[k]]
  <2>. HIDE DEF dealt, n
  <2>. QED
    BY <1>1, <1>3, <1>4, KeptPrefix
<1>6. ASSUME NEW k \in 1..n
      PROVE  dealt[k] = Hand(line, k, n)
  <2>1. CASE count <= R
    BY <2>1
  <2>2. CASE ~(count <= R)
    <3>1. (R - k) \div count = 0 /\ (R - k) \div n = 0 /\ n = R /\ k \in 1..count
      BY <1>1, <2>2
    <3>2. (R - k) \div count + 1 = 1 /\ (R - k) \div n + 1 = 1
      BY <3>1
    <3>3. \A i \in 1..1 : (i - 1) * count + k = k /\ (i - 1) * n + k = k
      BY <1>1
    <3>4. Hand(line, k, count) = [i \in 1..1 |-> line[k]]
      BY <1>1, <3>2, <3>3 DEF Hand
    <3>5. Hand(line, k, n) = [i \in 1..1 |-> line[k]]
      BY <1>1, <3>2, <3>3 DEF Hand
    <3>. QED
      BY <3>1, <3>4, <3>5
  <2>. QED
    BY <2>1, <2>2
<1>7. Hands(n) = [k \in 1..n |-> Hand(line, k, n)]
  BY DEF Hands, line
<1>8. Preset("parallel", R, count) = Hands(n)
  <2>. HIDE DEF dealt, n
  <2>. QED
    BY <1>5, <1>6, <1>7
<1>. QED
  BY <1>8

\* A forest of two branches is two hands, since their roots are the first two relays;
\* from the third branch on the roots come again.
LEMMA ForestShape ==
  ASSUME DefaultRelays \in Nat, DefaultRelays >= 2, NEW count \in Nat \ {0}
  PROVE  /\ Preset("forest", DefaultRelays, count) = [k \in 1..count |-> ForestRow(count, k)]
         /\ count = 2 => Preset("forest", DefaultRelays, count) = Hands(2)
         /\ OrderedRows(Preset("forest", DefaultRelays, count), DefaultRelays)
         /\ \A k \in 1..count : ForestRow(count, k)[1] = 1 + ((k - 1) % 2)
<1>. DEFINE R == DefaultRelays
            rest == [i \in 1..(R - 2) |-> 2 + i]
            rows == Preset("forest", R, count)
<1>1. Max({1, count}) = count /\ Min({2, R}) = 2
  BY DEF Max, Min
<1>2. rows = [k \in 1..count |-> ForestRow(count, k)]
  <2>1. rows = [k \in 1..Max({1, count}) |->
                  <<1 + ((k - 1) % Min({2, R}))>> \o
                    Hand([i \in 1..(R - Min({2, R})) |-> Min({2, R}) + i], k, Max({1, count}))]
    BY DEF Preset
  <2>. HIDE DEF rows
  <2>2. rows = [k \in 1..count |-> <<1 + ((k - 1) % 2)>> \o Hand(rest, k, count)]
    BY <1>1, <2>1, Zenon
  <2>. QED
    BY <2>2, Zenon DEF ForestRow, rest
<1>3. rest \in Seq(3..R) /\ Len(rest) = R - 2 /\ Increasing(rest, Len(rest))
  <2>1. rest \in [1..(R - 2) -> 3..R] /\ R - 2 \in Nat
    OBVIOUS
  <2>2. rest \in Seq(3..R) /\ Len(rest) = R - 2
    BY <2>1, IsSequence
  <2>. QED
    BY <2>2 DEF Increasing
<1>4. 3..R \subseteq Int /\ count \in Nat /\ count # 0
  OBVIOUS
<1>5. ASSUME NEW k \in 1..count
      PROVE  /\ ForestRow(count, k) \in Seq(1..R) /\ ForestRow(count, k) # <<>>
             /\ Increasing(ForestRow(count, k), Len(ForestRow(count, k)))
             /\ ForestRow(count, k)[1] = 1 + ((k - 1) % 2)
  <2>. DEFINE root == 1 + ((k - 1) % 2)
              hand == Hand(rest, k, count)
              row == <<root>> \o hand
  <2>1. ForestRow(count, k) = row
    BY DEF ForestRow
  <2>. HIDE DEF rest
  <2>2. hand \in Seq(3..R) /\ Increasing(hand, Len(hand))
    BY <1>3, <1>4, HandFacts
  <2>3. root \in 1..2
    OBVIOUS
  <2>. HIDE DEF hand, root
  <2>4. /\ Len(hand) \in Nat /\ \A i \in 1..Len(hand) : hand[i] \in 3..R
    BY <2>2
  <2>5. /\ <<root>> \in Seq(1..R) /\ hand \in Seq(1..R) /\ Len(<<root>>) = 1
    <3>1. root \in 1..R
      BY <2>3
    <3>2. 3..R \subseteq 1..R
      OBVIOUS
    <3>. QED
      BY <2>2, <3>1, <3>2
  <2>6. /\ row \in Seq(1..R) /\ Len(row) = 1 + Len(hand)
        /\ \A i \in 1..(1 + Len(hand)) : row[i] = IF i <= 1 THEN <<root>>[i] ELSE hand[i - 1]
    BY <2>5, ConcatProperties
  <2>7. row[1] = root
    BY <2>4, <2>6
  <2>. HIDE DEF row
  <2>8. ASSUME NEW i \in 1..Len(row), NEW j \in 1..Len(row), i < j
        PROVE  row[i] < row[j]
    <3>1. j - 1 \in 1..Len(hand) /\ row[j] = hand[j - 1] /\ hand[j - 1] \in 3..R
      BY <2>4, <2>6, <2>8
    <3>2. CASE i = 1
      BY <2>3, <2>7, <3>1, <3>2
    <3>3. CASE i # 1
      <4>1. i - 1 \in 1..Len(hand) /\ row[i] = hand[i - 1] /\ i - 1 < j - 1
        BY <2>4, <2>6, <2>8, <3>3
      <4>. QED
        BY <2>2, <3>1, <4>1 DEF Increasing
    <3>. QED
      BY <3>2, <3>3
  <2>9. row # <<>>
    BY <2>4, <2>6
  <2>. QED
    BY <2>1, <2>6, <2>7, <2>8, <2>9 DEF root, Increasing
<1>6. OrderedRows(rows, R)
  <2>1. rows \in [1..count -> Seq(1..R)]
    BY <1>2, <1>5
  <2>2. rows \in Seq(Seq(1..R)) /\ Len(rows) = count
    BY <1>4, <2>1, IsSequence
  <2>3. rows # <<>>
    BY <1>4, <2>2
  <2>. HIDE DEF rows
  <2>. QED
    BY <1>2, <1>5, <2>2, <2>3 DEF OrderedRows
<1>7. ASSUME count = 2
      PROVE  rows = Hands(2)
  <2>. SUFFICES ASSUME NEW k \in 1..2
                PROVE  ForestRow(2, k) = Hand(Line(R), k, 2)
    BY <1>2, <1>7 DEF Hands
  <2>. DEFINE hand == Hand(rest, k, 2)
              m == (R - k) \div 2 + 1
  <2>1. m \in Nat /\ m >= 1 /\ (R - 2 - k) \div 2 + 1 = m - 1
    OBVIOUS
  <2>2. Hand(Line(R), k, 2) = [i \in 1..m |-> (i - 1) * 2 + k]
    <3>1. Len(Line(R)) = R
      BY LineFacts
    <3>2. \A i \in 1..m : (i - 1) * 2 + k \in 1..R
      OBVIOUS
    <3>3. Hand(Line(R), k, 2) = [i \in 1..m |-> Line(R)[(i - 1) * 2 + k]]
      BY <3>1 DEF Hand
    <3>. QED
      BY <3>2, <3>3 DEF Line
  <2>3. hand = [i \in 1..(m - 1) |-> 2 + ((i - 1) * 2 + k)]
    <3>1. \A i \in 1..(m - 1) : (i - 1) * 2 + k \in 1..(R - 2)
      OBVIOUS
    <3>2. hand = [i \in 1..(m - 1) |-> rest[(i - 1) * 2 + k]]
      BY <1>3, <2>1 DEF Hand
    <3>. HIDE DEF m, hand
    <3>. QED
      BY <3>1, <3>2
  <2>4. hand \in Seq(Int) /\ Len(hand) = m - 1
    <3>1. hand \in [1..(m - 1) -> Int] /\ m - 1 \in Nat
      BY <2>1, <2>3
    <3>. HIDE DEF m, hand
    <3>. QED
      BY <3>1, IsSequence
  <2>5. ForestRow(2, k) = <<k>> \o hand
    <3>1. 1 + ((k - 1) % 2) = k
      OBVIOUS
    <3>. QED
      BY <3>1 DEF ForestRow
  <2>6. Len(<<k>>) = 1 /\ <<k>> \in Seq(Int)
    OBVIOUS
  <2>. HIDE DEF m, hand
  <2>7. /\ <<k>> \o hand \in Seq(Int) /\ Len(<<k>> \o hand) = 1 + (m - 1)
        /\ \A i \in 1..(1 + (m - 1)) :
             (<<k>> \o hand)[i] = IF i <= 1 THEN <<k>>[i] ELSE hand[i - 1]
    BY <2>4, <2>6, ConcatProperties
  <2>8. 1 + (m - 1) = m
    BY <2>1
  <2>9. ASSUME NEW i \in 1..m
        PROVE  (<<k>> \o hand)[i] = (i - 1) * 2 + k
    <3>1. CASE i = 1
      BY <2>1, <2>7, <2>8, <3>1
    <3>2. CASE i # 1
      <4>1. i - 1 \in 1..(m - 1) /\ ~(i <= 1)
        BY <2>1, <3>2
      <4>2. (<<k>> \o hand)[i] = 2 + ((i - 1 - 1) * 2 + k)
        BY <2>3, <2>7, <2>8, <4>1
      <4>3. 2 + ((i - 1 - 1) * 2 + k) = (i - 1) * 2 + k
        BY <2>1
      <4>. QED
        BY <4>2, <4>3
    <3>. QED
      BY <3>1, <3>2
  <2>10. <<k>> \o hand = [i \in 1..m |-> (<<k>> \o hand)[i]]
    BY <2>7, <2>8
  <2>. QED
    BY <2>2, <2>5, <2>9, <2>10
<1>. QED
  BY <1>2, <1>5, <1>6, <1>7

\* The drones Topology Studio posts: relays in a column, none failed.
PresetDrones == [i \in 1..DefaultRelays |-> Drone(i, DefaultRelays)]

\* What the validation and the packet runtime read of them.
LEMMA PresetDronesFacts ==
  ASSUME DefaultRelays \in Nat
  PROVE  /\ Len(PresetDrones) = DefaultRelays /\ DOMAIN PresetDrones = 1..DefaultRelays
         /\ \A i \in 1..DefaultRelays :
              /\ PresetDrones[i].id = i /\ PresetDrones[i].role = "relay"
              /\ PresetDrones[i].active = TRUE /\ PresetDrones[i].failed = FALSE
              /\ PresetDrones[i].position = 28 * i
<1>. DEFINE S == {Drone(i, DefaultRelays) : i \in 1..DefaultRelays}
<1>1. PresetDrones \in [1..DefaultRelays -> S]
  BY DEF PresetDrones
<1>2. Len(PresetDrones) = DefaultRelays /\ DOMAIN PresetDrones = 1..DefaultRelays
  <2>. HIDE DEF S
  <2>. QED
    BY <1>1, IsSequence
<1>. QED
  BY <1>2 DEF PresetDrones, Drone

\* The experiment Topology Studio posts for a preset whose rows are in order.
LEMMA PresetFields ==
  ASSUME DefaultRelays \in 2..512, NEW mode, NEW count, NEW rows,
         rows = Preset(mode, DefaultRelays, count), OrderedRows(rows, DefaultRelays)
  PROVE  LET config == PresetConfig(<<mode, count>>)
         IN /\ DOMAIN config = Objects /\ config = [k \in Objects |-> config[k]]
            /\ config.swarm = [drone_count |-> DefaultRelays, relay_count |-> DefaultRelays,
                               standby_count |-> 0, drones |-> PresetDrones]
            /\ config.topology = [mode |-> mode, branches |-> rows,
                                  sinks |-> {Last(rows[1])}, manual_edges |-> <<>>]
            /\ config.communication = DefaultExperiment.communication
            /\ config.antennas = DefaultExperiment.antennas
            /\ config.traffic = DefaultExperiment.traffic
<1>. DEFINE topology == [mode |-> mode, branches |-> rows, sinks |-> {Last(rows[1])}]
            config == UpdatedTopology(DefaultExperiment, topology, PresetDrones)
            standby == {i \in DOMAIN PresetDrones : PresetDrones[i].role = "standby"}
            merged == Overlaid(topology, DefaultExperiment.topology)
<1>1. PresetConfig(<<mode, count>>) = config
  BY DEF PresetConfig, PresetDrones
<1>2. Len(PresetDrones) = DefaultRelays /\ standby = {} /\ Cardinality(standby) = 0
  <2>1. DefaultRelays \in Nat
    OBVIOUS
  <2>2. /\ Len(PresetDrones) = DefaultRelays /\ DOMAIN PresetDrones = 1..DefaultRelays
        /\ \A i \in 1..DefaultRelays : PresetDrones[i].role = "relay"
    BY <2>1, PresetDronesFacts
  <2>3. standby = {}
    BY <2>2
  <2>. HIDE DEF standby
  <2>. QED
    BY <2>2, <2>3, FS_EmptySet
<1>3. SanitizeBranches(rows, 100000) = rows
  BY OrderedRowsKept
<1>4. merged = [mode |-> mode, branches |-> rows, sinks |-> {Last(rows[1])},
                manual_edges |-> <<>>]
  <2>. DEFINE base == DefaultExperiment.topology
  <2>1. /\ DOMAIN base = {"mode", "sinks", "manual_edges", "branches"}
        /\ base.manual_edges = <<>>
    BY DEF DefaultExperiment
  <2>2. /\ DOMAIN topology = {"mode", "branches", "sinks"} /\ topology.mode = mode
        /\ topology.branches = rows /\ topology.sinks = {Last(rows[1])}
    OBVIOUS
  <2>. HIDE DEF base, topology
  <2>3. merged = [k \in {"mode", "branches", "sinks", "manual_edges"} |->
                    IF k \in {"mode", "branches", "sinks"} THEN topology[k] ELSE base[k]]
    <3>1. DOMAIN topology \union DOMAIN base = {"mode", "branches", "sinks", "manual_edges"}
      BY <2>1, <2>2
    <3>. QED
      BY <2>2, <3>1 DEF Overlaid, base
  <2>. HIDE DEF merged
  <2>. QED
    BY <2>1, <2>2, <2>3
<1>5. config = [DefaultExperiment EXCEPT
                  !.topology = [merged EXCEPT !.branches = SanitizeBranches(@, 100000)],
                  !.swarm = [drone_count |-> Len(PresetDrones),
                             relay_count |-> Len(PresetDrones) - Cardinality(standby),
                             standby_count |-> Cardinality(standby),
                             drones |-> PresetDrones]]
  BY DEF UpdatedTopology
<1>6. [merged EXCEPT !.branches = SanitizeBranches(@, 100000)]
        = [mode |-> mode, branches |-> rows, sinks |-> {Last(rows[1])}, manual_edges |-> <<>>]
  <2>. HIDE DEF merged
  <2>. QED
    BY <1>3, <1>4
<1>7. DOMAIN DefaultExperiment = Objects
  BY DefaultSections
<1>8. DefaultRelays - 0 = DefaultRelays
  OBVIOUS
<1>. HIDE DEF merged, standby, config, topology
<1>9. config = [DefaultExperiment EXCEPT
                  !.topology = [mode |-> mode, branches |-> rows, sinks |-> {Last(rows[1])},
                                manual_edges |-> <<>>],
                  !.swarm = [drone_count |-> DefaultRelays, relay_count |-> DefaultRelays,
                             standby_count |-> 0, drones |-> PresetDrones]]
  <2>. DEFINE shown == [merged EXCEPT !.branches = SanitizeBranches(@, 100000)]
              swarm == [drone_count |-> Len(PresetDrones),
                        relay_count |-> Len(PresetDrones) - Cardinality(standby),
                        standby_count |-> Cardinality(standby), drones |-> PresetDrones]
  <2>1. swarm = [drone_count |-> DefaultRelays, relay_count |-> DefaultRelays,
                 standby_count |-> 0, drones |-> PresetDrones]
    BY <1>2, <1>8
  <2>2. config = [DefaultExperiment EXCEPT !.topology = shown, !.swarm = swarm]
    BY <1>5
  <2>3. shown = [mode |-> mode, branches |-> rows, sinks |-> {Last(rows[1])},
                 manual_edges |-> <<>>]
    BY <1>6
  <2>. HIDE DEF shown, swarm
  <2>. QED
    BY <2>1, <2>2, <2>3
<1>10. DOMAIN config = Objects /\ config = [k \in Objects |-> config[k]]
  BY <1>7, <1>9
<1>11. /\ config.swarm = [drone_count |-> DefaultRelays, relay_count |-> DefaultRelays,
                         standby_count |-> 0, drones |-> PresetDrones]
       /\ config.topology = [mode |-> mode, branches |-> rows, sinks |-> {Last(rows[1])},
                            manual_edges |-> <<>>]
  BY <1>7, <1>9 DEF Objects
<1>12. /\ config.communication = DefaultExperiment.communication
       /\ config.antennas = DefaultExperiment.antennas
       /\ config.traffic = DefaultExperiment.traffic
  BY <1>7, <1>9 DEF Objects
<1>. QED
  BY <1>1, <1>10, <1>11, <1>12

\* It is a complete document, with no errors.
LEMMA PresetIsValid ==
  ASSUME DefaultRelays \in 2..512, NEW mode \in {"chain", "parallel", "forest"}, NEW count,
         NEW rows, rows = Preset(mode, DefaultRelays, count), OrderedRows(rows, DefaultRelays)
  PROVE  /\ DeepMerge(DefaultExperiment, PresetConfig(<<mode, count>>))
              = PresetConfig(<<mode, count>>)
         /\ Errors(PresetConfig(<<mode, count>>)) = {}
<1>. DEFINE config == PresetConfig(<<mode, count>>)
<1>1. /\ DOMAIN config = Objects /\ config = [k \in Objects |-> config[k]]
      /\ config.swarm = [drone_count |-> DefaultRelays, relay_count |-> DefaultRelays,
                         standby_count |-> 0, drones |-> PresetDrones]
      /\ config.topology = [mode |-> mode, branches |-> rows,
                            sinks |-> {Last(rows[1])}, manual_edges |-> <<>>]
      /\ config.communication = DefaultExperiment.communication
      /\ config.antennas = DefaultExperiment.antennas
      /\ config.traffic = DefaultExperiment.traffic
  BY PresetFields
<1>. HIDE DEF config
<1>2. DeepMerge(DefaultExperiment, config) = config
  <2>1. /\ DOMAIN DefaultExperiment = Objects
        /\ \A k \in Objects : IsObject(DefaultExperiment[k])
        /\ \A k \in Objects \ {"antennas"} : "assignments" \notin DOMAIN DefaultExperiment[k]
    BY DefaultSections
  <2>2. MergedSection(DefaultExperiment.swarm, config.swarm) = config.swarm
    <3>1. /\ DOMAIN DefaultExperiment.swarm \subseteq DOMAIN config.swarm
          /\ config.swarm = [k \in DOMAIN config.swarm |-> config.swarm[k]]
      BY <1>1 DEF DefaultExperiment
    <3>2. /\ IsObject(DefaultExperiment.swarm)
          /\ "assignments" \notin DOMAIN DefaultExperiment.swarm
      BY <2>1 DEF Objects
    <3>. QED
      BY ONLY <3>1, <3>2, CompleteSectionKept
  <2>3. MergedSection(DefaultExperiment.topology, config.topology) = config.topology
    <3>1. /\ DOMAIN DefaultExperiment.topology \subseteq DOMAIN config.topology
          /\ config.topology = [k \in DOMAIN config.topology |-> config.topology[k]]
      BY <1>1 DEF DefaultExperiment
    <3>2. /\ IsObject(DefaultExperiment.topology)
          /\ "assignments" \notin DOMAIN DefaultExperiment.topology
      BY <2>1 DEF Objects
    <3>. QED
      BY ONLY <3>1, <3>2, CompleteSectionKept
  <2>4. /\ MergedSection(DefaultExperiment.communication, config.communication)
             = config.communication
        /\ MergedSection(DefaultExperiment.antennas, config.antennas) = config.antennas
        /\ MergedSection(DefaultExperiment.traffic, config.traffic) = config.traffic
    <3>1. ASSUME NEW k \in Objects
          PROVE  MergedSection(DefaultExperiment[k], DefaultExperiment[k])
                   = DefaultExperiment[k]
      <4>. DEFINE section == DefaultExperiment[k]
      <4>1. IsObject(section)
        BY <2>1
      <4>. HIDE DEF section
      <4>2. section = [n \in DOMAIN section |-> section[n]]
        BY ONLY <4>1 DEF IsObject
      <4>3. MergedSection(section, section) = section
        BY ONLY <4>1, <4>2, CompleteSectionKept
      <4>. QED
        BY ONLY <4>3 DEF section
    <3>2. /\ config.communication = DefaultExperiment["communication"]
          /\ config.antennas = DefaultExperiment["antennas"]
          /\ config.traffic = DefaultExperiment["traffic"]
      BY <1>1
    <3>3. {"communication", "antennas", "traffic"} \subseteq Objects
      BY DEF Objects
    <3>. QED
      BY ONLY <3>1, <3>2, <3>3
  <2>5. \A k \in Objects : MergedSection(DefaultExperiment[k], config[k]) = config[k]
    BY <2>2, <2>3, <2>4 DEF Objects
  <2>. QED
    BY <1>1, <2>1, <2>5, CompleteDocumentKept
<1>3. CountErrors(config.swarm) = {}
  <2>4. DefaultRelays \in Nat
    OBVIOUS
  <2>1. /\ Len(PresetDrones) = DefaultRelays /\ DOMAIN PresetDrones = 1..DefaultRelays
        /\ \A i \in 1..DefaultRelays : PresetDrones[i].id = i
    BY <2>4, PresetDronesFacts
  <2>2. ~\E i, j \in DOMAIN PresetDrones : i < j /\ PresetDrones[i].id = PresetDrones[j].id
    BY <2>1
  <2>3. /\ DefaultRelays \in 1..512 /\ DefaultRelays \in 1..DefaultRelays
        /\ DefaultRelays + 0 = DefaultRelays
    OBVIOUS
  <2>. DEFINE swarm == config.swarm
  <2>5. /\ swarm.drone_count = DefaultRelays /\ swarm.relay_count = DefaultRelays
        /\ swarm.standby_count = 0 /\ swarm.drones = PresetDrones
    BY <1>1
  <2>. HIDE DEF swarm
  <2>6. CountErrors(swarm) = {}
    BY <2>1, <2>2, <2>3, <2>5 DEF CountErrors
  <2>. QED
    BY <2>6 DEF swarm
<1>4. config.topology.mode \in Modes /\ config.topology.mode # "manual"
  BY <1>1 DEF Modes
<1>5. BranchErrors(config.topology.branches, config.swarm.relay_count) = {}
  <2>1. /\ rows \in Seq(Seq(1..DefaultRelays)) /\ rows # <<>> /\ DOMAIN rows = 1..Len(rows)
        /\ \A k \in DOMAIN rows : rows[k] # <<>> /\ Increasing(rows[k], Len(rows[k]))
    <3>1. rows \in Seq(Seq(1..DefaultRelays)) /\ rows # <<>>
      BY DEF OrderedRows
    <3>2. DOMAIN rows = 1..Len(rows)
      BY <3>1
    <3>. QED
      BY <3>1, <3>2 DEF OrderedRows
  <2>2. ASSUME NEW k \in DOMAIN rows
        PROVE  Range(rows[k]) \subseteq 1..DefaultRelays /\ IsInjective(rows[k])
    <3>. DEFINE row == rows[k]
    <3>1. row \in Seq(1..DefaultRelays) /\ Increasing(row, Len(row))
      BY <2>1
    <3>. HIDE DEF row
    <3>2. /\ DOMAIN row = 1..Len(row) /\ Len(row) \in Nat
          /\ \A i \in 1..Len(row) : row[i] \in 1..DefaultRelays
      BY <3>1
    <3>3. ASSUME NEW i \in 1..Len(row), NEW j \in 1..Len(row), row[i] = row[j]
          PROVE  i = j
      <4>1. i < j \/ j < i \/ i = j
        OBVIOUS
      <4>2. row[i] \in Int /\ row[j] \in Int
        BY <3>2
      <4>. QED
        BY <3>1, <3>3, <4>1, <4>2 DEF Increasing
    <3>4. Range(row) \subseteq 1..DefaultRelays
      BY <3>2 DEF Range
    <3>. QED
      BY <3>2, <3>3, <3>4 DEF IsInjective, row
  <2>3. <<>> \notin Range(rows)
    BY <2>1 DEF Range
  <2>4. UNION {Range(rows[k]) : k \in DOMAIN rows} \subseteq 1..DefaultRelays
    BY <2>2
  <2>5. config.topology.branches = rows /\ config.swarm.relay_count = DefaultRelays
    BY <1>1
  <2>6. BranchErrors(rows, DefaultRelays) = {}
    BY <2>1, <2>2, <2>3, <2>4 DEF BranchErrors
  <2>. QED
    BY <2>5, <2>6
<1>6. CommunicationErrors(config.communication) = {}
  BY <1>1 DEF CommunicationErrors, DefaultExperiment, PropagationModels
<1>7. AntennaErrors(config.antennas) = {}
  <2>1. IsInjective(DefaultExperiment.antennas.definitions)
    BY ExperimentAssumption DEF DefaultExperiment, IsInjective
  <2>2. Range(DefaultExperiment.antennas.assignments)
          \subseteq Range(DefaultExperiment.antennas.definitions)
    <3>. DEFINE definitions == DefaultExperiment.antennas.definitions
    <3>1. definitions = <<GroundAntenna, UavAntenna>>
      BY DEF DefaultExperiment
    <3>2. GroundAntenna \in Range(definitions) /\ UavAntenna \in Range(definitions)
      <4>1. 1 \in DOMAIN definitions /\ 2 \in DOMAIN definitions
        BY <3>1
      <4>. HIDE DEF definitions
      <4>2. definitions[1] \in Range(definitions) /\ definitions[2] \in Range(definitions)
        BY <4>1 DEF Range
      <4>. QED
        BY <3>1, <4>2
    <3>3. DefaultExperiment.antennas.assignments
            = [e \in 0..DefaultTotal |-> IF e = 0 THEN GroundAntenna ELSE UavAntenna]
      BY DEF DefaultExperiment
    <3>. HIDE DEF definitions
    <3>. QED
      BY <3>2, <3>3 DEF Range, definitions
  <2>. QED
    BY <1>1, <2>1, <2>2 DEF AntennaErrors
<1>8. ~(config.traffic.flows = <<>> \/ ~IsInjective(config.traffic.flows))
  <2>1. config.traffic.flows = <<1>>
    BY <1>1 DEF DefaultExperiment
  <2>. QED
    BY <2>1 DEF IsInjective
<1>9. Errors(config) = {}
  BY <1>3, <1>4, <1>5, <1>6, <1>7, <1>8 DEF Errors
<1>. QED
  BY <1>2, <1>9 DEF config

\* What the validation reads of it.
LEMMA PresetTopology ==
  ASSUME DefaultRelays \in 2..512, NEW mode \in {"chain", "parallel", "forest"}, NEW count,
         NEW rows, rows = Preset(mode, DefaultRelays, count), OrderedRows(rows, DefaultRelays)
  PROVE  LET config == PresetConfig(<<mode, count>>)
         IN /\ NodesOf(config) = 0..DefaultRelays
            /\ config.topology.mode \in Modes /\ ModeOf(config) = mode
            /\ BranchesOf(config) = rows
            /\ EdgesOf(config) = BranchesToEdges(rows)
            /\ SinksOf(config) = {Last(rows[1])}
            /\ FailedOf(config) = {}
            /\ config.swarm.drones = PresetDrones
<1>. DEFINE config == PresetConfig(<<mode, count>>)
<1>1. /\ DOMAIN config = Objects /\ config = [k \in Objects |-> config[k]]
      /\ config.swarm = [drone_count |-> DefaultRelays, relay_count |-> DefaultRelays,
                         standby_count |-> 0, drones |-> PresetDrones]
      /\ config.topology = [mode |-> mode, branches |-> rows,
                            sinks |-> {Last(rows[1])}, manual_edges |-> <<>>]
      /\ config.communication = DefaultExperiment.communication
      /\ config.antennas = DefaultExperiment.antennas
      /\ config.traffic = DefaultExperiment.traffic
  BY PresetFields
<1>. HIDE DEF config
<1>2. /\ config.swarm.relay_count = DefaultRelays /\ config.swarm.drones = PresetDrones
      /\ config.topology.mode = mode /\ config.topology.branches = rows
      /\ config.topology.sinks = {Last(rows[1])}
  BY <1>1
<1>3. NodesOf(config) = 0..DefaultRelays
  BY <1>2 DEF NodesOf, Source
<1>4. config.topology.mode \in Modes /\ ModeOf(config) = mode /\ mode # "manual"
  BY <1>2 DEF ModeOf, Modes
<1>5. BranchesOf(config) = rows
  <2>1. DefaultRelays \in Nat /\ DefaultRelays <= DefaultRelays
    OBVIOUS
  <2>. QED
    BY <1>2, <2>1, OrderedRowsKept DEF BranchesOf
<1>6. EdgesOf(config) = BranchesToEdges(rows)
  BY <1>4, <1>5 DEF EdgesOf
<1>7. SinksOf(config) = {Last(rows[1])}
  BY <1>2 DEF SinksOf
<1>8. FailedOf(config) = {}
  <2>1. DefaultRelays \in Nat
    OBVIOUS
  <2>2. \A i \in DOMAIN PresetDrones : ~PresetDrones[i].failed
    BY <2>1, PresetDronesFacts
  <2>. QED
    BY <1>2, <2>2 DEF FailedOf
<1>. QED
  BY <1>2, <1>3, <1>4, <1>5, <1>6, <1>7, <1>8 DEF config

\* The relay before the i-th of a row, or the station.
Before(row, i) == IF i = 1 THEN Source ELSE row[i - 1]

\* The edges of rows in order lead to relays with a higher number.
LEMMA RowEdges ==
  ASSUME NEW n \in Nat, NEW rows, OrderedRows(rows, n)
  PROVE  /\ \A at \in DOMAIN BranchesToEdges(rows) :
              \E k \in 1..Len(rows) : \E i \in 1..Len(rows[k]) :
                at = <<k, i>>
         /\ \A k \in 1..Len(rows) : \A i \in 1..Len(rows[k]) :
              /\ <<k, i>> \in DOMAIN BranchesToEdges(rows)
              /\ BranchesToEdges(rows)[<<k, i>>] = <<Before(rows[k], i), rows[k][i]>>
              /\ Before(rows[k], i) \in 0..n /\ rows[k][i] \in 1..n
              /\ Before(rows[k], i) < rows[k][i]
<1>. DEFINE D == UNION {{k} \X DOMAIN rows[k] : k \in DOMAIN rows}
            edges == BranchesToEdges(rows)
<1>1. rows \in Seq(Seq(1..n))
  BY DEF OrderedRows
<1>2. DOMAIN rows = 1..Len(rows) /\ \A k \in 1..Len(rows) : rows[k] \in Seq(1..n)
  BY <1>1
<1>3. \A k \in 1..Len(rows) : DOMAIN rows[k] = 1..Len(rows[k]) /\ Len(rows[k]) \in Nat
  BY <1>2
<1>4. edges = [at \in D |-> <<IF at[2] = 1 THEN Source ELSE rows[at[1]][at[2] - 1],
                              rows[at[1]][at[2]]>>]
  BY DEF BranchesToEdges
<1>. HIDE DEF edges
<1>5. ASSUME NEW at \in DOMAIN edges
      PROVE  \E k \in 1..Len(rows) : \E i \in 1..Len(rows[k]) : at = <<k, i>>
  <2>1. PICK k \in DOMAIN rows : at \in {k} \X DOMAIN rows[k]
    BY <1>4
  <2>2. at = <<k, at[2]>> /\ at[2] \in DOMAIN rows[k]
    BY <2>1
  <2>. QED
    BY <1>2, <1>3, <2>1, <2>2
<1>6. ASSUME NEW k \in 1..Len(rows), NEW i \in 1..Len(rows[k])
      PROVE  /\ <<k, i>> \in DOMAIN edges
             /\ edges[<<k, i>>] = <<Before(rows[k], i), rows[k][i]>>
             /\ Before(rows[k], i) \in 0..n /\ rows[k][i] \in 1..n
             /\ Before(rows[k], i) < rows[k][i]
  <2>1. <<k, i>> \in D
    <3>1. <<k, i>> \in {k} \X DOMAIN rows[k]
      BY <1>3
    <3>. QED
      BY <1>2, <3>1
  <2>2. edges[<<k, i>>] = <<Before(rows[k], i), rows[k][i]>>
    <3>. HIDE DEF D
    <3>. QED
      BY <1>4, <2>1 DEF Before
  <2>. DEFINE row == rows[k]
  <2>3. row \in Seq(1..n) /\ Increasing(row, Len(row))
    BY <1>2 DEF OrderedRows
  <2>4. i \in 1..Len(row)
    OBVIOUS
  <2>. HIDE DEF row
  <2>5. Len(row) \in Nat /\ \A j \in 1..Len(row) : row[j] \in 1..n
    BY <2>3
  <2>6. Before(row, i) \in 0..n /\ row[i] \in 1..n /\ Before(row, i) < row[i]
    <3>1. CASE i = 1
      BY <2>4, <2>5, <3>1 DEF Before, Source
    <3>2. CASE i # 1
      <4>1. i - 1 \in 1..Len(row) /\ i - 1 < i
        BY <2>4, <2>5, <3>2
      <4>2. row[i - 1] < row[i] /\ row[i - 1] \in 1..n /\ row[i] \in 1..n
        BY <2>3, <2>4, <2>5, <4>1 DEF Increasing
      <4>. QED
        BY <3>2, <4>2 DEF Before
    <3>. QED
      BY <3>1, <3>2
  <2>. QED
    BY <1>4, <2>1, <2>2, <2>6 DEF row
<1>. QED
  BY <1>5, <1>6 DEF edges

\* A topology without any of the conditions of validate_topology has no errors.
LEMMA NoStructuralErrors ==
  ASSUME NEW config, NEW order,
         config.topology.mode \in Modes,
         BranchesOf(config) # <<>>,
         IsInjective(EdgesOf(config)),
         \A i \in DOMAIN EdgesOf(config) : EdgesOf(config)[i][1] # EdgesOf(config)[i][2],
         Ends(EdgesOf(config)) \subseteq NodesOf(config),
         ~HasCycle(Adjacency(NodesOf(config), EdgesOf(config), TRUE), order),
         SinksOf(config) \subseteq
           Reached(Adjacency(NodesOf(config), EdgesOf(config), TRUE), order, Source),
         Ends(EdgesOf(config)) \intersect FailedOf(config) = {}
  PROVE  StructuralErrors(config, order) = {}
<1>1. "INVALID_MODE" \notin StructuralErrors(config, order)
  BY DEF StructuralErrors
<1>2. "NO_BRANCHES" \notin StructuralErrors(config, order)
  BY DEF StructuralErrors
<1>3. "DUPLICATE_EDGES" \notin StructuralErrors(config, order)
  BY DEF StructuralErrors
<1>4. "SELF_LOOP" \notin StructuralErrors(config, order)
  BY DEF StructuralErrors
<1>5. "MISSING_ENDPOINT" \notin StructuralErrors(config, order)
  BY DEF StructuralErrors
<1>6. "CYCLE_NOT_ALLOWED" \notin StructuralErrors(config, order)
  BY DEF StructuralErrors
<1>7. "UNREACHABLE_SINK" \notin StructuralErrors(config, order)
  BY DEF StructuralErrors
<1>8. "FAILED_NODE_IN_ACTIVE_ROUTE" \notin StructuralErrors(config, order)
  BY DEF StructuralErrors
<1>9. StructuralErrors(config, order) \subseteq
        {"INVALID_MODE", "NO_BRANCHES", "DUPLICATE_EDGES", "MISSING_ENDPOINT", "SELF_LOOP",
         "CYCLE_NOT_ALLOWED", "UNREACHABLE_SINK", "FAILED_NODE_IN_ACTIVE_ROUTE"}
  BY DEF StructuralErrors
<1>. QED
  BY <1>1, <1>2, <1>3, <1>4, <1>5, <1>6, <1>7, <1>8, <1>9

\* What a preset that is checked consists of: the rows it plans are rising and share no drone.
DisjointRows(mode, count, rows) ==
  /\ mode \in {"chain", "parallel", "forest"}
  /\ rows = Preset(mode, DefaultRelays, count)
  /\ OrderedRows(rows, DefaultRelays)
  /\ \A k, l \in 1..Len(rows) : k # l => Range(rows[k]) \intersect Range(rows[l]) = {}

\* Rows in order that share no relay make a topology without structural errors.
LEMMA PresetIsSound ==
  ASSUME DefaultRelays \in 2..512, NEW mode, NEW count, NEW rows, DisjointRows(mode, count, rows),
         NEW order \in Seq(Nat), 0..DefaultRelays \subseteq Range(order)
  PROVE  StructuralErrors(PresetConfig(<<mode, count>>), order) = {}
<1>. /\ mode \in {"chain", "parallel", "forest"}
     /\ rows = Preset(mode, DefaultRelays, count)
     /\ OrderedRows(rows, DefaultRelays)
     /\ \A k, l \in 1..Len(rows) : k # l => Range(rows[k]) \intersect Range(rows[l]) = {}
  BY DEF DisjointRows
<1>. DEFINE config == PresetConfig(<<mode, count>>)
            R == DefaultRelays
            edges == BranchesToEdges(rows)
            N == NodesOf(config) \union Ends(EdgesOf(config))
            graph == Adjacency(NodesOf(config), EdgesOf(config), TRUE)
<1>1. /\ NodesOf(config) = 0..R
      /\ config.topology.mode \in Modes
      /\ BranchesOf(config) = rows
      /\ EdgesOf(config) = edges
      /\ SinksOf(config) = {Last(rows[1])}
      /\ FailedOf(config) = {}
  BY PresetTopology
<1>2. R \in Nat /\ R >= 2
  OBVIOUS
<1>3. /\ rows \in Seq(Seq(1..R)) /\ rows # <<>> /\ Len(rows) \in Nat
      /\ \A k \in 1..Len(rows) : /\ rows[k] \in Seq(1..R) /\ rows[k] # <<>>
                                 /\ Increasing(rows[k], Len(rows[k]))
  <2>1. rows \in Seq(Seq(1..R)) /\ rows # <<>>
    BY DEF OrderedRows
  <2>2. Len(rows) \in Nat /\ \A k \in 1..Len(rows) : rows[k] \in Seq(1..R)
    BY <2>1
  <2>. QED
    BY <2>1, <2>2 DEF OrderedRows
<1>. HIDE DEF config, R, edges, graph
<1>4. /\ \A at \in DOMAIN edges : \E k \in 1..Len(rows) : \E i \in 1..Len(rows[k]) : at = <<k, i>>
      /\ \A k \in 1..Len(rows) : \A i \in 1..Len(rows[k]) :
           /\ <<k, i>> \in DOMAIN edges
           /\ edges[<<k, i>>] = <<Before(rows[k], i), rows[k][i]>>
           /\ Before(rows[k], i) \in 0..R /\ rows[k][i] \in 1..R
           /\ Before(rows[k], i) < rows[k][i]
  <2>1. OrderedRows(rows, R)
    BY DEF R
  <2>. QED
    BY ONLY <1>2, <2>1, RowEdges DEF edges
<1>5. \A at \in DOMAIN edges :
        edges[at][1] \in 0..R /\ edges[at][2] \in 0..R /\ edges[at][1] < edges[at][2]
  <2>. SUFFICES ASSUME NEW at \in DOMAIN edges
                PROVE  edges[at][1] \in 0..R /\ edges[at][2] \in 0..R /\ edges[at][1] < edges[at][2]
    OBVIOUS
  <2>1. PICK k \in 1..Len(rows) : \E i \in 1..Len(rows[k]) : at = <<k, i>>
    BY <1>4
  <2>2. PICK i \in 1..Len(rows[k]) : at = <<k, i>>
    BY <2>1
  <2>3. /\ edges[at] = <<Before(rows[k], i), rows[k][i]>>
        /\ Before(rows[k], i) \in 0..R /\ rows[k][i] \in 1..R
        /\ Before(rows[k], i) < rows[k][i]
    BY <1>4, <2>2
  <2>4. edges[at][1] = Before(rows[k], i) /\ edges[at][2] = rows[k][i]
    BY <2>3
  <2>. QED
    BY <1>2, <2>3, <2>4
<1>6. Ends(edges) \subseteq 0..R
  BY <1>5 DEF Ends
<1>7. IsInjective(edges)
  <2>. SUFFICES ASSUME NEW a \in DOMAIN edges, NEW b \in DOMAIN edges, edges[a] = edges[b]
                PROVE  a = b
    BY DEF IsInjective
  <2>1. PICK k \in 1..Len(rows) : \E i \in 1..Len(rows[k]) : a = <<k, i>>
    BY <1>4
  <2>2. PICK i \in 1..Len(rows[k]) : a = <<k, i>>
    BY <2>1
  <2>3. PICK l \in 1..Len(rows) : \E j \in 1..Len(rows[l]) : b = <<l, j>>
    BY <1>4
  <2>4. PICK j \in 1..Len(rows[l]) : b = <<l, j>>
    BY <2>3
  <2>5. rows[k][i] = rows[l][j] /\ rows[k][i] \in 1..R
    <3>1. \A n \in 1..Len(rows) : \A x \in 1..Len(rows[n]) :
            edges[<<n, x>>] = <<Before(rows[n], x), rows[n][x]>> /\ rows[n][x] \in 1..R
      BY ONLY <1>4
    <3>2. edges[a] = <<Before(rows[k], i), rows[k][i]>> /\ rows[k][i] \in 1..R
      BY <2>2, <3>1
    <3>3. edges[b] = <<Before(rows[l], j), rows[l][j]>>
      BY <2>4, <3>1
    <3>4. edges[a][2] = rows[k][i]
      BY ONLY <3>2
    <3>5. edges[b][2] = rows[l][j]
      BY ONLY <3>3
    <3>. QED
      BY <3>2, <3>4, <3>5
  <2>6. k = l
    <3>1. DOMAIN rows[k] = 1..Len(rows[k]) /\ DOMAIN rows[l] = 1..Len(rows[l])
      <4>1. \A n \in 1..Len(rows) : rows[n] \in Seq(1..R)
        BY <1>3
      <4>2. rows[k] \in Seq(1..R) /\ rows[l] \in Seq(1..R)
        BY <4>1
      <4>. QED
        BY <4>2
    <3>2. rows[k][i] \in Range(rows[k]) /\ rows[l][j] \in Range(rows[l])
      <4>1. \A f, x : x \in DOMAIN f => f[x] \in Range(f)
        BY ONLY DEF Range
      <4>2. i \in DOMAIN rows[k] /\ j \in DOMAIN rows[l]
        BY <3>1
      <4>. QED
        BY ONLY <4>1, <4>2
    <3>. QED
      BY <2>5, <3>2
  <2>7. i = j
    <3>. DEFINE row == rows[k]
    <3>1. row \in Seq(1..R) /\ Increasing(row, Len(row))
      BY <1>3
    <3>2. i \in 1..Len(row) /\ j \in 1..Len(row) /\ row[i] = row[j] /\ row[i] \in 1..R
      BY <2>5, <2>6
    <3>. HIDE DEF row
    <3>3. Len(row) \in Nat
      BY <3>1
    <3>4. i < j \/ j < i \/ i = j
      BY <3>2, <3>3
    <3>5. row[i] \in Int /\ row[j] \in Int
      BY <1>2, <3>2
    <3>. QED
      BY <3>1, <3>2, <3>4, <3>5 DEF Increasing
  <2>. QED
    BY <2>2, <2>4, <2>6, <2>7
<1>8. /\ N = 0..R /\ Source \in N
      /\ graph = [n \in 0..R |-> {m \in 0..R : \E at \in DOMAIN edges : edges[at] = <<n, m>>}]
  <2>1. 0..R \union Ends(edges) = 0..R
    BY <1>6
  <2>2. N = 0..R
    BY <1>1, <2>1
  <2>3. Source \in 0..R
    BY <1>2 DEF Source
  <2>. QED
    BY <1>1, <2>1, <2>2, <2>3 DEF graph, Adjacency
<1>. HIDE DEF N
<1>9. IsGraph(graph, N) /\ Enumerates(order, N)
  <2>1. IsFiniteSet(0..R)
    BY <1>2, FS_Interval
  <2>. QED
    BY <1>8, <2>1 DEF IsGraph, Enumerates, R
<1>10. \A n \in N : \A m \in graph[n] : n \in Int /\ m \in N /\ m \in Int /\ n < m
  <2>. SUFFICES ASSUME NEW n \in N, NEW m \in graph[n]
                PROVE  n \in Int /\ m \in N /\ m \in Int /\ n < m
    OBVIOUS
  <2>1. m \in 0..R /\ n \in 0..R
    BY <1>8
  <2>2. PICK at \in DOMAIN edges : edges[at] = <<n, m>>
    BY <1>8, <2>1
  <2>3. edges[at][1] = n /\ edges[at][2] = m
    BY <2>2
  <2>4. n < m
    BY <1>5, <2>3
  <2>. QED
    BY <1>2, <1>8, <2>1, <2>4
<1>11. ~HasCycle(graph, order)
  <2>1. ASSUME NEW n \in N, NEW m \in graph[n], ClosesCycle(graph, N, n, m)
        PROVE  FALSE
    <3>. DEFINE C == {x \in N : x >= m}
    <3>1. m \in C /\ n \notin C
      BY <1>10
    <3>2. ASSUME NEW x \in C, NEW y \in graph[x]
          PROVE  y \in C
      <4>1. x \in N /\ x >= m /\ x \in Int /\ y \in N /\ y \in Int /\ x < y /\ m \in Int
        BY <1>10
      <4>. QED
        BY <4>1
    <3>3. Closed(graph, C) /\ C \in SUBSET N
      BY <3>2 DEF Closed
    <3>. HIDE DEF C
    <3>. QED
      BY <2>1, <3>1, <3>3 DEF ClosesCycle
  <2>. QED
    BY <1>9, <2>1, HasCycleIsExact
<1>12. Last(rows[1]) \in Reached(graph, order, Source)
  <2>. DEFINE row == rows[1]
              C == Reached(graph, order, Source)
              out == {i \in 1..Len(row) : row[i] \notin C}
  <2>1. Source \in C /\ Closed(graph, C)
    BY <1>8, <1>9, ReachedIsClosed
  <2>2. 1 \in 1..Len(rows)
    BY <1>3
  <2>3. row \in Seq(1..R) /\ row # <<>>
    BY <1>3, <2>2
  <2>. HIDE DEF row, C
  <2>4. Len(row) \in Nat /\ Len(row) >= 1 /\ Last(row) = row[Len(row)]
    <3>1. Len(row) \in Nat /\ Len(row) > 0
      BY <2>3
    <3>. QED
      BY <3>1 DEF Last
  <2>5. ASSUME NEW i \in 1..Len(row), Before(row, i) \in C
        PROVE  row[i] \in C
    <3>1. /\ <<1, i>> \in DOMAIN edges /\ edges[<<1, i>>] = <<Before(row, i), row[i]>>
          /\ Before(row, i) \in 0..R /\ row[i] \in 1..R
      BY <1>4, <2>2 DEF row
    <3>2. row[i] \in 0..R
      BY <1>2, <3>1
    <3>3. row[i] \in graph[Before(row, i)]
      BY <1>8, <3>1, <3>2
    <3>. QED
      BY <2>1, <2>5, <3>3 DEF Closed
  <2>6. out = {}
    <3>. SUFFICES ASSUME out # {} PROVE FALSE
      OBVIOUS
    <3>1. PICK i \in out : \A j \in out : i <= j
      <4>1. out \in SUBSET Nat
        BY <2>4
      <4>. QED
        BY <4>1, LeastIndexExists
    <3>2. i \in 1..Len(row) /\ row[i] \notin C
      BY <3>1
    <3>3. CASE i = 1
      BY <2>1, <2>5, <3>2, <3>3 DEF Before
    <3>4. CASE i # 1
      <4>1. i - 1 \in 1..Len(row) /\ i - 1 \notin out
        BY <2>4, <3>1, <3>2, <3>4
      <4>2. Before(row, i) \in C
        BY <3>4, <4>1 DEF Before
      <4>. QED
        BY <2>5, <3>2, <4>2
    <3>. QED
      BY <3>3, <3>4
  <2>7. Len(row) \in 1..Len(row)
    BY <2>4
  <2>. QED
    BY <2>4, <2>6, <2>7 DEF row, C
<1>13. ~\E at \in DOMAIN edges : edges[at][1] = edges[at][2]
  <2>. SUFFICES ASSUME NEW at \in DOMAIN edges, edges[at][1] = edges[at][2]
                PROVE  FALSE
    OBVIOUS
  <2>1. edges[at][1] \in Int /\ edges[at][2] \in Int /\ edges[at][1] < edges[at][2]
    BY <1>2, <1>5
  <2>. QED
    BY <2>1
<1>14. config.topology.mode \in Modes
  BY <1>1
<1>15. BranchesOf(config) # <<>>
  BY <1>1, <1>3
<1>16. IsInjective(EdgesOf(config))
  BY <1>1, <1>7
<1>17. \A i \in DOMAIN EdgesOf(config) : EdgesOf(config)[i][1] # EdgesOf(config)[i][2]
  BY <1>1, <1>13
<1>18. Ends(EdgesOf(config)) \subseteq NodesOf(config)
  BY <1>1, <1>6
<1>19. ~HasCycle(Adjacency(NodesOf(config), EdgesOf(config), TRUE), order)
  BY <1>11 DEF graph
<1>20. SinksOf(config) \subseteq
         Reached(Adjacency(NodesOf(config), EdgesOf(config), TRUE), order, Source)
  BY <1>1, <1>12 DEF graph
<1>21. Ends(EdgesOf(config)) \intersect FailedOf(config) = {}
  BY <1>1
<1>22. StructuralErrors(config, order) = {}
  BY ONLY <1>14, <1>15, <1>16, <1>17, <1>18, <1>19, <1>20, <1>21, NoStructuralErrors
<1>. QED
  BY <1>22 DEF config

\* Its drones keep their distance and their altitude, so Mission Control accepts it.
LEMMA PresetIsAccepted ==
  ASSUME NEW mode \in {"chain", "parallel", "forest"}, NEW count,
         NEW rows, rows = Preset(mode, DefaultRelays, count), OrderedRows(rows, DefaultRelays),
         \A k, l \in 1..Len(rows) : k # l => Range(rows[k]) \intersect Range(rows[l]) = {},
         NEW order \in Orders
  PROVE  AcceptsTopology(PresetConfig(<<mode, count>>), order)
<1>. DEFINE config == PresetConfig(<<mode, count>>)
<1>1. /\ DefaultRelays \in 2..512 /\ MinSeparation \in 0..28
      /\ \A i \in 1..DefaultRelays : 28 * i \in Altitudes
      /\ order \in Seq(Nat) /\ 0..DefaultRelays \subseteq Range(order)
  BY PresetsAssumption
<1>2. DefaultRelays \in Nat /\ MinSeparation \in Int /\ MinSeparation <= 28
  BY <1>1
<1>3. StructuralErrors(config, order) = {}
  <2>1. order \in Seq(Nat) /\ 0..DefaultRelays \subseteq Range(order) /\ DefaultRelays \in 2..512
    BY <1>1
  <2>2. DisjointRows(mode, count, rows)
    BY DEF DisjointRows
  <2>. QED
    BY ONLY <2>1, <2>2, PresetIsSound
<1>4. Errors(config) = {}
  BY <1>1, PresetIsValid
<1>5. config.swarm.drones = PresetDrones
  BY <1>1, PresetTopology
<1>6. /\ DOMAIN PresetDrones = 1..DefaultRelays
      /\ \A i \in 1..DefaultRelays : PresetDrones[i].position = 28 * i
  BY <1>2, PresetDronesFacts
<1>. HIDE DEF config
<1>7. PhysicalErrors(config) = {}
  <2>1. \A i \in DOMAIN PresetDrones : PresetDrones[i].position \in Altitudes
    BY <1>1, <1>6
  <2>2. ASSUME NEW i \in DOMAIN PresetDrones, NEW j \in DOMAIN PresetDrones, i < j
        PROVE  ~(Gap(PresetDrones[i].position, PresetDrones[j].position) < MinSeparation)
    <3>1. /\ i \in Int /\ j \in Int /\ 28 * i \in Int /\ 28 * j \in Int
          /\ 28 * i < 28 * j /\ 28 * j - 28 * i >= 28
      BY <1>2, <1>6, <2>2
    <3>2. Gap(28 * i, 28 * j) = 28 * j - 28 * i
      BY <3>1 DEF Gap
    <3>. QED
      BY <1>2, <1>6, <3>1, <3>2
  <2>. QED
    BY <1>5, <2>1, <2>2 DEF PhysicalErrors
<1>. QED
  BY <1>3, <1>4, <1>7 DEF AcceptsTopology, ValidateConfigTopology, config

\* From the third branch on, a forest repeats the edge from the station to its first root.
LEMMA ForestIsRefused ==
  ASSUME NEW count \in Nat, count > 2, NEW order
  PROVE  ~AcceptsTopology(PresetConfig(<<"forest", count>>), order)
<1>. DEFINE config == PresetConfig(<<"forest", count>>)
            rows == Preset("forest", DefaultRelays, count)
            edges == BranchesToEdges(rows)
<1>1. DefaultRelays \in 2..512
  BY PresetsAssumption
<1>2. DefaultRelays \in Nat /\ DefaultRelays >= 2 /\ count \in Nat \ {0}
  BY <1>1
<1>3. /\ rows = [k \in 1..count |-> ForestRow(count, k)]
      /\ OrderedRows(rows, DefaultRelays)
      /\ \A k \in 1..count : ForestRow(count, k)[1] = 1 + ((k - 1) % 2)
  BY <1>2, ForestShape
<1>4. EdgesOf(config) = edges
  BY <1>1, <1>3, PresetTopology
<1>5. 1 \in 1..count /\ 3 \in 1..count /\ 1 + ((1 - 1) % 2) = 1 /\ 1 + ((3 - 1) % 2) = 1
  OBVIOUS
<1>. HIDE DEF config, rows, edges
<1>6. rows[1][1] = 1 /\ rows[3][1] = 1
  BY <1>3, <1>5
<1>7. 1 \in 1..Len(rows) /\ 3 \in 1..Len(rows)
  <2>1. rows \in Seq(Seq(1..DefaultRelays))
    BY <1>3 DEF OrderedRows
  <2>2. DOMAIN rows = 1..Len(rows)
    BY <2>1
  <2>. QED
    BY <1>3, <1>5, <2>2
<1>8. 1 \in 1..Len(rows[1]) /\ 1 \in 1..Len(rows[3])
  <2>1. \A k \in 1..Len(rows) : rows[k] \in Seq(1..DefaultRelays) /\ rows[k] # <<>>
    <3>1. rows \in Seq(Seq(1..DefaultRelays))
      BY <1>3 DEF OrderedRows
    <3>2. \A k \in 1..Len(rows) : rows[k] \in Seq(1..DefaultRelays)
      BY <3>1
    <3>. QED
      BY <1>3, <3>2 DEF OrderedRows
  <2>2. \A k \in 1..Len(rows) : 1 \in 1..Len(rows[k])
    BY <2>1
  <2>. QED
    BY <1>7, <2>2
<1>9. /\ <<1, 1>> \in DOMAIN edges /\ edges[<<1, 1>>] = <<Before(rows[1], 1), rows[1][1]>>
      /\ <<3, 1>> \in DOMAIN edges /\ edges[<<3, 1>>] = <<Before(rows[3], 1), rows[3][1]>>
  <2>1. OrderedRows(rows, DefaultRelays) /\ DefaultRelays \in Nat
    BY <1>2, <1>3
  <2>2. \A k \in 1..Len(rows) : \A i \in 1..Len(rows[k]) :
          /\ <<k, i>> \in DOMAIN edges
          /\ edges[<<k, i>>] = <<Before(rows[k], i), rows[k][i]>>
          /\ Before(rows[k], i) \in 0..DefaultRelays /\ rows[k][i] \in 1..DefaultRelays
          /\ Before(rows[k], i) < rows[k][i]
    BY ONLY <2>1, RowEdges DEF edges
  <2>. QED
    BY <1>7, <1>8, <2>2
<1>10. edges[<<1, 1>>] = edges[<<3, 1>>]
  BY <1>6, <1>9 DEF Before
<1>11. <<1, 1>> # <<3, 1>>
  OBVIOUS
<1>12. ~IsInjective(edges)
  BY <1>9, <1>10, <1>11 DEF IsInjective
<1>13. "DUPLICATE_EDGES" \in StructuralErrors(config, order)
  BY <1>4, <1>12, StructuralMeaning
<1>. QED
  BY <1>13 DEF AcceptsTopology, ValidateConfigTopology, config

\* The packet runtime deals its active relays as the preset did.
LEMMA PresetRuns ==
  ASSUME NEW mode \in {"chain", "parallel", "forest"}, NEW count,
         NEW m \in 1..DefaultRelays, mode = "chain" => m = 1,
         Preset(mode, DefaultRelays, count) = Hands(m)
  PROVE  RuntimeBranches(PresetConfig(<<mode, count>>)) = Hands(m)
<1>. DEFINE config == PresetConfig(<<mode, count>>)
            R == DefaultRelays
            envelope == EmitLegacyConfig(config)
            payload == RuntimePayload(envelope)
            s == Configured(payload)
<1>1. R \in 2..512
  BY PresetsAssumption
<1>2. R \in Nat /\ R >= 2 /\ m \in Nat /\ m >= 1 /\ m <= R
  BY <1>1
<1>3. OrderedRows(Hands(m), R) /\ Len(Hands(m)) = m
  BY <1>2, HandsAreOrdered
<1>. DEFINE rows == Hands(m)
<1>4. rows = Preset(mode, R, count) /\ OrderedRows(rows, R)
  BY <1>3
<1>. HIDE DEF rows
<1>5. /\ DOMAIN config = Objects /\ config = [k \in Objects |-> config[k]]
      /\ config.swarm = [drone_count |-> R, relay_count |-> R,
                         standby_count |-> 0, drones |-> PresetDrones]
      /\ config.topology = [mode |-> mode, branches |-> rows,
                            sinks |-> {Last(rows[1])}, manual_edges |-> <<>>]
      /\ config.communication = DefaultExperiment.communication
      /\ config.antennas = DefaultExperiment.antennas
      /\ config.traffic = DefaultExperiment.traffic
  BY <1>1, <1>4, PresetFields
<1>6. DeepMerge(DefaultExperiment, config) = config
  BY <1>1, <1>4, PresetIsValid
<1>. HIDE DEF config
<1>7. /\ config.swarm.drone_count = R /\ config.swarm.drones = PresetDrones
      /\ config.topology.mode = mode /\ config.topology.branches = Hands(m)
  BY <1>5 DEF rows
<1>8. /\ DOMAIN PresetDrones = 1..R
      /\ \A i \in 1..R : PresetDrones[i].role = "relay" /\ PresetDrones[i].failed = FALSE
  BY <1>2, PresetDronesFacts
<1>9. Migrated([kind |-> "versioned", body |-> config]) = config
  BY <1>6 DEF Migrated
<1>10. /\ envelope.drone_count = R /\ envelope.failed_indices = {}
      /\ envelope.drones = PresetDrones /\ envelope.transmission_mode = mode
      /\ envelope.manual_branches = Hands(m)
  <2>1. {i \in DOMAIN PresetDrones : PresetDrones[i].failed} = {}
    BY <1>8
  <2>. QED
    BY <1>7, <1>9, <2>1 DEF EmitLegacyConfig
<1>. HIDE DEF envelope
<1>11. payload = [count |-> R, failed |-> {}, standby |-> {}, mode |-> mode, rows |-> Hands(m)]
  <2>1. {i \in DOMAIN PresetDrones : PresetDrones[i].role = "standby"} = {}
    BY <1>8
  <2>. QED
    BY <1>10, <2>1 DEF RuntimePayload
<1>12. Cardinality(1..R) = R /\ InOrder(1..R) = Line(R)
  BY <1>2, IntervalInOrder
<1>13. payload.count = R /\ payload.failed = {} /\ payload.standby = {}
       /\ payload.mode = mode /\ payload.rows = Hands(m)
  BY <1>11
<1>. HIDE DEF payload
<1>14. AtLeast1(AtMost(m, R)) = m
  BY <1>2 DEF AtLeast1, AtMost
<1>15. /\ s.count = R /\ s.failed = {} /\ s.standby = {} /\ s.integrated = 1..R
       /\ s.mode = mode /\ s.branchCount = m
  <2>1. (1..R) \ {} = 1..R /\ (1..R) \ ({} \union {}) = 1..R
    OBVIOUS
  <2>2. AtLeast1(AtMost(Len(payload.rows), Cardinality((1..payload.count) \ payload.standby))) = m
    BY <1>3, <1>12, <1>13, <1>14, <2>1
  <2>. QED
    BY <1>13, <2>1, <2>2 DEF Configured
<1>. HIDE DEF s
<1>16. Active(s) = 1..R
  BY <1>15 DEF Active
<1>17. 1 \in 1..R
  BY <1>2
<1>18. CASE mode = "chain"
  <2>1. Branches(s) = <<Line(R)>>
    BY <1>12, <1>15, <1>16, <1>17, <1>18 DEF Branches
  <2>2. Hands(m) = <<Line(R)>>
    <3>1. Preset("chain", R, count) = <<Line(R)>>
      BY DEF Preset, Line
    <3>. QED
      BY <1>18, <3>1
  <2>. QED
    BY <2>1, <2>2 DEF RuntimeBranches, s, payload, envelope, config
<1>19. CASE mode # "chain"
  <2>1. mode # "manual"
    OBVIOUS
  <2>2. Branches(s) = Dealt(Line(R), m)
    BY <1>12, <1>14, <1>15, <1>16, <1>17, <1>19, <2>1 DEF Branches
  <2>3. Dealt(Line(R), m) = Hands(m)
    BY DEF Dealt, Hands, Hand
  <2>. QED
    BY <2>2, <2>3 DEF RuntimeBranches, s, payload, envelope, config
<1>. QED
  BY <1>18, <1>19

\* Whatever the number of relays of the reference experiment and of branches asked for,
\* Mission Control accepts the presets of Topology Studio but a forest of three branches
\* or more, and the packet runtime takes the branches that were shown, but for a forest
\* of one branch (validate_config_topology, server.py, snaas_relay_chain.py).
THEOREM PresetsRunAsShown == MissionSpec => []PresetsAreRunAsShown
<1>1. Answered => PresetsAreRunAsShown
  <2>. SUFFICES ASSUME Answered, request.type = "preset"
                PROVE  PresetsAreRunAsShown
    BY DEF PresetsAreRunAsShown
  <2>. DEFINE mode == request.preset[1]
              count == request.preset[2]
              R == DefaultRelays
              rows == Preset(mode, R, count)
              order == CHOOSE order \in Orders : TRUE
              hands == IF mode = "chain" THEN 1
                       ELSE IF mode = "parallel" THEN (IF count <= R THEN count ELSE R) ELSE 2
              accepted == AcceptsTopology(PresetConfig(<<mode, count>>), order)
              runs == RuntimeBranches(PresetConfig(<<mode, count>>))
  <2>1. /\ mode \in {"chain", "parallel", "forest"} /\ count \in Nat \ {0}
        /\ request.preset = <<mode, count>>
    BY HandlerOf, PresetsAssumption
  <2>2. answer.accepted = accepted /\ answer.runs = runs
    BY <2>1, HandlerOf
  <2>3. R \in 2..512 /\ order \in Orders
    BY PresetsAssumption
  <2>4. R \in Nat /\ R >= 2 /\ Min({2, R}) = 2
    BY <2>3 DEF Min
  <2>. HIDE DEF mode, count, order
  <2>5. ASSUME mode = "forest" => count = 2
        PROVE  accepted /\ runs = rows
    <3>1. hands \in 1..R /\ (mode = "chain" => hands = 1)
      BY <2>1, <2>4
    <3>2. rows = Hands(hands)
      <4>1. CASE mode = "chain"
        BY <2>1, <2>4, <4>1, ChainShape
      <4>2. CASE mode = "parallel"
        BY <2>1, <2>4, <4>2, ParallelShape
      <4>3. CASE mode = "forest"
        BY <2>1, <2>4, <2>5, <4>3, ForestShape
      <4>. QED
        BY <2>1, <4>1, <4>2, <4>3
    <3>. HIDE DEF hands
    <3>3. /\ OrderedRows(rows, R) /\ Len(rows) = hands
          /\ \A k, l \in 1..hands : k # l => Range(rows[k]) \intersect Range(rows[l]) = {}
      BY <2>4, <3>1, <3>2, HandsAreOrdered
    <3>4. accepted
      BY <2>1, <2>3, <3>3, PresetIsAccepted
    <3>5. runs = rows
      BY <2>1, <3>1, <3>2, PresetRuns
    <3>. QED
      BY <3>4, <3>5
  <2>6. ASSUME mode = "forest", count = 1
        PROVE  accepted
    <3>1. rows = [k \in 1..1 |-> ForestRow(1, k)] /\ OrderedRows(rows, R)
      BY <2>1, <2>4, <2>6, ForestShape
    <3>2. Len(rows) = 1
      BY <3>1
    <3>3. \A k, l \in 1..Len(rows) : k # l => Range(rows[k]) \intersect Range(rows[l]) = {}
      BY <3>2
    <3>. HIDE DEF rows
    <3>. QED
      BY <2>1, <2>3, <3>1, <3>3, PresetIsAccepted DEF rows
  <2>7. ASSUME mode = "forest", count # 1, count # 2
        PROVE  ~accepted /\ ~(count <= 2)
    <3>1. count \in Nat /\ count > 2
      BY <2>1, <2>7
    <3>. QED
      BY <2>7, <3>1, ForestIsRefused
  <2>8. /\ accepted <=> (mode = "forest" => count <= Min({2, R}))
        /\ accepted /\ ~(mode = "forest" /\ count = 1) => runs = rows
    <3>. HIDE DEF accepted, runs, rows
    <3>. QED
      BY <2>4, <2>5, <2>6, <2>7
  <2>. QED
    BY <2>2, <2>8 DEF PresetsAreRunAsShown, mode, count
<1>. QED
  BY <1>1, AnswersAnswer, PTL
=============================================================================
