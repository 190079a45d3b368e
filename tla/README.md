# NETLAB swarm system: TLA+ specifications

This directory specifies the parts of NETLAB that decide something: which
configuration revision the runtime is on, where a packet is and which drones
carry it, what a running algorithm may move, what Mission Control says of the
stack and of a plan. TLC checks the specifications on small instances; TLAPS proves the
main results for every value of the constants. `PROJECT.json` lists the runs,
the source lines each definition models, the hazards, the mutants and the
theorems.

## 1. The system

NETLAB runs a UAV relay swarm as a set of containers driven from a host.

| part | state it keeps | operations |
| --- | --- | --- |
| revision manager (`netlab/revisions.py`) | one JSON record per revision; the desired- and committed-revision files | `create`, `mark_participant`, `commit`, `rollback`, `status` |
| runtime synchronizer (`netlab/synchronization.py`) | none of its own; request and signal files | `apply` (ROS 2, link service, Isaac in turn), `reconcile` |
| ROS revision agent (`Docker/workspace/ros2/netlab_revision_agent.py`) | pending and last revision, canonical acknowledgement file | a 0.25 s tick: read request, publish, look for the packet node's acknowledgement |
| ROS 2 packet runtime (`snaas_relay_chain.py`) | inventory, roles, failures, one pending failure, packet or branch flows, pauses, applied revision | hop timer, status timer, command subscriptions |
| link service (`sionna/realtime_link_server.py`) | active revision, acknowledgement file | `/config/apply`, link evaluation |
| Isaac bridge (`isaac/scripts/netlab_snaas_bridge.py`) | last applied revision, acknowledgement file | polling of the newest signal, scene verification |
| Mission Control (`apps/mission_control/backend/server.py`) | configuration lock, job table | save, topology and swarm updates, commands, jobs |
| orchestrator (`netlab/orchestrator.py`, `docker.py`, `bootstrap.py`) | containers, phase | start, stop, restart, synchronize, reconcile |
| state store (`netlab/state.py`, `io.py`) | `state.json`, commands, event log | update, commands, Isaac signals |
| packet state machine (`netlab/packet.py`) | branch streams, packets, numbers | `step`, `clear_outage`, `replace_route` |
| algorithm runtime (`netlab/algorithm_runtime.py`, `algorithm_worker.py`, `algorithm_bridge.py`) | selection file, packages, one worker process | activate, deactivate, invoke, publish an action |
| safety shield (`netlab/safety_shield.py`, `algorithm_contracts.py`) | none | judge one action against one observation |
| topology (`netlab/topology.py`) | none | branches, validation, graph analytics, link preview |
| link gate (`netlab/link.py`) | none | analytical link, ordered feasibility predicates |
| configuration (`netlab/config.py`) | the experiment file | defaults, migration, validation, flat aliases, load, save |
| diagnostics, telemetry, evidence, support | none | read-only reports |
| plugins, research tools, scene construction, frontend, scripts | none that decides | numerical, rendering, display and installation code |

How they interact. Mission Control's request threads, its four job threads and
command line processes call the same Python library and share JSON files; only
`save_config` takes a lock, inside one process. A revision goes out as a ROS
request file, an HTTP request to the link service and an Isaac signal file;
each participant answers in an acknowledgement file which the caller polls
until a deadline. The agent and the packet node talk over a volatile topic.
Operators' commands reach the packet node as messages, one callback at a time.

What is hard. Record files are read and rewritten without a lock; a timed-out
wait returns the newest acknowledgement of *some* revision; files outlive the
processes that wrote them; a published message may find no subscriber; scene
commands share the signal file with the revision protocol; the cursor of a
packet indexes a path that failures, promotions and commands recompute; a
single slot holds the failure that is waiting to be detected; the gate callback
may raise between two streams. Two processes rewrite one state file under locks
of their own; handlers load, change and save the configuration while others do;
waits race containers that break. An algorithm answers late, to a swarm that has
changed. Graph searches iterate over sets whose order differs from process to
process; documents are migrated several times. `PROJECT.json` lists each of
these at its line.

What makes each part correct:

* revision protocol: nothing is committed that some participant has not
  applied; IN_SYNC is not said of a participant that runs another revision; a request is
  answered eventually; locks are returned;
* packet runtime and packet state machine: a packet moves only over hops the
  gate accepted, between active drones, along the present route; an outage keeps
  the cursor; deliveries count once; branches are independent; failures are
  detected;
* orchestrator, Mission Control and state store: the state file claims nothing
  the revision store does not back; a stopped stack is not shown live; an
  acknowledged command was carried out; a saved edit stays; every operation ends;
* algorithm bridge and shield: what the shield accepts is safe; stale and late
  answers do no harm; a hung worker does not stop the bridge; the node follows
  the selection;
* topology and configuration: the analytics are the graph-theoretic ones; a
  topology called operational can carry packets; a preset runs as it is shown; an
  upgraded document keeps its content; the two gates agree.

## 2. Modules

| module | models |
| --- | --- |
| `RevisionCommit` | abstract: participants apply revisions; one is committed only when all applied it |
| `RevisionSync` | the file protocol: clients, records, synchronizer, agent, packet node, link service, bridge, crashes and restarts |
| `RevisionSyncProofs` | proofs about `RevisionSync` |
| `Selection` | the loops of both programs that walk through a list of relays and keep some; used by `RelayInventory` and `Topology` |
| `RelayInventory` | roles, branches and inventory of the packet node, used by `RelayChain` and `Planning` |
| `RelayInventoryProofs` | what the branches of any inventory are |
| `RelayChain` | the packet node: timer tick, flows, failures, standby promotion, commands |
| `RelayChainProofs` | proofs about `RelayChain`, on those of `RelayInventory` |
| `PacketRuntime` | the simulator-independent packet state machine |
| `PacketRuntimeProofs` | proofs about `PacketRuntime` |
| `LinkGate` | the analytical link, the link service's verdict, the packet node's own gate |
| `LinkGateProofs` | what the predicates decide; the two gates agree |
| `Topology` | graph analytics of `topology.py`, as the code computes them |
| `Experiment` | the experiment document: defaults, migration, validation, flat aliases |
| `Planning` | topology validation with its preview, Topology Studio's presets; extends the three above and `RelayInventory` |
| `Lifecycle` | start, stop, restart, synchronize, commands and saves of Mission Control and the command line, on the shared state and configuration files |
| `LifecycleProofs` | proofs about `Lifecycle` |
| `MissionControl` | `Lifecycle` composed with the planning requests of `Planning` |
| `MissionControlProofs` | proofs about the composition and about the answers of `Planning`, `Experiment` and `Topology` |
| `SafetyShield` | the decision of the shield on one action |
| `AlgorithmBridge` | packet node, bridge, worker and selection around the shield |
| `AlgorithmBridgeProofs` | what the shield guarantees of a plan it accepts, and proofs about `AlgorithmBridge` |
| `MCRevisionSync`, `MCRelayChain`, `MCPacketRuntime`, `MCMissionControl`, `MCAlgorithmBridge` | instances for TLC |

An operator whose comment begins "Mutant of" is a plausible defect of the
definition after it. It is part of no specification: it documents that the
property named in `PROJECT.json` would notice the defect.

### RevisionSync

A revision identifier stands for its candidate and its hashes, because every
participant echoes the hashes it was given and computes none. `record`,
`desired`, `committed` are the files of the revision manager; `client` holds
the program counter of every thread or process in an operation, the
acknowledgement it read and the copy of the record it will write. Every read
and every write of a shared file is a step of its own (`MarkRead`/`MarkWrite`,
`CommitRead`, `CommitWriteRecord`, `CommitWriteCommitted`,
`CommitWriteDesired`), so all interleavings of clients and a crash between any
two of them are explored. `AckTimeout` returns whatever was read last, as
`_wait_ack` does. `PostSionna` has three outcomes: applied and answered,
applied and answered too late, not reached. `AgentTick` is one whole tick;
publishing to a node that has not subscribed loses the message. Isaac's scene
verification is a free choice of `ready`. `WriteSyncSignal` is the signal that
scene commands send with a random revision. `applied` is a history variable:
what each participant really applied.

### RelayChain

The node executes one callback at a time, hence one action per callback:
`Tick` is the whole `_tick`, in the code's order (detect the pending failure and
promote a standby, integrate standbys in reach, then move the packet or every
flow). The verdicts of the gate, the distance of a standby and the expiry of the
detection deadline are chosen freely. `Active`, `Standby`, `Sanitized`,
`Branches` and `Configured` are the topology computations. A packet carries its
traces: the hops taken on the way out and back. Positions, movement patterns,
packet numbers and event texts are left out.

### PacketRuntime

`step` first supplies a packet to every stream and then asks the gate for one
stream after the other. The gate is a callback and can raise, which ends the
call with some streams moved and others not; the loops are therefore modelled
one stream at a time, with `call` as the loop's position, and `GateRaises` is an
action. The other operations need an idle runtime (there is one thread). A
delivered packet stays visible until the next call replaces it, so
`Departing` is the head of `step_stream`. `crossed` and `delivered` are history.

### Lifecycle

An operation of Mission Control or of the command line is a list of steps that
remain (`Program` gives it, `Recovery` what a failing step leaves of it); the
steps of overlapping operations interleave. `ReadState` and `WriteState` are the
two halves of `StateStore.update`: a lock keeps operations of one process apart,
not those of two. `Observe` is the check that makes a start idempotent,
`EnsureServiceStarted` keeps a running container and replaces any other,
`WaitEnds` and `WaitTimesOut` are the polling loops. `LoadConfig`, `LockConfig`,
`StoreConfig` and `UnlockConfig` show which handler holds the lock for what.
Containers break, messages to the packet node get lost, and the status file
outlives the node. `handled` and `latest` are history variables. How the
participants acknowledge a revision is `RevisionSync`'s subject; here applying
one succeeds or fails.

### MissionControl, Planning, Experiment, Topology, LinkGate

`MissionControl` adds the planning requests: `Serve` answers one with `Handle`.
Each answer is the code's algorithm, not its meaning: three-colour search for
cycles, low-link search for cut nodes, two sweeps for the diameter of a tree,
augmenting paths for disjoint routes, Brandes' accumulation for betweenness. The
properties state the meaning independently (reachability in closed sets, Menger's
cuts, counted geodesics). Sets are iterated in an order that is part of the
request, since Python's order differs from process to process. The loops of
`reachable` and `has_cycle` are iterated rounds (`Loop`, with `Visit` and
`VisitForCycle` as bodies; the stack holds the calls of `visit` that have not
returned), the other recursions are recursive functions, so that theorems can be
stated about all of it. `Experiment` abstracts a document to the fields other parts
read. In `LinkGate` powers are whole decibels and propagation is the constant `RxPower`.

### SafetyShield and AlgorithmBridge

A position is an altitude, the coordinate all of the shield's checks apply to.
The packet node's `Recompute` publishes an observation (typed mode), runs the
algorithm itself (direct mode) or calls a legacy module. The bridge takes one
observation at a time; between `Invoke` and `WorkerAnswers` everything else may
happen: configurations are saved, drones fail, another algorithm is selected, a
package becomes invalid. An algorithm may answer anything in `Proposals`. Topics
keep the last `Depth` messages. `last`, and the fields `observation`,
`shieldedWith`, `verdict` and `own` of an action, are history.

## 3. What is model-checked

Passing runs:

| run | instance | shows |
| --- | --- | --- |
| `revision_sync_single` | 1 client, 2 revisions, 3 operations or scene commands, revision 1 may be named | `TypeOK`, `InSyncMeansRunning`; the protocol implements `RevisionCommit` |
| `revision_sync_concurrent` | 2 symmetric clients, 2 revisions, 2 operations or scene commands | `CommittedWasApplied` under all interleavings of two transactions |
| `revision_sync_restarts` | 1 client, 2 operations or scene commands, 1 crash or restart, fair | `Evidence` (the inductive invariant), `CanonicalAckWasApplied`, `RequestIsAcknowledged`, `SaveLockIsReleased` |
| `relay_safety` | up to 3 drones, 3 commands, parallel, manual and chain | `TypeOK`, `PacketFollowsItsBranch`, `ForwardsOverActiveDrones`, `OutageRetainsCursor` |
| `relay_liveness` | 2 branches, 2 commands, fair | `PendingFailureIsSettled`, `BranchesAreIndependent` |
| `packet_transport` | 2 streams, routes of 1 and 2 hops, 5 packets | `TypeOK`, `DeliveredOnce`, `CursorFollowsGate`, `PausedMeansRefused`, `NumbersAreFresh` |
| `mission` | every planning request; 11 pairs of overlapping operations, 1 fault, 1 job thread, fair | `TypeOK`, `StateClaimsAreBacked`, `OfflineWhenStopped`, `MissionAckIsFresh`, `OperationsEnd`; `CutsAreExact`, `DiameterIsExact`, `DisjointPathsAreExact`, `BetweennessIsExact`, `CycleIsExact`, `OperationalIsRoutable`, `PresetsAreRunAsShown`, `UpgradeKeepsDocument`, `GatesAgree` |
| `algorithm` | 2 drones, 2 packages, 3 revisions, 8 kinds of answers, both modes, 3 events, fair | `TypeOK`, `AcceptedActionIsSafe`, `ShieldConfigIsCurrent`, `StaleActionIsDropped`, `LateActionSparesOthers`, `BridgeRecovers`, `NodeFollowsSelection` |

Why the bounds are enough to be interesting. Two revisions are what a stale
acknowledgement needs; two operations are a transaction and its retry or its
rival, a third one returns to the older revision after the newer is in sync; one
restart at any point separates the files from the processes. Three
drones make a two-relay chain with a spare, or two branches of different
length; three commands allow a failure, a second event inside the
detection delay and a reconfiguration. Five packets on two streams allow a
delivery, its successor and a reroute on each. In `mission`, a pair of
operations is what a lost update or an overtaken phase needs, one job thread makes
jobs queue, and one broken container can hit any step; the graphs are all graphs
on the station and three relays plus larger ones with a cycle and a tail, two
rings, crossing routes and a long tree. In `algorithm`, three events are a
selection, a change of the swarm and a command while an answer is outstanding; of
the three configurations one narrows the altitudes and puts a drone on standby
and one asks for connectivity with a drone at its reserve; a topic of one message
is the tightest the code's ten can be. The bounds `MaxRev`, `MaxOps`,
`MaxRestarts`, `MaxCommands`, `MaxPackets`, `MaxOperations`, `MaxFaults`,
`MaxEvents` appear only in guards of actions that start something. Deadlock is
checked in the runs of `RevisionSync`, `RelayChain` and `PacketRuntime`; the
operations of `Lifecycle` and the events of `AlgorithmBridge` may simply be over.

Fairness. `RevisionSync`: the agent's timer, the packet node's subscription and
callback, and the code of an operation once begun (its waits have deadlines).
Nobody has to begin an operation, Isaac need not become ready, nothing has to
restart. `RelayChain`: the hop timer fires and the deadline of a pending failure
passes; no command and no verdict of the gate is fair. `Lifecycle`: a thread
with a step to do takes it, and a wait ends at its deadline if not before; no
container has to become ready and no message has to arrive. `AlgorithmBridge`: the
node's tick looks at the selection file; the bridge's executor takes the next
observation, and a worker that does not answer is killed. No worker has to answer.

Runs that find a violation. Each states a sentence of the repository's
documents or comments that the code does not keep:

| run | sentence | what happens |
| --- | --- | --- |
| `revision_sync_desired_race` | reconnection "replays the latest desired revision" | a slow commit puts an older revision back |
| `relay_lost_failure` | "A failed UAV is removed from the active topology" | the one pending slot is overwritten or cleared |
| `saved_edit` | a saved edit "is durable" | a synchronization stores the configuration it read before the edit |
| `unshielded` | outputs "remain advisory until they pass the Safety and Feasibility Shield" | for an action the shield finds malformed the bridge sends the algorithm's own |

None of these breaks `CommittedWasApplied`: a stale acknowledgement is marked
with the revision it names, and `commit` compares that with its own.

Where a property holds but for a case, the case is in its statement and its
comment: `PresetsAreRunAsShown` leaves out a forest of one branch (the packet
node runs it through the relay it leaves out), `UpgradeKeepsDocument` flat
documents with antennas (migrating again restores the reference assignments),
`GatesAgree` a hop of exactly the outage distance (one gate compares strictly),
`OperationalIsRoutable` plans whose preview could not be computed (unknown counts
as operational), `StaleActionIsDropped` actions that name their own revision and
the unnamed first one. `InSyncMeansRunning` leaves out a packet node the agent
is still waiting for: status reads the acknowledgement the agent made canonical, so
while an older revision is being reconciled the packet node may run it already and
the newer one is still called IN_SYNC (three operations are needed to see it). It
also ends with the first crash or restart, since a service that comes back empty
leaves its acknowledgement file behind.

Visible in the models without a run: a wait that times out returns an older
acknowledgement, and the record then says `APPLIED_TO_...`; an agent restarted
with its files acknowledges from the previous run's; two starts can both pass the
idempotence check; a stop that overlaps a start may leave phase READY after the
containers are gone; failure, heal, standby and reset commands accept a status
from before they were sent; a late action or any recompute replaces the targets
of `hold` and `emergency_stop`, and takeoff retargets failed drones; legacy
strategy modules bypass the shield; `start_experiment` always fails at its last
step, after everything else has been done; a transaction the link service did not
answer can commit on the mark an earlier attempt left (`PostSionna` leaves the record
alone), and every recompute of the
relay chain lifts an outage before the new route has passed the gate
(`Rerouted`).

## 4. What is proved

`RevisionSyncProofs`, from `RevisionSyncAssumption` (positive bounds, operators
name existing revisions, the free lock has no holder), for any set of clients
and any bounds:

* `TypeCorrect`: `Spec => []TypeOK`;
* `EvidenceHolds`: `Spec => []Evidence`. `CommittedWasApplied` is not inductive:
  a client about to write the committed file acts on a record it read earlier,
  that record holds marks made from acknowledgements read earlier still.
  `Evidence` says of every place such evidence can be (acknowledgement files,
  records, a client's acknowledgement and copy) that an accepted acknowledgement
  or mark names a revision its participant has applied, and that a client past
  the re-check of `commit` holds three marks of its own revision. Since `applied`
  only grows, stale evidence stays true, which is the whole argument: lemma
  `SoundGrows`, then one step per action;
* `CommitIsSafe`, `CanonicalAckIsSafe`: the two invariants that follow;
* `AcksStayCurrent` and `StatusIsTrue`: `AcksAreCurrent`, `InSyncMeansRunning`. That
  a status is true needs two facts no single file shows: the acknowledgements on
  disk describe the services of now (`AcksAreCurrent`, which ends with the first
  restart), and the marks in the record are backed (`Evidence`), so that a
  participant with a mark has an acknowledgement. For the packet node the invariant
  follows the message: what is under way is what the agent waits for, or what it
  acknowledged last;
* `Implements`: every step is a step of `RevisionCommit` or leaves it unchanged.

`PacketRuntimeProofs`, from `PacketRuntimeAssumption` (at least one stream,
routes are sequences of at least two nodes), for any number of streams:

* `CursorCorrect`, `TypeCorrect`: `TypeOK` and `CursorFollowsGate` together. Neither
  is inductive alone: that the cursor stays inside the route needs "DELIVERED
  exactly at the end", which needs the type of the cursor;
* `DeliveryCorrect`, `FreshNumbers`: `DeliveredOnce`, with `NumbersAreFresh` as
  strengthening: counting a set needs the new element to be new, so no two packets,
  under way or delivered, may share a number, and in the hop loop every stream has
  a packet;
* `PauseCorrect`: `PausedMeansRefused`.

`RelayInventoryProofs`, from `MaxDronesAssumption` (at least one drone), about the
operators alone: `EveryActiveDroneIsOnOneBranch`. For every inventory, mode, branch
count and manual table, `Branches` shares the active drones out: each is on exactly
one branch, once, and no branch is empty. Dealing drones to branches in turn,
sanitizing manual rows and appending what they forget each have a lemma; where one
would reason by induction along a sequence the proofs take a least counterexample.
The proof found two guards of `Branches` that overlapped when no drone is active.

`RelayChainProofs`, from `MaxDronesAssumption` and `RelayChainAssumption`
(configurations name drones of their inventory, manual rows are not empty), for any
swarm, configurations and number of commands: `TypeCorrect`,
`PacketsFollowTheirBranches`, `OutagesRetainTheCursor`, `HopsJoinActiveDrones`. The
inductive invariant adds to the types that the chain's packet follows the branch its
index names *now*, and that a paused flow is on a branch of the *present* inventory:
`OutageRetainsCursor` compares two states, and a tick keeps a flow only if its branch
is still there. A command that changes the inventory must therefore also reroute,
which is what each command's step shows. Lemmas speak of one operation on the traffic
(`ParallelTraffic`, `ChainTraffic`, `ReroutedTraffic`, `TickTraffic`); `Advance` is
what all actions have in common, and the two action properties follow from it.

`LinkGateProofs`, from `LinkGateAssumption` (distances are naturals, powers
integers): `GatesAgreeOnPlainRequests`. For every propagation, model and limits, what
the link service answers is what the packet node's own gate decides. The
hypotheses are where the code's gates differ: ends that are up, thermal noise, no
degraded links allowed, an answered request, and not exactly the hard outage distance.

`AlgorithmBridgeProofs`, from `AlgorithmBridgeAssumption` (algorithms answer maps
of entities, legacy modules and external packages are algorithms, topics keep a
message): `TypeCorrect`, `AcceptedActionsAreSafe`, `ShieldConfigsAreCurrent`,
`StaleActionsAreDropped`, `LateActionsSpareOthers`. An action is judged when it is
made and applied much later, so the invariant carries the judgement (`Sound`)
with every action in a topic and in `last`; and the revision of the file is at least
that of every observation under way, in a topic, at the worker or in the node, which
is what makes a shield current although the configuration changes during the answer.
The module begins with the decision itself: `ShieldedPlanIsSafe`, from the assumptions
of `SafetyShield` (station and ghost are no drones), for every action, observation and
configuration. It needs no relation between the two altitude limits: when they cross,
the lower wins last. Connectivity is about a reachable set built round by round, so its
lemma goes through a least round.

`LifecycleProofs`, from `LifecycleAssumption` (command line processes run the
command line's operations, there is a job thread), for any workload and number of
faults: `TypeCorrect`, `ClaimsOfCommitmentAreBacked`, `StoppedStackIsOffline`,
`CompletedMissionsWereHandled`. Two things make the invariant: snapshots and
programs. Between `ReadState` and `WriteState` an operation holds a copy of the state
file that others overwrite and that will overwrite theirs, so every copy, not just the
file, must be `Good`. And an operation is a list of steps still to be done, so the
claim it will make is justified by the list: each step that claims commitment is
preceded by the commit of the same revision, or that commit lies behind
(`Justified`), and no commit comes before a revision is made (`Created`). That holds of
every `Program` and is kept by every `Recovery`. The theorems are about `FairSpec`.

`MissionControlProofs`, about the composition:

* `PlanningIsAStutter`: every behaviour of `MissionControl` is one of `Lifecycle`; a
  planning request changes none of its variables. `OperationsStaySafe`: hence the four
  invariants of the `mission` run that are about operations hold of the whole. The
  answers need no invariant but `Answered` (an answer is what the handler gives for
  the request), so each theorem below is about a handler;
* `GatesAlwaysAgree`, from `HopsAssumption` (what `_query_sionna` puts into a request):
  for every hop, model, fallback and distance but the outage distance itself;
* `UpgradesKeepDocuments`, from `DocumentsAssumption` (a document has one of the three
  forms) and `ExperimentAssumption`: for every document of any release, whatever
  fields it leaves out. Loading what was saved merges the defaults a second and a third
  time; that this changes nothing is `MergedTwice` for documents that were merged before,
  and `FlatIsComplete` for those migrated field by field, which have every field;
* `OperationalTopologiesAreRoutable`, from `ProposalsAssumption` (orders hold all nodes,
  relays have drones, edges are pairs) and `LimitsAssumption`: for graphs of any size
  and every order of iteration. `ReachedIsReachable` and `ReachedIsClosed` say that
  the search finds the least closed set: the loop keeps an invariant (`LoopPreserves`)
  and its bound is enough, since each round that changes anything makes a natural number
  smaller (`LoopEnds`);
* `CyclesAreFoundExactly`, from the same assumptions: `HasCycle` is TRUE exactly when a
  node is reachable from its own successor. The invariant is the classical one of
  the three colours (`Colouring`): gray nodes are the stack, each leads to the one above
  it, the neighbours a gray node has looked at are black or next on the stack, and no edge
  leaves the black nodes. That makes a positive answer right (`CycleFound`: the stack leads
  from a gray neighbour back to the top). A negative one needs the last part: for every
  black node there is a closed set of black nodes that holds its neighbours and not the
  node itself, namely those that were black before it (`FinishingColours`). `RoundsLeft`
  counts nodes to enter, edges to look at and calls to leave;
* `PresetsRunAsShown`, from `PresetsAssumption` (presets of at least one branch; a
  reference experiment of 2 to 512 relays, 28 apart in altitudes of the region, and a
  minimum separation of at most that): for any number of relays and branches. All presets
  that are run as shown deal the relays to rows (`ChainShape`, `ParallelShape`,
  `ForestShape`), also when fewer relays than branches leave rows empty. Rows in
  order that share no relay have no structural error (`PresetIsSound`: edges lead to
  higher numbers, so there is no cycle, and along a row to its last relay); the
  packet node deals its active relays the same way (`PresetRuns`); and the third
  branch of a forest repeats the first edge of the first (`ForestIsRefused`).

Only model-checked. Every liveness property (`RequestIsAcknowledged`,
`SaveLockIsReleased`, `PendingFailureIsSettled`, `BranchesAreIndependent`,
`OperationsEnd`, `BridgeRecovers`, `NodeFollowsSelection`): fairness and ENABLED are
beyond the prover. The four analytics `CutsAreExact`, `DiameterIsExact`,
`DisjointPathsAreExact`, `BetweennessIsExact`: what low-link search, two sweeps of
a tree, augmenting paths and Brandes' accumulation compute is defined by recursion over
the graph they walk, and to say that it is right for every graph takes induction over
that data, with theorems about trees, flows and cuts, for which the library has none and
the installed provers cannot use its induction rules. They are checked on every
graph with a station and three relays, and on larger ones chosen for them.

## 5. What is not modelled

The notes on the components in `PROJECT.json` give the reason part by part.
In short: rendering and scene construction, numerical research code and
plugins, display, installation scripts, read-only reports and the guided demo
keep no state of the system or only call what is modelled; radio arithmetic is
over reals. `rollback` cannot be reached (below), and nothing calls the older
`SynchronizationCoordinator`. Of the document, sections no modelled part reads
are left out. Horizontal coordinates, motion patterns and times are left out of
the swarm. What algorithms compute is left free.

Noticed while reading, outside the models: `RevisionManager.rollback` takes no
`reason` although `netlab/cli.py:154` and `server.py:1076` pass one;
`RuntimeSynchronizer.reconcile` takes no `timeout_s` although `server.py:1069`
passes one; `StateStore.update` takes no `command_id` although the success path
of Mission Control's experiment start passes one. Each call ends in a
`TypeError`.

## 6. Plan

1. `RevisionSync` with `RevisionCommit`: done, every safety property proved.
2. `RelayInventory` and `RelayChain`: done, every safety property proved.
3. `PacketRuntime`: done, every safety property proved. An abstract gated transport
   that both it and `RelayChain` implement is worth stating and proving.
4. `Lifecycle`: done, every safety property proved. `MissionControl`, with `LinkGate`,
   `Experiment`, `Planning` and `Topology`: done; every property proved but the
   four analytics, which would need a theory of graphs beside this one.
5. `SafetyShield` and `AlgorithmBridge`: done, every safety property proved.
