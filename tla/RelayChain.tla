----------------------------- MODULE RelayChain -----------------------------
(***************************************************************************)
(* The ROS 2 packet runtime (node snaas_relay_chain): a packet travels     *)
(* from the ground station along the active relays and back, one hop per   *)
(* timer tick, and a hop is taken only when the link gate accepts it.      *)
(* Operators inject failures, heal drones, set them on standby, replace    *)
(* the configuration and hold or resume the mission meanwhile.             *)
(*                                                                         *)
(* The node runs one callback at a time, so each callback is one action.   *)
(* What it measures is chosen freely: the verdict of the gate for a hop,   *)
(* the distance of a standby drone, the expiry of the detection deadline.  *)
(* Positions, packet numbers, round-trip counts, event texts and movement  *)
(* patterns are left out; a trace keeps the hops and not their times.      *)
(***************************************************************************)
EXTENDS RelayInventory

CONSTANTS
  Configs,      \* configurations that may be published; one of them is loaded first
  MaxCommands   \* bound on the commands operators send

ASSUME RelayChainAssumption ==
  /\ MaxCommands \in Nat
  /\ \A c \in Configs :
       /\ c.count \in 1..MaxDrones
       /\ c.standby \subseteq 1..c.count
       /\ c.failed \subseteq 1..c.count
       /\ c.mode \in {"chain", "parallel", "forest", "manual"}
       /\ c.rows \in Seq(Seq(Int) \ {<<>>})

Station == 0
NoDrone == 0

-----------------------------------------------------------------------------
(* Packets: a cursor into the path of the phase, and the hops taken.         *)

NewPacket == [phase |-> "forward", cursor |-> 0, forward |-> <<>>, reverse |-> <<>>]

\* _chain_nodes and _branch_nodes.
Path(branch, phase) ==
  IF phase = "forward" THEN <<Station>> \o branch ELSE Reverse(branch) \o <<Station>>

Hop(branch, p) ==
  <<Path(branch, p.phase)[p.cursor + 1], Path(branch, p.phase)[p.cursor + 2]>>

AtEnd(branch, p) == p.cursor >= Len(Path(branch, p.phase)) - 1

\* At the far end the packet turns round; back at the station a new one starts.
Departing(branch, p) ==
  IF ~AtEnd(branch, p) THEN p
  ELSE IF p.phase = "forward" THEN [p EXCEPT !.phase = "reverse", !.cursor = 0]
  ELSE NewPacket

Forwarded(branch, p) ==
  [p EXCEPT !.cursor = @ + 1, ![p.phase] = Append(@, Hop(branch, p))]

-----------------------------------------------------------------------------
(* Traffic: the chain packet, and one flow per branch.                       *)

NewFlow(branch) == [branch |-> branch, packet |-> NewPacket, paused |-> FALSE]

\* Mutant of SyncedFlows: a flow whose branch has changed is kept.
StaleFlows(flows, s) ==
  [k \in DOMAIN Branches(s) |->
     IF k \in DOMAIN flows THEN flows[k] ELSE NewFlow(Branches(s)[k])]

\* _sync_branch_flow_state: a flow starts over when its branch has changed.
SyncedFlows(flows, s) ==
  [k \in DOMAIN Branches(s) |->
     IF k \in DOMAIN flows /\ flows[k].branch = Branches(s)[k]
       THEN flows[k] ELSE NewFlow(Branches(s)[k])]

\* What _recompute_desired_positions does to the traffic, with the pause that
\* _clear_connectivity_pause lifts.
Rerouted(t) ==
  [packet |-> NewPacket, branchIndex |-> 0, paused |-> FALSE,
   flows  |-> [k \in DOMAIN t.flows |-> [t.flows[k] EXCEPT !.paused = FALSE]]]

FlowStep(f, refused) ==
  LET p == Departing(f.branch, f.packet) IN
  IF refused THEN [f EXCEPT !.packet = p, !.paused = TRUE]
             ELSE [f EXCEPT !.packet = Forwarded(f.branch, p)]

\* Mutant of ParallelStep: one paused branch stops the others.
ParallelStepTogether(s, t, refused) ==
  LET flows == SyncedFlows(t.flows, s)
      next  == [k \in DOMAIN flows |->
                  IF \E j \in DOMAIN flows : flows[j].paused
                    THEN flows[k] ELSE FlowStep(flows[k], k \in refused)]
  IN [t EXCEPT !.flows = next, !.paused = \A k \in DOMAIN next : next[k].paused]

\* _tick_parallel: every flow that is not paused takes its own hop.  The status
\* fields show the last of them, with its cursor before the hop.
ParallelStep(s, t, refused) ==
  LET flows == SyncedFlows(t.flows, s)
      runs  == {k \in DOMAIN flows : ~flows[k].paused}
      next  == [k \in DOMAIN flows |->
                  IF k \in runs THEN FlowStep(flows[k], k \in refused) ELSE flows[k]]
      shown == [next[Max(runs)].packet EXCEPT !.cursor = IF Max(runs) \in refused THEN @ ELSE @ - 1]
  IN [flows       |-> next,
      paused      |-> runs \subseteq refused,
      packet      |-> IF runs = {} THEN t.packet ELSE shown,
      branchIndex |-> IF runs = {} THEN t.branchIndex ELSE Max(runs) - 1]

\* The rest of _tick outside parallel operation: nothing moves while the
\* connectivity latch is set or when no relay is active.
ChainStep(s, t, refused) ==
  LET all     == Branches(s)
      current == all[(t.branchIndex % Len(all)) + 1]
      home    == AtEnd(current, t.packet) /\ t.packet.phase = "reverse"
      index   == (t.branchIndex + (IF home THEN 1 ELSE 0)) % Len(all)
      branch  == all[index + 1]
      p       == Departing(current, t.packet)
  IN IF t.paused \/ all = <<>> THEN t
     ELSE IF 1 \in refused THEN [t EXCEPT !.packet = p, !.branchIndex = index, !.paused = TRUE]
     ELSE [t EXCEPT !.packet = Forwarded(branch, p), !.branchIndex = index]

-----------------------------------------------------------------------------
VARIABLES
  swarm,           \* inventory, roles, failures and topology settings
  pending,         \* pending_failure: the drone, or NoDrone
  traffic,         \* current packet and branch, the flows, connectivity_paused
  operatorPaused,  \* operator_paused
  version,         \* chain_version
  commands,        \* commands received so far (bounded by MaxCommands)
  injected         \* history: failures accepted and not healed or configured away

vars == <<swarm, pending, traffic, operatorPaused, version, commands, injected>>

Init ==
  /\ \E c \in Configs : swarm = Loaded(c)
  /\ pending = NoDrone
  /\ traffic = [packet |-> NewPacket, branchIndex |-> 0, paused |-> FALSE, flows |-> <<>>]
  /\ operatorPaused = FALSE
  /\ version = 1
  /\ commands = 0
  /\ injected = {}

-----------------------------------------------------------------------------
(* The timer tick.                                                           *)

\* _process_pending_failure: the drone fails and one standby takes its place.
FailedOver(s, d, replacement) ==
  [s EXCEPT !.failed = @ \union {d},
            !.standby = @ \ replacement,
            !.integrated = @ \union replacement]

Replacements(s, d) ==
  LET candidates == Standby([s EXCEPT !.failed = @ \union {d}])
  IN IF candidates = {} THEN {{}} ELSE {{c} : c \in candidates}

\* _integrate_standby_if_possible: any standby drones near an active one join.
Joined(s, near) ==
  [s EXCEPT !.standby = @ \ near, !.integrated = @ \union near]

Transmitted(s, t, refused) ==
  IF Parallel(s) THEN ParallelStep(s, t, refused) ELSE ChainStep(s, t, refused)

\* Mutant of Tick: an operator pause also suspends failure detection.
TickPausesDetection(due, refused) ==
  /\ ~operatorPaused
  /\ due => pending # NoDrone
  /\ LET failing == due /\ pending <= swarm.count IN
     \E replacement \in (IF failing THEN Replacements(swarm, pending) ELSE {{}}) :
       LET s1 == IF failing THEN FailedOver(swarm, pending, replacement) ELSE swarm IN
         /\ swarm' = s1
         /\ traffic' = Transmitted(s1, IF failing THEN Rerouted(traffic) ELSE traffic, refused)
         /\ version' = version + (IF failing THEN 1 ELSE 0)
  /\ pending' = IF due THEN NoDrone ELSE pending
  /\ UNCHANGED <<operatorPaused, commands, injected>>

\* _tick.  due: the detection deadline has passed; refused: the branches whose
\* next hop the gate refuses.
Tick(due, refused) ==
  /\ due => pending # NoDrone
  /\ LET failing == due /\ pending <= swarm.count IN
     \E replacement \in (IF failing THEN Replacements(swarm, pending) ELSE {{}}) :
       LET s1 == IF failing THEN FailedOver(swarm, pending, replacement) ELSE swarm IN
       \E near \in (IF Active(s1) = {} THEN {{}} ELSE SUBSET Standby(s1)) :
         LET s2 == Joined(s1, near)
             rerouted == failing \/ near # {}
             t == IF rerouted THEN Rerouted(traffic) ELSE traffic
         IN /\ swarm' = s2
            /\ traffic' = IF operatorPaused THEN t ELSE Transmitted(s2, t, refused)
            /\ version' = version + (IF failing THEN 1 ELSE 0) + (IF near # {} THEN 1 ELSE 0)
  /\ pending' = IF due THEN NoDrone ELSE pending
  /\ UNCHANGED <<operatorPaused, commands, injected>>

\* _publish_status: reading the flows for the status also synchronizes them.
PublishStatus ==
  /\ traffic' = [traffic EXCEPT !.flows = SyncedFlows(@, swarm)]
  /\ UNCHANGED <<swarm, pending, operatorPaused, version, commands, injected>>

-----------------------------------------------------------------------------
(* Commands.                                                                 *)

Command ==
  /\ commands < MaxCommands
  /\ commands' = commands + 1

Recompute ==
  /\ traffic' = Rerouted(traffic)
  /\ version' = version + 1

\* _fail_drone_cb: there is one pending failure, the last one requested.
FailDrone(d) ==
  /\ Command
  /\ d <= swarm.count
  /\ d \notin swarm.failed
  /\ d # pending
  /\ pending' = d
  /\ injected' = injected \union {d}
  /\ UNCHANGED <<swarm, traffic, operatorPaused, version>>

\* _heal_drone_cb.
HealDrone(d) ==
  /\ Command
  /\ d <= swarm.count
  /\ swarm' = [swarm EXCEPT !.failed = @ \ {d}, !.standby = @ \ {d},
                            !.integrated = @ \union {d}]
  /\ pending' = NoDrone
  /\ Recompute
  /\ injected' = injected \ {d}
  /\ UNCHANGED operatorPaused

\* Mutant of StandbyDrone: the packet in flight is kept.
StandbyDroneKeepsPacket(d) ==
  /\ Command
  /\ d <= swarm.count
  /\ swarm' = [swarm EXCEPT !.standby = @ \union {d}, !.integrated = @ \ {d}]
  /\ UNCHANGED <<pending, traffic, operatorPaused, version, injected>>

\* _standby_drone_cb.
StandbyDrone(d) ==
  /\ Command
  /\ d <= swarm.count
  /\ swarm' = [swarm EXCEPT !.standby = @ \union {d}, !.integrated = @ \ {d}]
  /\ Recompute
  /\ UNCHANGED <<pending, operatorPaused, injected>>

\* _reset_chain_cb.
ResetChain ==
  /\ Command
  /\ swarm' = [swarm EXCEPT !.failed = {},
                            !.integrated = @ \union ((1..swarm.count) \ swarm.standby)]
  /\ pending' = NoDrone
  /\ Recompute
  /\ injected' = {}
  /\ UNCHANGED operatorPaused

\* Mutant of UpdateConfig: a pending failure outlives its drone.
UpdateConfigKeepsPending(c) ==
  /\ Command
  /\ swarm' = Configured(c)
  /\ Recompute
  /\ injected' = {}
  /\ UNCHANGED <<pending, operatorPaused>>

\* _update_config_cb: the payload replaces roles and failures; a pending failure
\* is dropped only with its drone.
UpdateConfig(c) ==
  /\ Command
  /\ swarm' = Configured(c)
  /\ pending' = IF pending > c.count THEN NoDrone ELSE pending
  /\ Recompute
  /\ injected' = {}
  /\ UNCHANGED operatorPaused

\* Mutant of ResumeMission: resuming the mission lifts the connectivity pause.
ResumeMissionLiftsPause ==
  /\ Command
  /\ operatorPaused' = FALSE
  /\ traffic' = [traffic EXCEPT !.paused = FALSE]
  /\ UNCHANGED <<swarm, pending, version, injected>>

\* _mission_command_cb: resume and takeoff, and the commands that pause.
ResumeMission ==
  /\ Command
  /\ operatorPaused' = FALSE
  /\ UNCHANGED <<swarm, pending, traffic, version, injected>>

PauseMission ==
  /\ Command
  /\ operatorPaused' = TRUE
  /\ UNCHANGED <<swarm, pending, traffic, version, injected>>

-----------------------------------------------------------------------------
Ticks(due) == \E refused \in SUBSET (1..MaxDrones) : Tick(due, refused)

Next ==
  \/ \E due \in BOOLEAN : Ticks(due)
  \/ PublishStatus
  \/ \E d \in Drones : FailDrone(d) \/ HealDrone(d) \/ StandbyDrone(d)
  \/ \E c \in Configs : UpdateConfig(c)
  \/ ResetChain \/ ResumeMission \/ PauseMission

Spec == Init /\ [][Next]_vars

\* The hop timer keeps firing, and the deadline of a pending failure passes.
Fairness == WF_vars(Ticks(FALSE)) /\ WF_vars(Ticks(TRUE))

FairSpec == Spec /\ Fairness

-----------------------------------------------------------------------------
(* Properties.                                                               *)

Nodes == {Station} \union Drones
Phases == {"forward", "reverse"}

PacketTypeOK(p) ==
  /\ DOMAIN p = {"phase", "cursor", "forward", "reverse"}
  /\ p.phase \in Phases
  /\ p.cursor \in 0..MaxDrones
  /\ \A phase \in Phases :
       Len(p[phase]) <= MaxDrones /\ Range(p[phase]) \subseteq Nodes \X Nodes

\* Every part of the node's state has its type: cursors stay inside the longest
\* path, and a pending failure names a drone of the inventory.
TypeOK ==
  /\ swarm.count \in Drones
  /\ \A part \in {"failed", "standby", "integrated"} : swarm[part] \subseteq 1..swarm.count
  /\ swarm.branchCount \in Nat \ {0}
  /\ pending \in 0..swarm.count
  /\ PacketTypeOK(traffic.packet)
  /\ traffic.branchIndex \in 0..MaxDrones
  /\ traffic.paused \in BOOLEAN
  /\ \A k \in DOMAIN traffic.flows :
       /\ Range(traffic.flows[k].branch) \subseteq Drones
       /\ PacketTypeOK(traffic.flows[k].packet)
       /\ traffic.flows[k].paused \in BOOLEAN
  /\ operatorPaused \in BOOLEAN
  /\ version \in Nat \ {0}
  /\ commands \in 0..MaxCommands
  /\ injected \subseteq Drones

HopsOf(branch, phase) ==
  [i \in 1..(Len(Path(branch, phase)) - 1) |->
     <<Path(branch, phase)[i], Path(branch, phase)[i + 1]>>]

\* The traces of a packet are the hops of its branch up to the cursor.
FollowsBranch(p, branch) ==
  LET out == HopsOf(branch, "forward")
      back == HopsOf(branch, "reverse")
  IN IF p.phase = "forward"
       THEN p.cursor <= Len(out) /\ p.forward = SubSeq(out, 1, p.cursor) /\ p.reverse = <<>>
       ELSE p.cursor <= Len(back) /\ p.forward = out /\ p.reverse = SubSeq(back, 1, p.cursor)

\* Whatever fails, heals, joins or is reconfigured while a packet is under way, the
\* packet has passed exactly the hops of the branch that is active now, in order,
\* up to its cursor (_tick and _tick_parallel index the path with that cursor).
PacketFollowsItsBranch ==
  /\ ~Parallel(swarm) /\ Branches(swarm) # <<>> =>
       FollowsBranch(traffic.packet,
                     Branches(swarm)[(traffic.branchIndex % Len(Branches(swarm))) + 1])
  /\ \A k \in DOMAIN traffic.flows :
       FollowsBranch(traffic.flows[k].packet, traffic.flows[k].branch)

\* A packet is never handed to or taken from a drone that has failed, is on
\* standby or has left the inventory, even when that happened in the same tick.
LastHopActive(p) ==
  p.cursor > 0 => Range(Last(p[p.phase])) \subseteq Active(swarm) \union {Station}

ForwardsOverActiveDrones ==
  [][/\ ~Parallel(swarm') /\ traffic'.packet # traffic.packet => LastHopActive(traffic.packet)'
     /\ \A k \in DOMAIN traffic'.flows :
          k \in DOMAIN traffic.flows /\ traffic'.flows[k].packet # traffic.flows[k].packet
            => LastHopActive(traffic.flows[k].packet)']_vars

\* A refused hop keeps its cursor until the topology is recomputed: no command,
\* status report or tick of another branch moves or releases the packet; and an
\* operator pause stops the packet as well.
OutageRetainsCursor ==
  [][version' = version =>
       /\ traffic.paused /\ ~Parallel(swarm) => traffic'.paused
       /\ operatorPaused \/ (traffic.paused /\ ~Parallel(swarm)) =>
            traffic'.packet = traffic.packet
       /\ \A k \in DOMAIN traffic.flows : traffic.flows[k].paused =>
            k \in DOMAIN traffic'.flows /\ traffic'.flows[k] = traffic.flows[k]]_vars

\* An injected failure is detected (or withdrawn) even while the operator or an
\* outage has paused the packet.
PendingFailureIsSettled == pending # NoDrone ~> pending = NoDrone

\* In parallel operation an outage of one branch does not stop another: a flow on
\* its way out reaches the far end unless its own hop is refused.
Outbound(k) ==
  /\ Parallel(swarm) /\ ~operatorPaused
  /\ k \in DOMAIN traffic.flows
  /\ traffic.flows[k].packet.phase = "forward" /\ ~traffic.flows[k].paused

BranchesAreIndependent == \A k \in Drones : Outbound(k) ~> ~Outbound(k)

(* Statements of the documents that the code does not keep.                  *)

\* README(3).md: "A failed UAV is removed from the active topology".  An accepted
\* failure stays pending or takes effect until somebody heals that drone.
InjectedFailureTakesEffect == injected \subseteq swarm.failed \union {pending}
=============================================================================
