----------------------------- MODULE Lifecycle -----------------------------
(***************************************************************************)
(* Operations on the running system: the jobs and request handlers of      *)
(* Mission Control (apps/mission_control/backend/server.py), the           *)
(* orchestrator they call (netlab/orchestrator.py) and the state file they *)
(* share with the command line (netlab/state.py).                          *)
(*                                                                         *)
(* An operation is a list of steps still to do.  An update of the state    *)
(* file is two steps, a read and a write of the whole file, under a lock   *)
(* of one process; Mission Control and the command line are two processes. *)
(* Revisions are numbers; how participants acknowledge one is the subject  *)
(* of RevisionSync and here an outcome of the step that applies it.        *)
(***************************************************************************)
EXTENDS Integers, Sequences, FiniteSets

CONSTANTS
  Workloads,      \* sequences of operations to submit, each with its process
  MaxOperations,  \* the length of those sequences
  Workers,        \* threads of the job pool, 4 in the code
  MaxFaults       \* containers that break in a behaviour

Services == {"sionna", "ros", "isaac"}
Sections == {"swarm", "topology"}
Processes == {"server", "cli"}

StartKinds == {"start", "start_build", "restart"}
EditKinds == {"update_swarm", "update_topology", "save_config"}
NodeKinds == {"fail_uav", "heal_uav", "standby_uav", "reset_chain"}
JobKinds == StartKinds \union {"stop", "synchronize", "start_experiment"}
CommandLineKinds == JobKinds \union NodeKinds \union {"promote_standby", "recompute_topology"}
AllKinds == CommandLineKinds \union EditKinds \union {"hold", "stop_experiment"}

ASSUME LifecycleAssumption ==
  /\ MaxOperations \in Nat \ {0}
  /\ Workloads \subseteq [1..MaxOperations -> (AllKinds \X {"server"}) \union
                                               (CommandLineKinds \X {"cli"})]
  /\ Workers \in Nat \ {0}
  /\ MaxFaults \in Nat

Operations == 1..MaxOperations

VARIABLES
  state,       \* the state file
  op,          \* the operations
  containers,  \* what has become of each service's container
  fresh,       \* are the packet runtime's heartbeat and samples recent?
  revisions,   \* the configuration of every revision created
  desired, committed,  \* the desired revision, the committed ones
  applied,     \* the revision all three participants acknowledged last
  file,        \* the configuration file
  node,        \* what the packet runtime knows
  status,      \* its status file
  inbox,       \* messages published to it
  handled,     \* operations whose message it has handled
  latest,      \* who edited each section of the configuration last
  faults

runtime == <<containers, fresh, applied, node, status, inbox, handled, faults>>
records == <<revisions, desired, committed>>
vars == <<state, op, runtime, records, file, latest>>

-----------------------------------------------------------------------------
(* The steps of each operation.                                              *)

Update(name) == <<"update", name>>
Do(name) == <<"do", name>>
Await(name) == <<"await", name>>

WaitSteps(s) ==
  CASE s = "sionna" -> <<Update("WAITING_FOR_SIONNA"), Await("sionna")>>
    [] s = "ros" -> <<Update("WAITING_FOR_ROS_CONTAINER"), Await("ros_container"),
                      Update("WAITING_FOR_ROS_GRAPH"), Await("ros_graph"),
                      Update("WAITING_FOR_PACKET_RUNTIME"), Await("packet_runtime")>>
    [] s = "isaac" -> <<Update("WAITING_FOR_ISAAC_PROCESS"), Await("isaac_process"),
                        Update("WAITING_FOR_ISAAC_SCENE"), Await("isaac_scene")>>

ServiceSteps(s) == <<Update("STARTING_SERVICE"), <<"ensure", s>> >> \o WaitSteps(s)

BuildSteps == <<Update("BUILDING"), Do("build")>>

\* _apply_startup_revision
StartupRevisionSteps ==
  <<Do("create"), Update("PENDING"), Do("apply"), Do("commit"), Do("store")>>

StartSteps(build) ==
  <<Update("ACCEPTED"), Do("observe"), Update("PREFLIGHT"), Do("preflight"), Update("RUN")>>
  \o (IF build THEN BuildSteps ELSE <<>>)
  \o ServiceSteps("sionna") \o ServiceSteps("ros") \o ServiceSteps("isaac")
  \o <<Update("SYNCHRONIZING")>> \o StartupRevisionSteps
  \o <<Update("SMOKE_TESTING"), Await("live_telemetry"), Update("READY")>>

StopSteps == <<Update("ACCEPTED"), Update("STOPPING"), Do("down"), Update("STOPPED")>>

\* Mutant of SaveSteps: the state says COMMITTED before the revision is.
EagerSaveSteps ==
  <<Do("lock"), Do("store"), Do("create"), Update("PENDING"), Do("participants_live"),
    Do("apply"), Update("COMMITTED"), Do("commit"), Do("unlock")>>

\* save_config
SaveSteps ==
  <<Do("lock"), Do("store"), Do("create"), Update("PENDING"), Do("participants_live"),
    Do("apply"), Do("commit"), Update("COMMITTED"), Do("unlock")>>

ReconcileSteps == <<Do("apply"), Do("commit"), Do("store"), Update("RECONCILED")>>

\* A command to the packet runtime; the scene signal some of them write as well is
\* in RevisionSync.
CommandSteps(kind) == <<Update("ACCEPTED"), Do("publish"), Await(kind)>>

\* The last step of start_experiment passes a keyword update does not have.
StartExperimentSteps ==
  <<Update("ACCEPTED"), Do("load"), Do("packet_ready"), Update("RUN"), Do("publish"),
    Update("ACCEPTED"), Do("choose"), Do("raise")>>

Program(kind) ==
  CASE kind = "start" -> StartSteps(FALSE)
    [] kind = "start_build" -> StartSteps(TRUE)
    [] kind = "stop" -> StopSteps
    [] kind = "restart" -> StopSteps \o StartSteps(FALSE)
    [] kind = "synchronize" -> <<Update("ACCEPTED"), Do("choose")>>
    [] kind = "start_experiment" -> StartExperimentSteps
    [] kind \in NodeKinds \union {"hold"} -> CommandSteps(kind)
    [] kind = "stop_experiment" -> CommandSteps(kind) \o <<Update("COMPLETED")>>
    [] kind = "recompute_topology" ->
         <<Update("ACCEPTED"), Do("load"), Do("before"), Do("publish"), Await(kind)>>
    [] kind = "promote_standby" -> <<Update("ACCEPTED"), Do("load")>> \o SaveSteps \o <<Await(kind)>>
    [] kind = "save_config" -> <<Update("ACCEPTED"), Do("load")>> \o SaveSteps
    [] OTHER -> <<Do("load")>> \o SaveSteps

\* What remains to be done when a step fails, and whether the operation has failed.
Recovery(kind, name) ==
  CASE name = "down" -> <<>>
    [] kind \in StartKinds -> <<Update("FAILED")>>
    [] kind = "start_experiment" /\ name \in {"publish", "apply"} -> <<Update("DEGRADED")>>
    [] name \in {"participants_live", "apply"} /\ kind \notin {"synchronize", "start_experiment"} ->
         <<Do("unlock")>>
    [] OTHER -> <<>>

\* A configuration that was saved but not applied is reported as saved.
Verdict(kind, name) ==
  IF kind \in EditKinds /\ name \in {"participants_live", "apply"} THEN "COMPLETED" ELSE "FAILED"

-----------------------------------------------------------------------------
Sections0 == [s \in Sections |-> 0]

NewNode == [version |-> 1, last |-> 0, failed |-> FALSE, standby |-> FALSE]

Idle(kind, process) ==
        [kind |-> kind, process |-> process, status |-> "NONE", verdict |-> "COMPLETED",
         todo |-> <<>>, snapshot |-> <<>>, config |-> Sections0, revision |-> 0,
         lock |-> FALSE, before |-> 0]

\* Nothing has been started yet, or the stack runs the configuration in the file.
InitStopped ==
  /\ state = [phase |-> "STOPPED", telemetry |-> "OFFLINE", run |-> 0,
              desired |-> 0, committed |-> 0, sync |-> "NO_REVISION"]
  /\ containers = [s \in Services |-> "absent"]
  /\ fresh = FALSE
  /\ revisions = <<>>
  /\ desired = 0
  /\ committed = {}
  /\ applied = 0

InitStarted ==
  /\ state = [phase |-> "READY", telemetry |-> "LIVE", run |-> 0,
              desired |-> 1, committed |-> 1, sync |-> "IN_SYNC"]
  /\ containers = [s \in Services |-> "ready"]
  /\ fresh = TRUE
  /\ revisions = <<Sections0>>
  /\ desired = 1
  /\ committed = {1}
  /\ applied = 1

Init ==
  /\ InitStopped \/ InitStarted
  /\ op = [o \in Operations |-> Idle("none", "server")]
  /\ file = Sections0
  /\ node = NewNode
  /\ status = NewNode
  /\ inbox = {}
  /\ handled = {}
  /\ latest = Sections0
  /\ faults = 0

-----------------------------------------------------------------------------
(* Observations.                                                             *)

Running(s) == containers[s] \in {"running", "ready"}

AllReady == \A s \in Services : containers[s] = "ready"

InSync == desired # 0 /\ desired \in committed /\ applied = desired

\* Readiness as system_diagnose sees it.
CriticalReady == AllReady /\ fresh /\ InSync

ParticipantsLive == containers["sionna"] = "ready" /\ Running("ros") /\ Running("isaac")

Step(o) == Head(op[o].todo)

At(o, type, name) ==
  /\ op[o].status = "RUNNING"
  /\ op[o].todo # <<>>
  /\ Step(o) = <<type, name>>

Advanced(o) == [op EXCEPT ![o].todo = Tail(@)]

Failed(o) ==
  [op EXCEPT ![o].todo = Recovery(op[o].kind, Step(o)[2]),
             ![o].verdict = Verdict(op[o].kind, Step(o)[2])]

-----------------------------------------------------------------------------
(* Submission.  Jobs of Mission Control wait for a thread of the pool.       *)

Submit(o) ==
  /\ op[o].status = "NONE"
  /\ o > 1 => op[o - 1].status # "NONE"
  /\ \E workload \in Workloads :
       LET kind == workload[o][1]
           process == workload[o][2]
       IN /\ \A p \in 1..(o - 1) : <<op[p].kind, op[p].process>> = workload[p]
          /\ op' = [op EXCEPT
               ![o] = [Idle(kind, process) EXCEPT
                         !.todo = Program(kind),
                         !.status = IF kind \in JobKinds /\ process = "server"
                                    THEN "QUEUED" ELSE "RUNNING"]]
  /\ UNCHANGED <<state, runtime, records, file, latest>>

PoolRunning == {o \in Operations : op[o].status = "RUNNING" /\ op[o].process = "server"
                                   /\ op[o].kind \in JobKinds}

Dispatch(o) ==
  /\ op[o].status = "QUEUED"
  /\ \A p \in 1..(o - 1) : op[p].status # "QUEUED"
  /\ Cardinality(PoolRunning) < Workers
  /\ op' = [op EXCEPT ![o].status = "RUNNING"]
  /\ UNCHANGED <<state, runtime, records, file, latest>>

\* The command is acknowledged with its verdict.
Acknowledge(o) ==
  /\ op[o].status = "RUNNING"
  /\ op[o].todo = <<>>
  /\ op' = [op EXCEPT ![o] = [Idle(op[o].kind, op[o].process) EXCEPT !.status = op[o].verdict]]
  /\ UNCHANGED <<state, runtime, records, file, latest>>

-----------------------------------------------------------------------------
(* The state file.                                                           *)

\* Mutant of Stopped: the telemetry source is left as it is.
StoppedPhaseOnly(s) == [s EXCEPT !.phase = "STOPPED"]

Stopped(s) == [s EXCEPT !.phase = "STOPPED", !.telemetry = "OFFLINE"]

\* The state with the fields that an update of this name changes.
Patched(o, name) ==
  LET revision == op[o].revision
  IN CASE name = "ACCEPTED" -> state
       [] name = "RUN" -> [state EXCEPT !.phase = "STARTING_EXPERIMENT", !.run = o]
       [] name = "PENDING" ->
            [state EXCEPT !.desired = revision, !.sync = "PENDING_RUNTIME_APPLY"]
       [] name = "COMMITTED" -> [state EXCEPT !.committed = revision, !.sync = "IN_SYNC"]
       [] name = "RECONCILED" ->
            [state EXCEPT !.desired = revision, !.committed = revision, !.sync = "IN_SYNC"]
       [] name = "READY" ->
            [state EXCEPT !.phase = "READY", !.telemetry = IF fresh THEN "LIVE" ELSE "STALE",
                          !.desired = revision, !.committed = revision, !.sync = "IN_SYNC"]
       [] name = "STOPPED" -> Stopped(state)
       [] OTHER -> [state EXCEPT !.phase = name]

InUpdate(o) == op[o].snapshot # <<>>

ReadState(o) ==
  /\ op[o].status = "RUNNING"
  /\ op[o].todo # <<>>
  /\ Step(o)[1] = "update"
  /\ ~ \E p \in Operations : op[p].process = op[o].process /\ InUpdate(p)
  /\ op' = [op EXCEPT ![o].snapshot = <<Patched(o, Step(o)[2])>>]
  /\ UNCHANGED <<state, runtime, records, file, latest>>

WriteState(o) ==
  /\ InUpdate(o)
  /\ state' = op[o].snapshot[1]
  /\ op' = [Advanced(o) EXCEPT ![o].snapshot = <<>>]
  /\ UNCHANGED <<runtime, records, file, latest>>

-----------------------------------------------------------------------------
(* Starting and stopping the stack.                                          *)

Fails(o, name) ==
  /\ At(o, "do", name)
  /\ op' = Failed(o)
  /\ UNCHANGED <<state, runtime, records, file, latest>>

\* The check that makes a start idempotent.
Observe(o) ==
  /\ At(o, "do", "observe")
  /\ op' = IF CriticalReady /\ state.telemetry = "LIVE" THEN [op EXCEPT ![o].todo = <<>>]
           ELSE Advanced(o)
  /\ UNCHANGED <<state, runtime, records, file, latest>>

\* Repair and preflight, then ensure_configuration: the configuration the whole
\* start will use is read here.
Preflight(o) ==
  \/ /\ At(o, "do", "preflight")
     /\ op' = [Advanced(o) EXCEPT ![o].config = file]
     /\ UNCHANGED <<state, runtime, records, file, latest>>
  \/ Fails(o, "preflight")

Build(o) ==
  \/ /\ At(o, "do", "build")
     /\ op' = Advanced(o)
     /\ UNCHANGED <<state, runtime, records, file, latest>>
  \/ Fails(o, "build")

\* A container that runs is kept; any other is removed with its artifacts and
\* created again.
EnsureServiceStarted(o, s) ==
  /\ At(o, "ensure", s)
  /\ UNCHANGED <<state, records, file, latest, status, handled, faults>>
  /\ \/ /\ Running(s)
        /\ op' = Advanced(o)
        /\ UNCHANGED <<containers, fresh, applied, node, inbox>>
     \/ /\ ~Running(s)
        /\ \/ op' = Advanced(o) /\ containers' = [containers EXCEPT ![s] = "running"]
           \/ op' = Failed(o) /\ containers' = [containers EXCEPT ![s] = "absent"]
        /\ fresh' = (fresh /\ s # "ros")
        /\ applied' = 0
        /\ node' = IF s = "ros" THEN NewNode ELSE node
        /\ inbox' = IF s = "ros" THEN {} ELSE inbox

\* What each wait waits for.
Ready(name, o) ==
  CASE name = "sionna" -> containers["sionna"] = "ready"
    [] name = "ros_container" -> Running("ros")
    [] name = "ros_graph" -> containers["ros"] = "ready"
    [] name \in {"packet_runtime", "live_telemetry"} -> fresh
    [] name = "isaac_process" -> Running("isaac")
    [] name = "isaac_scene" -> containers["isaac"] = "ready"

\* Mutant of RuntimeAcknowledged: any command's answer will do.
AnyAcknowledged(kind, o) == status.last # 0

\* The predicates command gives to wait_runtime_status.
RuntimeAcknowledged(kind, o) ==
  CASE kind = "fail_uav" -> status.failed
    [] kind \in {"heal_uav", "reset_chain"} -> ~status.failed
    [] kind = "standby_uav" -> status.standby
    [] kind = "promote_standby" -> ~status.standby
    [] kind = "recompute_topology" -> status.version > op[o].before
    [] OTHER -> status.last = o

WaitEnds(o) ==
  /\ op[o].status = "RUNNING"
  /\ op[o].todo # <<>>
  /\ Step(o)[1] = "await"
  /\ IF Step(o)[2] \in AllKinds THEN RuntimeAcknowledged(Step(o)[2], o) ELSE Ready(Step(o)[2], o)
  /\ op' = Advanced(o)
  /\ UNCHANGED <<state, runtime, records, file, latest>>

\* Mutant of WaitTimesOut: the wait has no deadline.
WaitNeverTimesOut(o) == FALSE /\ UNCHANGED vars

WaitTimesOut(o) ==
  /\ op[o].status = "RUNNING"
  /\ op[o].todo # <<>>
  /\ Step(o)[1] = "await"
  /\ op' = Failed(o)
  /\ UNCHANGED <<state, runtime, records, file, latest>>

ComposeDown(o) ==
  \/ /\ At(o, "do", "down")
     /\ op' = Advanced(o)
     /\ containers' = [s \in Services |-> "absent"]
     /\ node' = NewNode
     /\ inbox' = {}
     /\ UNCHANGED <<state, fresh, applied, status, handled, faults, records, file, latest>>
  \/ Fails(o, "down")

-----------------------------------------------------------------------------
(* Revisions.                                                                *)

CreateRevision(o) ==
  /\ At(o, "do", "create")
  /\ revisions' = Append(revisions, op[o].config)
  /\ desired' = Len(revisions')
  /\ op' = [Advanced(o) EXCEPT ![o].revision = Len(revisions')]
  /\ UNCHANGED <<state, runtime, committed, file, latest>>

\* The participants acknowledge the revision, the packet runtime among them.
ApplyRevision(o) ==
  \/ /\ At(o, "do", "apply")
     /\ AllReady
     /\ applied' = op[o].revision
     /\ node' = [node EXCEPT !.version = @ + 1,
                             !.standby = @ /\ op[o].kind # "promote_standby"]
     /\ op' = Advanced(o)
     /\ UNCHANGED <<state, containers, fresh, status, inbox, handled, faults, records, file, latest>>
  \/ Fails(o, "apply")

\* Mutant of CommitRevision: the revision after it is marked as committed.
CommitNextRevision(o) ==
  /\ At(o, "do", "commit")
  /\ committed' = committed \union {op[o].revision + 1}
  /\ desired' = op[o].revision
  /\ op' = Advanced(o)
  /\ UNCHANGED <<state, runtime, revisions, file, latest>>

CommitRevision(o) ==
  /\ At(o, "do", "commit")
  /\ committed' = committed \union {op[o].revision}
  /\ desired' = op[o].revision
  /\ op' = Advanced(o)
  /\ UNCHANGED <<state, runtime, revisions, file, latest>>

\* synchronize retries the desired revision, or makes one of the file.
ChooseRevision(o) ==
  /\ At(o, "do", "choose")
  /\ op' = IF desired # 0 /\ ~InSync
           THEN [op EXCEPT ![o].revision = desired, ![o].config = revisions[desired],
                           ![o].todo = ReconcileSteps \o Tail(@)]
           ELSE [op EXCEPT ![o].config = file,
                           ![o].todo = <<Do("create")>> \o ReconcileSteps \o Tail(@)]
  /\ UNCHANGED <<state, runtime, records, file, latest>>

-----------------------------------------------------------------------------
(* The configuration file.  Mission Control loads and saves it under         *)
(* _config_lock, the orchestrator saves it without.                          *)

Edited(kind) ==
  CASE kind = "save_config" -> Sections
    [] kind \in {"update_swarm", "promote_standby"} -> {"swarm"}
    [] kind = "update_topology" -> {"topology"}
    [] OTHER -> {}

LockFree(o) == \A p \in Operations \ {o} : op[p].process = op[o].process => ~op[p].lock

\* load_config, and what the handler changes in what it has loaded.  A proposal
\* that validation refuses ends the operation.
LoadConfig(o) ==
  \/ /\ At(o, "do", "load")
     /\ LockFree(o)
     /\ op' = [Advanced(o) EXCEPT
                 ![o].config = [s \in Sections |-> IF s \in Edited(op[o].kind) THEN o ELSE file[s]]]
     /\ UNCHANGED <<state, runtime, records, file, latest>>
  \/ LockFree(o) /\ Fails(o, "load")

LockConfig(o) ==
  /\ At(o, "do", "lock")
  /\ LockFree(o)
  /\ op' = [Advanced(o) EXCEPT ![o].lock = TRUE]
  /\ UNCHANGED <<state, runtime, records, file, latest>>

UnlockConfig(o) ==
  /\ At(o, "do", "unlock")
  /\ op' = [Advanced(o) EXCEPT ![o].lock = FALSE]
  /\ UNCHANGED <<state, runtime, records, file, latest>>

\* save_experiment.
StoreConfig(o) ==
  /\ At(o, "do", "store")
  /\ file' = op[o].config
  /\ latest' = [s \in Sections |-> IF s \in Edited(op[o].kind) THEN o ELSE latest[s]]
  /\ op' = Advanced(o)
  /\ UNCHANGED <<state, runtime, records>>

ObserveParticipants(o) ==
  /\ At(o, "do", "participants_live")
  /\ op' = IF ParticipantsLive THEN Advanced(o) ELSE Failed(o)
  /\ UNCHANGED <<state, runtime, records, file, latest>>

-----------------------------------------------------------------------------
(* Commands to the packet runtime.                                           *)

PacketReady(o) ==
  /\ At(o, "do", "packet_ready")
  /\ op' = IF fresh THEN Advanced(o) ELSE Failed(o)
  /\ UNCHANGED <<state, runtime, records, file, latest>>

ReadVersion(o) ==
  /\ At(o, "do", "before")
  /\ op' = [Advanced(o) EXCEPT ![o].before = status.version]
  /\ UNCHANGED <<state, runtime, records, file, latest>>

\* publish_ros_string: without a container, or when the publisher fails, the
\* command does.  A message that was sent may still be lost.
PublishRosString(o) ==
  \/ /\ At(o, "do", "publish")
     /\ containers["ros"] # "absent"
     /\ op' = Advanced(o)
     /\ \E sent \in {{}, {o}} : inbox' = inbox \union sent
     /\ UNCHANGED <<state, containers, fresh, applied, node, status, handled, faults,
                    records, file, latest>>
  \/ Fails(o, "publish")

\* The call of update with an unknown keyword ends start_experiment.
RaiseTypeError(o) ==
  /\ At(o, "do", "raise")
  /\ op' = [op EXCEPT ![o].todo = <<>>, ![o].verdict = "FAILED"]
  /\ UNCHANGED <<state, runtime, records, file, latest>>

-----------------------------------------------------------------------------
(* The containers and the packet runtime.                                    *)

ContainerBecomesReady(s) ==
  /\ containers[s] = "running"
  /\ containers' = [containers EXCEPT ![s] = "ready"]
  /\ fresh' = (fresh \/ s = "ros")
  /\ UNCHANGED <<state, op, applied, node, status, inbox, handled, faults, records, file, latest>>

ContainerBreaks(s) ==
  /\ Running(s)
  /\ faults < MaxFaults
  /\ faults' = faults + 1
  /\ containers' = [containers EXCEPT ![s] = "broken"]
  /\ node' = IF s = "ros" THEN NewNode ELSE node
  /\ inbox' = IF s = "ros" THEN {} ELSE inbox
  /\ UNCHANGED <<state, op, fresh, applied, status, handled, records, file, latest>>

HeartbeatAges ==
  /\ fresh
  /\ containers["ros"] # "ready"
  /\ fresh' = FALSE
  /\ UNCHANGED <<state, op, containers, applied, node, status, inbox, handled, faults,
                 records, file, latest>>

\* The callbacks of the packet runtime (RelayChain has their detail).
HandleMessage(o) ==
  /\ o \in inbox
  /\ containers["ros"] = "ready"
  /\ inbox' = inbox \ {o}
  /\ handled' = handled \union {o}
  /\ LET kind == op[o].kind
     IN node' = [node EXCEPT
          !.last = IF kind \in {"hold", "stop_experiment"} THEN o ELSE @,
          !.version = IF kind \in {"hold", "stop_experiment"} THEN @ ELSE @ + 1,
          !.failed = IF kind = "fail_uav" THEN TRUE
                     ELSE @ /\ kind \notin {"heal_uav", "reset_chain"},
          !.standby = @ \/ kind = "standby_uav"]
  /\ UNCHANGED <<state, op, containers, fresh, applied, status, faults, records, file, latest>>

\* The timer that writes the status file.
PublishStatus ==
  /\ containers["ros"] = "ready"
  /\ status # node
  /\ status' = node
  /\ UNCHANGED <<state, op, containers, fresh, applied, node, inbox, handled, faults,
                 records, file, latest>>

-----------------------------------------------------------------------------
Operate(o) ==
  \/ Dispatch(o) \/ Acknowledge(o) \/ ReadState(o) \/ WriteState(o)
  \/ Observe(o) \/ Preflight(o) \/ Build(o) \/ WaitEnds(o) \/ WaitTimesOut(o) \/ ComposeDown(o)
  \/ \E s \in Services : EnsureServiceStarted(o, s)
  \/ CreateRevision(o) \/ ApplyRevision(o) \/ CommitRevision(o) \/ ChooseRevision(o)
  \/ LoadConfig(o) \/ LockConfig(o) \/ UnlockConfig(o) \/ StoreConfig(o) \/ ObserveParticipants(o)
  \/ PacketReady(o) \/ ReadVersion(o) \/ PublishRosString(o) \/ RaiseTypeError(o)

Environment ==
  \/ \E s \in Services : ContainerBecomesReady(s) \/ ContainerBreaks(s)
  \/ HeartbeatAges
  \/ \E o \in Operations : HandleMessage(o)
  \/ PublishStatus

Next ==
  \/ \E o \in Operations : Submit(o) \/ Operate(o)
  \/ Environment

\* Threads run, and every wait has a deadline.
Fairness == \A o \in Operations : WF_vars(Operate(o))

FairSpec == Init /\ [][Next]_vars /\ Fairness

-----------------------------------------------------------------------------
Phases == {"STOPPED", "PREFLIGHT", "STARTING_EXPERIMENT", "BUILDING", "STARTING_SERVICE",
           "WAITING_FOR_SIONNA", "WAITING_FOR_ROS_CONTAINER", "WAITING_FOR_ROS_GRAPH",
           "WAITING_FOR_PACKET_RUNTIME", "WAITING_FOR_ISAAC_PROCESS", "WAITING_FOR_ISAAC_SCENE",
           "SYNCHRONIZING", "SMOKE_TESTING", "READY", "DEGRADED", "COMPLETED", "STOPPING", "FAILED"}

States == [phase : Phases, telemetry : {"OFFLINE", "LIVE", "STALE"}, run : 0..MaxOperations,
           desired : Nat, committed : Nat, sync : {"NO_REVISION", "PENDING_RUNTIME_APPLY", "IN_SYNC"}]

TypeOK ==
  /\ state \in States
  /\ \A o \in Operations :
       /\ op[o].kind \in AllKinds \union {"none"}
       /\ op[o].process \in Processes
       /\ op[o].status \in {"NONE", "QUEUED", "RUNNING", "COMPLETED", "FAILED"}
       /\ op[o].config \in [Sections -> 0..MaxOperations]
       /\ op[o].revision \in 0..Len(revisions)
  /\ containers \in [Services -> {"absent", "running", "ready", "broken"}]
  /\ fresh \in BOOLEAN
  /\ committed \subseteq 1..Len(revisions)
  /\ desired \in 0..Len(revisions)
  /\ file \in [Sections -> 0..MaxOperations]
  /\ inbox \subseteq Operations

\* What the state file says of commitment is backed by the revision store: it
\* names a revision that was committed, and says IN_SYNC of no other.  The state
\* file is written by two processes that lose each other's updates, and by
\* operations that overtake each other.
StateClaimsAreBacked ==
  /\ state.committed = 0 \/ state.committed \in committed
  /\ state.sync = "IN_SYNC" => state.committed # 0

\* Mission Control never shows live telemetry of a stack it says is stopped, also
\* when a start is under way in the other process and writes back what it read.
OfflineWhenStopped == state.phase = "STOPPED" => state.telemetry = "OFFLINE"

\* A mission command reported as completed was carried out by the packet runtime,
\* although the status file outlives the process and the message may be lost.
MissionAckIsFresh ==
  \A o \in Operations :
    op[o].kind \in {"hold", "stop_experiment"} /\ op[o].status = "COMPLETED" => o \in handled

\* An edit that was saved stays in the configuration file until the same section is
\* edited again.
SavedEditSurvives == \A s \in Sections : file[s] = latest[s]

\* Every operation ends, whatever becomes of the containers: waits have deadlines,
\* locks are given back and the job pool drains.
OperationsEnd ==
  \A o \in Operations :
    op[o].status \in {"QUEUED", "RUNNING"} ~> op[o].status \in {"COMPLETED", "FAILED"}
=============================================================================
