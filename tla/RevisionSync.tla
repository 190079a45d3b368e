---------------------------- MODULE RevisionSync ----------------------------
(***************************************************************************)
(* Transactional application of one configuration revision to the three    *)
(* runtime participants: the ROS 2 packet runtime (behind its revision     *)
(* agent), the Sionna link service and the Isaac scene bridge.             *)
(*                                                                         *)
(* Clients are the threads and processes that run NETLAB operations: a     *)
(* Mission Control request thread saving a configuration, an orchestrator  *)
(* job synchronizing or starting the stack, a command line process         *)
(* reconciling.  They share the JSON files of the project directory; only  *)
(* save_config takes a lock, and only against other saves.                 *)
(*                                                                         *)
(* A revision identifier stands for its candidate and for its hashes: no   *)
(* participant computes a hash, each echoes the hashes that came with the  *)
(* identifier (all of them when it accepts, none when it does not), so     *)
(* comparing hashes distinguishes nothing the identifier and the accepted  *)
(* flag do not.                                                            *)
(***************************************************************************)
EXTENDS Integers

CONSTANTS
  Clients,          \* threads and processes that run NETLAB operations
  MaxRev,           \* bound on the number of revisions created
  MaxOps,           \* bound on the operations begun and scene commands sent
  MaxRestarts,      \* bound on crashes of clients and restarts of services
  ExplicitTargets,  \* revisions an operator may name in `reconcile --revision-id`
  NoClient          \* holder of the free configuration lock

ASSUME RevisionSyncAssumption ==
  /\ MaxRev \in Nat \ {0}
  /\ MaxOps \in Nat
  /\ MaxRestarts \in Nat
  /\ ExplicitTargets \subseteq 1..MaxRev
  /\ NoClient \notin Clients

Participants == {"ros", "sionna", "isaac"}

Rev     == 1..MaxRev
NoRev   == 0          \* the empty revision id
Foreign == -1         \* the random id write_sync_signal puts in an Isaac signal

\* An acknowledgement file: the revision it names and its accepted/ready flag.
NoAck == [rev |-> NoRev, ok |-> FALSE]
Ack(r, ok) == [rev |-> r, ok |-> ok]

\* What a revision record says of one participant.
Pending == [state |-> "PENDING", observed |-> NoRev]
Mark(ack) ==
  IF ack.ok THEN [state |-> "ACKNOWLEDGED", observed |-> ack.rev]
            ELSE [state |-> "FAILED", observed |-> NoRev]

Draft == [phase |-> "DRAFT_SAVED", marks |-> [p \in Participants |-> Pending]]

AppliedTo == [ros    |-> "APPLIED_TO_ROS",
              sionna |-> "APPLIED_TO_SIONNA",
              isaac  |-> "APPLIED_TO_ISAAC"]

\* RevisionManager.mark_participant on the record it has read.
Marked(rec, p, ack) ==
  [rec EXCEPT !.phase    = IF ack.ok THEN AppliedTo[p] ELSE "FAILED",
              !.marks[p] = Mark(ack)]

\* Mutant of AllAcknowledged: the observed revision is not compared.
AllAcknowledgedAnyRevision(rec, r) ==
  \A p \in Participants : rec.marks[p].state = "ACKNOWLEDGED"

\* RevisionManager.all_required_acknowledged.
AllAcknowledged(rec, r) ==
  \A p \in Participants : rec.marks[p] = [state |-> "ACKNOWLEDGED", observed |-> r]

VARIABLES
  record,      \* revisions/<id>.json
  created,     \* how many revisions exist; they are numbered in creation order
  desired,     \* desired-revision file: a copy of a record
  committed,   \* committed-revision file: the id it names
  client,      \* what each client is doing
  configLock,  \* Mission Control's _config_lock
  rosRequest,  \* revision_ros_request.json
  agent,       \* the ROS revision agent
  topic,       \* /swarm/control/update_config, depth 1
  packet,      \* the packet node
  rosAck,      \* revision_ros_ack.json, written by packet node and agent
  compatAck,   \* snaas_ros_revision_ack.json, written by the agent
  sionna,      \* ACTIVE_REVISION of the link service
  sionnaAck,   \* snaas_sionna_revision_ack.json
  signal,      \* the newest Isaac signal file
  bridge,      \* last_revision_id of the Isaac bridge
  isaacAck,    \* snaas_isaac_sync_ack.json
  operations,  \* operations and scene commands so far (bounded by MaxOps)
  applied,     \* history: the revisions each participant has applied
  restarts     \* crashes and restarts so far (bounded by MaxRestarts)

storeVars  == <<record, created, desired, committed>>
rosVars    == <<rosRequest, agent, topic, packet, rosAck, compatAck>>
sionnaVars == <<sionna, sionnaAck>>
isaacVars  == <<signal, bridge, isaacAck>>
bounds     == <<operations, restarts>>
vars == <<storeVars, client, configLock, rosVars, sionnaVars, isaacVars, applied, bounds>>

-----------------------------------------------------------------------------
Idle == [at |-> "idle", stage |-> "ros", rev |-> NoRev, strict |-> FALSE,
         ack |-> NoAck, copy |-> Draft]

Init ==
  /\ record = [r \in Rev |-> Draft]
  /\ created = 0
  /\ desired = [rev |-> NoRev, phase |-> "NONE"]
  /\ committed = NoRev
  /\ client = [c \in Clients |-> Idle]
  /\ configLock = NoClient
  /\ rosRequest = NoRev
  /\ agent = [pending |-> NoRev, last |-> NoRev]
  /\ topic = NoRev
  /\ packet = [up |-> FALSE, rev |-> NoRev]
  /\ rosAck = NoAck
  /\ compatAck = NoAck
  /\ sionna = NoRev
  /\ sionnaAck = NoAck
  /\ signal = [rev |-> NoRev, fresh |-> FALSE]
  /\ bridge = NoRev
  /\ isaacAck = NoAck
  /\ operations = 0
  /\ applied = [p \in Participants |-> {}]
  /\ restarts = 0

-----------------------------------------------------------------------------
(* Drift and status, as RevisionManager.status computes them from the record *)
(* of a revision and the acknowledgement files now on disk.                  *)

\* Mutant of Drifted: only refusals are drift, not another revision.
DriftedWhenRefused(r, ack) == ack # NoAck /\ ~ack.ok

Drifted(r, ack) == ack # NoAck /\ (ack.rev # r \/ ~ack.ok)

InSync(r) ==
  /\ r # NoRev
  /\ record[r].phase = "COMMITTED"
  /\ AllAcknowledged(record[r], r)
  /\ \A ack \in {compatAck, sionnaAck, isaacAck} : ~Drifted(r, ack)

-----------------------------------------------------------------------------
(* Beginning an operation.                                                   *)

\* The state of a client that enters RuntimeSynchronizer.apply.
Applying(r, strict) == [Idle EXCEPT !.at = "apply", !.rev = r, !.strict = strict]

BeginOperation(c) ==
  /\ client[c] = Idle
  /\ operations < MaxOps
  /\ operations' = operations + 1

\* RevisionManager.create: a new record, all participants pending, and desired.
Create(r) ==
  /\ created < MaxRev
  /\ r = created + 1
  /\ created' = r
  /\ record' = [record EXCEPT ![r] = Draft]
  /\ desired' = [rev |-> r, phase |-> "DRAFT_SAVED"]
  /\ UNCHANGED committed

\* save_config: the lock is kept until the transaction ends; a stack that was
\* not observed live leaves the draft pending.
SaveConfig(c) ==
  /\ BeginOperation(c)
  /\ configLock = NoClient
  /\ \E r \in Rev :
       /\ Create(r)
       /\ \/ /\ client' = [client EXCEPT ![c] = Applying(r, FALSE)]
             /\ configLock' = c
          \/ UNCHANGED <<client, configLock>>
  /\ UNCHANGED <<rosVars, sionnaVars, isaacVars, applied, restarts>>

\* Orchestrator._apply_startup_revision: stops at the first refusal.
ApplyStartupRevision(c) ==
  /\ BeginOperation(c)
  /\ \E r \in Rev :
       /\ Create(r)
       /\ client' = [client EXCEPT ![c] = Applying(r, TRUE)]
  /\ UNCHANGED <<configLock, rosVars, sionnaVars, isaacVars, applied, restarts>>

\* Orchestrator.synchronize: the desired revision again, or a new one when the
\* desired one is in sync (or there is none).
Synchronize(c) ==
  /\ BeginOperation(c)
  /\ \/ /\ desired.rev # NoRev
        /\ ~InSync(desired.rev)
        /\ client' = [client EXCEPT ![c] = Applying(desired.rev, FALSE)]
        /\ UNCHANGED storeVars
     \/ /\ desired.rev # NoRev => InSync(desired.rev)
        /\ \E r \in Rev :
             /\ Create(r)
             /\ client' = [client EXCEPT ![c] = Applying(r, FALSE)]
  /\ UNCHANGED <<configLock, rosVars, sionnaVars, isaacVars, applied, restarts>>

\* Mutant of Reconcile: "no desired revision" is not refused.
ReconcileNothing(c) ==
  /\ BeginOperation(c)
  /\ client' = [client EXCEPT ![c] = Applying(desired.rev, FALSE)]
  /\ UNCHANGED <<storeVars, configLock, rosVars, sionnaVars, isaacVars, applied, restarts>>

\* Orchestrator.reconcile: an explicit revision, or the desired one.
Reconcile(c) ==
  /\ BeginOperation(c)
  /\ \E r \in {desired.rev} \union (ExplicitTargets \intersect 1..created) :
       /\ r # NoRev
       /\ client' = [client EXCEPT ![c] = Applying(r, FALSE)]
  /\ UNCHANGED <<storeVars, configLock, rosVars, sionnaVars, isaacVars, applied, restarts>>

-----------------------------------------------------------------------------
(* RuntimeSynchronizer.apply, one participant after the other.               *)

At(c, where, stage) == client[c].at = where /\ client[c].stage = stage

NextStage == [ros |-> "sionna", sionna |-> "isaac"]

\* The loop of apply after one participant answered (or did not).
Answered(me, accepted) ==
  LET left == [me EXCEPT !.ack = NoAck, !.copy = Draft]
  IN IF me.stage = "isaac" \/ (~accepted /\ me.strict)
       THEN [left EXCEPT !.at = "check"]
       ELSE [left EXCEPT !.at = "apply", !.stage = NextStage[me.stage]]

\* _apply_ros: write the request; the acknowledgement files are not cleared.
RequestRos(c) ==
  /\ At(c, "apply", "ros")
  /\ rosRequest' = client[c].rev
  /\ client' = [client EXCEPT ![c].at = "wait"]
  /\ UNCHANGED <<storeVars, configLock, agent, topic, packet, rosAck, compatAck,
                 sionnaVars, isaacVars, applied, bounds>>

\* _apply_isaac: candidate, request and signal; the bridge takes the newest.
SignalIsaac(c) ==
  /\ At(c, "apply", "isaac")
  /\ signal' = [rev |-> client[c].rev, fresh |-> TRUE]
  /\ client' = [client EXCEPT ![c].at = "wait"]
  /\ UNCHANGED <<storeVars, configLock, rosVars, sionnaVars, bridge, isaacAck, applied,
                 bounds>>

\* _apply_sionna: one POST; only an accepting reply is marked.  The service may
\* be unreachable, or apply the revision and answer after the timeout.
PostSionna(c) ==
  /\ At(c, "apply", "sionna")
  /\ LET r == client[c].rev IN
     \/ /\ sionna' = r
        /\ sionnaAck' = Ack(r, TRUE)
        /\ applied' = [applied EXCEPT !["sionna"] = @ \union {r}]
        /\ \/ client' = [client EXCEPT ![c].at = "mark", ![c].ack = Ack(r, TRUE)]
           \/ client' = [client EXCEPT ![c] = Answered(client[c], FALSE)]
     \/ /\ client' = [client EXCEPT ![c] = Answered(client[c], FALSE)]
        /\ UNCHANGED <<sionnaVars, applied>>
  /\ UNCHANGED <<storeVars, configLock, rosVars, isaacVars, bounds>>

\* The files _wait_ack polls, in order.
AckFiles(stage) == IF stage = "ros" THEN {rosAck, compatAck} ELSE {isaacAck}
Latest(stage) ==
  IF stage = "isaac" THEN isaacAck
  ELSE IF compatAck # NoAck THEN compatAck ELSE rosAck

\* _wait_ack returns the first acknowledgement that names the revision ...
ReceiveAck(c) ==
  /\ client[c].at = "wait"
  /\ \E ack \in AckFiles(client[c].stage) :
       /\ ack.rev = client[c].rev
       /\ client' = [client EXCEPT ![c].at = "mark", ![c].ack = ack]
  /\ UNCHANGED <<storeVars, configLock, rosVars, sionnaVars, isaacVars, applied, bounds>>

\* ... or, when the deadline passes, whatever acknowledgement it read last.
AckTimeout(c) ==
  /\ client[c].at = "wait"
  /\ \A ack \in AckFiles(client[c].stage) : ack.rev # client[c].rev
  /\ LET late == Latest(client[c].stage) IN
     IF late = NoAck
       THEN client' = [client EXCEPT ![c] = Answered(client[c], FALSE)]
       ELSE client' = [client EXCEPT ![c].at = "mark", ![c].ack = late]
  /\ UNCHANGED <<storeVars, configLock, rosVars, sionnaVars, isaacVars, applied, bounds>>

\* Mutant of MarkRead: the revision asked for is recorded, not the one observed.
MarkReadAsRequested(c) ==
  /\ client[c].at = "mark"
  /\ client' = [client EXCEPT ![c].at = "write",
                  ![c].copy = Marked(record[client[c].rev], client[c].stage,
                                     [client[c].ack EXCEPT !.rev = client[c].rev])]
  /\ UNCHANGED <<storeVars, configLock, rosVars, sionnaVars, isaacVars, applied, bounds>>

\* mark_participant reads the record file and later writes it: not atomic.
MarkRead(c) ==
  /\ client[c].at = "mark"
  /\ client' = [client EXCEPT ![c].at = "write",
                  ![c].copy = Marked(record[client[c].rev], client[c].stage, client[c].ack)]
  /\ UNCHANGED <<storeVars, configLock, rosVars, sionnaVars, isaacVars, applied, bounds>>

MarkWrite(c) ==
  /\ client[c].at = "write"
  /\ record' = [record EXCEPT ![client[c].rev] = client[c].copy]
  /\ client' = [client EXCEPT ![c] =
                  Answered(client[c], client[c].ack = Ack(client[c].rev, TRUE))]
  /\ UNCHANGED <<created, desired, committed, configLock, rosVars, sionnaVars,
                 isaacVars, applied, bounds>>

-----------------------------------------------------------------------------
(* The end of the transaction: committable?, then RevisionManager.commit.    *)

Finish(c) ==
  /\ client' = [client EXCEPT ![c] = Idle]
  /\ configLock' = IF configLock = c THEN NoClient ELSE configLock

\* Mutant of Committable: an incomplete transaction returns without unlocking.
CommittableKeepsLock(c) ==
  /\ client[c].at = "check"
  /\ client' = [client EXCEPT ![c] =
                  IF AllAcknowledged(record[client[c].rev], client[c].rev)
                    THEN [client[c] EXCEPT !.at = "commit"] ELSE Idle]
  /\ UNCHANGED <<storeVars, configLock, rosVars, sionnaVars, isaacVars, applied, bounds>>

Committable(c) ==
  /\ client[c].at = "check"
  /\ IF AllAcknowledged(record[client[c].rev], client[c].rev)
       THEN client' = [client EXCEPT ![c].at = "commit"] /\ UNCHANGED configLock
       ELSE Finish(c)
  /\ UNCHANGED <<storeVars, rosVars, sionnaVars, isaacVars, applied, bounds>>

\* commit reads the record again and raises unless every mark matches.
CommitRead(c) ==
  /\ client[c].at = "commit"
  /\ LET rec == record[client[c].rev] IN
     IF AllAcknowledged(rec, client[c].rev)
       THEN /\ client' = [client EXCEPT ![c].at = "commitRecord",
                            ![c].copy = [rec EXCEPT !.phase = "COMMITTED"]]
            /\ UNCHANGED configLock
       ELSE Finish(c)
  /\ UNCHANGED <<storeVars, rosVars, sionnaVars, isaacVars, applied, bounds>>

CommitWriteRecord(c) ==
  /\ client[c].at = "commitRecord"
  /\ record' = [record EXCEPT ![client[c].rev] = client[c].copy]
  /\ client' = [client EXCEPT ![c].at = "commitFile"]
  /\ UNCHANGED <<created, desired, committed, configLock, rosVars, sionnaVars,
                 isaacVars, applied, bounds>>

CommitWriteCommitted(c) ==
  /\ client[c].at = "commitFile"
  /\ committed' = client[c].rev
  /\ client' = [client EXCEPT ![c].at = "commitDesired"]
  /\ UNCHANGED <<record, created, desired, configLock, rosVars, sionnaVars,
                 isaacVars, applied, bounds>>

CommitWriteDesired(c) ==
  /\ client[c].at = "commitDesired"
  /\ desired' = [rev |-> client[c].rev, phase |-> "COMMITTED"]
  /\ Finish(c)
  /\ UNCHANGED <<record, created, committed, rosVars, sionnaVars, isaacVars, applied, bounds>>

-----------------------------------------------------------------------------
(* The ROS participant: the revision agent and the packet node.              *)

\* Mutant of AgentTick: a request is published when prepared and never again.
AgentTickPublishesOnce(publish) ==
  LET prepare == rosRequest # NoRev /\ rosRequest \notin {agent.pending, agent.last}
      pending == IF prepare THEN rosRequest ELSE agent.pending
      observe == pending # NoRev /\ rosAck.rev = pending
  IN /\ publish => pending # NoRev
     /\ topic' = IF prepare /\ packet.up THEN pending ELSE topic
     /\ agent' = IF observe THEN [pending |-> NoRev, last |-> pending]
                           ELSE [agent EXCEPT !.pending = pending]
     /\ compatAck' = IF observe THEN rosAck ELSE compatAck
     /\ UNCHANGED <<storeVars, client, configLock, rosRequest, packet, rosAck,
                    sionnaVars, isaacVars, applied, bounds>>

\* Mutant of AgentTick: the publication itself is acknowledged.
AgentTickAcksPublication(publish) ==
  LET prepare == rosRequest # NoRev /\ rosRequest \notin {agent.pending, agent.last}
      pending == IF prepare THEN rosRequest ELSE agent.pending
  IN /\ publish /\ pending # NoRev
     /\ topic' = IF packet.up THEN pending ELSE topic
     /\ agent' = [pending |-> NoRev, last |-> pending]
     /\ compatAck' = Ack(pending, TRUE)
     /\ UNCHANGED <<storeVars, client, configLock, rosRequest, packet, rosAck,
                    sionnaVars, isaacVars, applied, bounds>>

\* RevisionAgent._tick: prepare a new request, publish what is pending (at most
\* every 0.5 s, at once after preparing), then look for the packet node's
\* acknowledgement and make it canonical.  A message published before the
\* packet node subscribes is lost (volatile durability).
AgentTick(publish) ==
  LET prepare == rosRequest # NoRev /\ rosRequest \notin {agent.pending, agent.last}
      pending == IF prepare THEN rosRequest ELSE agent.pending
      observe == pending # NoRev /\ rosAck.rev = pending
  IN /\ prepare => publish
     /\ publish => pending # NoRev
     /\ topic' = IF publish /\ packet.up THEN pending ELSE topic
     /\ IF observe
          THEN /\ agent' = [pending |-> NoRev, last |-> pending]
               /\ compatAck' = rosAck
          ELSE /\ agent' = [agent EXCEPT !.pending = pending]
               /\ UNCHANGED compatAck
     /\ UNCHANGED <<storeVars, client, configLock, rosRequest, packet, rosAck,
                    sionnaVars, isaacVars, applied, bounds>>

\* The packet node subscribes once its process is up.
PacketStart ==
  /\ ~packet.up
  /\ packet' = [packet EXCEPT !.up = TRUE]
  /\ UNCHANGED <<storeVars, client, configLock, rosRequest, agent, topic, rosAck, compatAck,
                 sionnaVars, isaacVars, applied, bounds>>

\* _update_config_cb: apply, then acknowledge in the same callback.
PacketApply ==
  /\ packet.up
  /\ topic # NoRev
  /\ packet' = [packet EXCEPT !.rev = topic]
  /\ rosAck' = Ack(topic, TRUE)
  /\ topic' = NoRev
  /\ applied' = [applied EXCEPT !["ros"] = @ \union {topic}]
  /\ UNCHANGED <<storeVars, client, configLock, rosRequest, agent, compatAck,
                 sionnaVars, isaacVars, bounds>>

-----------------------------------------------------------------------------
(* The Isaac participant.                                                    *)

\* Mutant of BridgeTick: the acknowledgement does not wait for a verified scene.
BridgeTickAlwaysAccepts(ready) ==
  /\ signal.rev # NoRev
  /\ signal.fresh \/ signal.rev # bridge
  /\ signal' = [signal EXCEPT !.fresh = FALSE]
  /\ isaacAck' = Ack(signal.rev, TRUE)
  /\ bridge' = IF ready THEN signal.rev ELSE bridge
  /\ applied' = IF ready /\ signal.rev # Foreign
                  THEN [applied EXCEPT !["isaac"] = @ \union {signal.rev}]
                  ELSE applied
  /\ UNCHANGED <<storeVars, client, configLock, rosVars, sionnaVars, bounds>>

\* NetlabSnaasBridge.tick: apply a changed signal, or one whose revision is not
\* the last applied; only a verified scene is accepted and remembered.
BridgeTick(ready) ==
  /\ signal.rev # NoRev
  /\ signal.fresh \/ signal.rev # bridge
  /\ signal' = [signal EXCEPT !.fresh = FALSE]
  /\ isaacAck' = Ack(signal.rev, ready)
  /\ bridge' = IF ready THEN signal.rev ELSE bridge
  /\ applied' = IF ready /\ signal.rev # Foreign
                  THEN [applied EXCEPT !["isaac"] = @ \union {signal.rev}]
                  ELSE applied
  /\ UNCHANGED <<storeVars, client, configLock, rosVars, sionnaVars, bounds>>

\* write_sync_signal: Mission Control commands (fail, heal, standby, reset)
\* signal Isaac with a random revision that no record has.
WriteSyncSignal ==
  /\ operations < MaxOps
  /\ operations' = operations + 1
  /\ signal' = [rev |-> Foreign, fresh |-> TRUE]
  /\ UNCHANGED <<storeVars, client, configLock, rosVars, sionnaVars, bridge, isaacAck,
                 applied, restarts>>

-----------------------------------------------------------------------------
(* Crashes and restarts.                                                     *)

\* A client process dies between two of its steps.
ClientCrash(c) ==
  /\ client[c] # Idle
  /\ restarts < MaxRestarts
  /\ restarts' = restarts + 1
  /\ Finish(c)
  /\ UNCHANGED <<storeVars, rosVars, sionnaVars, isaacVars, applied, operations>>

\* A container restarts.  The orchestrator removes the acknowledgement file of
\* a service it finds unhealthy before recreating it; Docker's own restart does not.
Restarting ==
  /\ restarts < MaxRestarts
  /\ restarts' = restarts + 1
  /\ UNCHANGED <<storeVars, client, configLock, applied, operations>>

\* The revision agent and the packet node end together with their container.
RestartRos ==
  /\ Restarting
  /\ agent' = [pending |-> NoRev, last |-> NoRev]
  /\ packet' = [up |-> FALSE, rev |-> NoRev]
  /\ topic' = NoRev
  /\ compatAck' \in {compatAck, NoAck}
  /\ UNCHANGED <<rosRequest, rosAck, sionnaVars, isaacVars>>

RestartSionna ==
  /\ Restarting
  /\ sionna' = NoRev
  /\ sionnaAck' \in {sionnaAck, NoAck}
  /\ UNCHANGED <<rosVars, isaacVars>>

\* The restarted bridge reads the newest signal again.
RestartIsaac ==
  /\ Restarting
  /\ bridge' = NoRev
  /\ signal' = [signal EXCEPT !.fresh = signal.rev # NoRev]
  /\ isaacAck' \in {isaacAck, NoAck}
  /\ UNCHANGED <<rosVars, sionnaVars>>

-----------------------------------------------------------------------------
Begin(c) == SaveConfig(c) \/ ApplyStartupRevision(c) \/ Synchronize(c) \/ Reconcile(c)

Continue(c) ==
  \/ RequestRos(c) \/ PostSionna(c) \/ SignalIsaac(c)
  \/ ReceiveAck(c) \/ AckTimeout(c) \/ MarkRead(c) \/ MarkWrite(c)
  \/ Committable(c) \/ CommitRead(c)
  \/ CommitWriteRecord(c) \/ CommitWriteCommitted(c) \/ CommitWriteDesired(c)

Participant ==
  \/ \E publish \in BOOLEAN : AgentTick(publish)
  \/ PacketStart \/ PacketApply
  \/ \E ready \in BOOLEAN : BridgeTick(ready)

Next ==
  \/ \E c \in Clients : Begin(c) \/ Continue(c) \/ ClientCrash(c)
  \/ Participant
  \/ WriteSyncSignal
  \/ RestartRos \/ RestartSionna \/ RestartIsaac

Spec == Init /\ [][Next]_vars

\* What runs without anybody's help: the timers of the agent and of the bridge,
\* the subscription and the callback of the packet node, and the code of an
\* operation once begun.  The agent publishes at most every 0.5 s but ticks every
\* 0.25 s, so it does publish what stays pending.  Nobody is obliged to begin an
\* operation, Isaac need not become ready, and nothing need restart.
Fairness ==
  /\ WF_vars(AgentTick(TRUE))
  /\ WF_vars(PacketStart)
  /\ WF_vars(PacketApply)
  /\ \A c \in Clients : WF_vars(Continue(c))

FairSpec == Spec /\ Fairness

-----------------------------------------------------------------------------
(* Properties.                                                               *)

RevOrNone == Rev \union {NoRev}
Acks      == [rev : Rev \union {NoRev, Foreign}, ok : BOOLEAN]
Marks     == [state : {"PENDING", "ACKNOWLEDGED", "FAILED"},
              observed : Rev \union {NoRev, Foreign}]
Phases    == {"DRAFT_SAVED", "APPLIED_TO_ROS", "APPLIED_TO_SIONNA", "APPLIED_TO_ISAAC",
              "FAILED", "COMMITTED"}
Records   == [phase : Phases, marks : [Participants -> Marks]]
Steps     == {"idle", "apply", "wait", "mark", "write", "check", "commit",
              "commitRecord", "commitFile", "commitDesired"}
ClientStates == [at : Steps, stage : Participants, rev : RevOrNone, strict : BOOLEAN,
                 ack : Acks, copy : Records]

StoreTypeOK ==
  /\ record \in [Rev -> Records]
  /\ created \in 0..MaxRev
  /\ desired \in [rev : RevOrNone, phase : {"NONE", "DRAFT_SAVED", "COMMITTED"}]
  /\ committed \in RevOrNone

ClientTypeOK ==
  /\ client \in [Clients -> ClientStates]
  /\ \A c \in Clients : client[c].at # "idle" => client[c].rev \in Rev

RosTypeOK ==
  /\ rosRequest \in RevOrNone
  /\ agent \in [pending : RevOrNone, last : RevOrNone]
  /\ topic \in RevOrNone
  /\ packet \in [up : BOOLEAN, rev : RevOrNone]
  /\ rosAck \in Acks
  /\ compatAck \in Acks

SionnaTypeOK == sionna \in RevOrNone /\ sionnaAck \in Acks

IsaacTypeOK ==
  /\ signal \in [rev : Rev \union {NoRev, Foreign}, fresh : BOOLEAN]
  /\ bridge \in Rev \union {NoRev, Foreign}
  /\ isaacAck \in Acks

\* Every file and every process holds a value the code can write there; a client
\* at work names an existing revision.
TypeOK ==
  /\ StoreTypeOK
  /\ ClientTypeOK
  /\ configLock \in Clients \union {NoClient}
  /\ RosTypeOK
  /\ SionnaTypeOK
  /\ IsaacTypeOK
  /\ applied \in [Participants -> SUBSET Rev]
  /\ operations \in 0..MaxOps
  /\ restarts \in 0..MaxRestarts

\* A revision becomes the committed one only after the ROS packet runtime, the
\* link service and the Isaac scene have each applied it: no stale
\* acknowledgement, lost update of a record or concurrent operation may let
\* commit (revisions.py, commit) through without all three.
CommittedWasApplied ==
  committed # NoRev => \A p \in Participants : committed \in applied[p]

\* The canonical (compatibility) acknowledgement of the revision agent names a
\* revision the packet node has applied, never one it was only sent.
CanonicalAckWasApplied == compatAck # NoAck => compatAck.rev \in applied["ros"]

\* Why both hold: whatever accepted acknowledgement or ACKNOWLEDGED mark a file or
\* a client holds, however stale, the participant has applied the revision it
\* names; and a client past the re-check of commit holds three marks of its revision.
AckSound(ack, p) == ack.ok /\ ack.rev \in Rev => ack.rev \in applied[p]
MarksSound(rec) ==
  \A p \in Participants :
    rec.marks[p].state = "ACKNOWLEDGED" /\ rec.marks[p].observed \in Rev
      => rec.marks[p].observed \in applied[p]
ClientSound(s) ==
  /\ s.at = "wait" => s.stage # "sionna"
  /\ AckSound(s.ack, s.stage)
  /\ MarksSound(s.copy)
  /\ s.at \in {"commitRecord", "commitFile", "commitDesired"} => AllAcknowledged(s.copy, s.rev)

AckFilesSound ==
  /\ rosAck # NoAck => rosAck.rev \in applied["ros"]
  /\ CanonicalAckWasApplied
  /\ AckSound(sionnaAck, "sionna")
  /\ AckSound(isaacAck, "isaac")
RecordsSound == \A r \in Rev : MarksSound(record[r])
ClientsSound == \A c \in Clients : ClientSound(client[c])

Evidence ==
  /\ TypeOK
  /\ AckFilesSound
  /\ RecordsSound
  /\ ClientsSound
  /\ CommittedWasApplied

\* As long as nothing has crashed or restarted, a desired revision reported IN_SYNC
\* (RevisionManager.status) is the one the link service and the Isaac scene run at
\* that moment, whatever other clients have started meanwhile; the packet node runs
\* it too, unless the revision agent is still waiting for the packet node.
InSyncMeansRunning ==
  restarts = 0 /\ InSync(desired.rev) =>
    /\ sionna = desired.rev
    /\ bridge = desired.rev
    /\ packet.rev = desired.rev \/ agent.pending # NoRev

\* Why: until something restarts, the acknowledgement files on disk describe what
\* the services run now, and a packet node that runs another revision than the
\* agent acknowledged has the agent still waiting for it; the message under way is
\* the one the agent waits for.
RosAckCurrent ==
  /\ rosAck.rev = packet.rev
  /\ compatAck.rev = agent.last
  /\ packet.rev # agent.last => agent.pending # NoRev
  /\ topic # NoRev =>
       packet.up /\ topic = IF agent.pending # NoRev THEN agent.pending ELSE agent.last
  /\ applied["ros"] # {} => packet.rev # NoRev
SionnaAckCurrent ==
  /\ sionnaAck = IF sionna = NoRev THEN NoAck ELSE Ack(sionna, TRUE)
  /\ applied["sionna"] # {} => sionna # NoRev
IsaacAckCurrent ==
  /\ isaacAck.ok => bridge = isaacAck.rev
  /\ applied["isaac"] # {} => isaacAck # NoAck
AcksAreCurrent == restarts = 0 => RosAckCurrent /\ SionnaAckCurrent /\ IsaacAckCurrent

\* Once there is a request for the ROS participant, the packet node eventually
\* acknowledges it, or the newer one that has replaced it, in spite of messages
\* lost before its subscription and of container restarts.
RequestIsAcknowledged == rosRequest # NoRev ~> rosAck = Ack(rosRequest, TRUE)

\* save_config always gives _config_lock back, even when no participant ever
\* answers, so the next save is not blocked forever.
SaveLockIsReleased == configLock # NoClient ~> configLock = NoClient

\* The abstract protocol: revisions are applied, and committed once all applied.
Abstract == INSTANCE RevisionCommit WITH
              Participants <- Participants, Rev <- Rev, NoRev <- NoRev,
              applied <- applied, committed <- committed
ImplementsRevisionCommit == Abstract!Spec

(* A statement of the documents that the code does not keep.                 *)

\* docs/architecture/synchronization_protocol.md: "Reconnection replays the latest
\* desired revision".  A desired revision gives way only to one created later.
DesiredNeverGoesBack == [][desired'.rev >= desired.rev]_desired
=============================================================================
