------------------------ MODULE RevisionSyncProofs ------------------------
(***************************************************************************)
(* For any set of clients and any bounds: every value has its type, and a  *)
(* revision is committed only after all three participants applied it.     *)
(***************************************************************************)
EXTENDS RevisionSync, TLAPS

LEMMA IdleType == Idle \in ClientStates /\ Draft \in Records /\ NoAck \in Acks
  BY RevisionSyncAssumption
  DEF Idle, ClientStates, Draft, Records, NoAck, Acks, Steps, Participants, RevOrNone,
      Phases, Marks, Pending, NoRev, Foreign, Rev

LEMMA MarkedType ==
  ASSUME NEW rec \in Records, NEW p \in Participants, NEW ack \in Acks
  PROVE  Marked(rec, p, ack) \in Records
<1>1. Mark(ack) \in Marks
  BY DEF Mark, Marks, Acks, NoRev
<1>2. AppliedTo[p] \in Phases
  BY DEF AppliedTo, Phases, Participants
<1>. QED
  BY <1>1, <1>2 DEF Marked, Records, Phases

LEMMA AnsweredType ==
  ASSUME NEW me \in ClientStates, NEW accepted \in BOOLEAN
  PROVE  Answered(me, accepted) \in ClientStates
<1>1. me.stage # "isaac" => NextStage[me.stage] \in Participants
  BY DEF ClientStates, Participants, NextStage
<1>. QED
  BY <1>1, IdleType DEF Answered, ClientStates, Steps

LEMMA ApplyingType ==
  ASSUME NEW r \in Rev, NEW strict \in BOOLEAN
  PROVE  Applying(r, strict) \in ClientStates /\ Applying(r, strict).rev \in Rev
  BY IdleType DEF Applying, ClientStates, Steps, RevOrNone, Idle

LEMMA AnsweredRev ==
  ASSUME NEW me \in ClientStates, NEW accepted \in BOOLEAN
  PROVE  Answered(me, accepted).rev = me.rev
  BY DEF Answered, ClientStates

LEMMA CreateType ==
  ASSUME StoreTypeOK, NEW r \in Rev, Create(r)
  PROVE  StoreTypeOK'
  BY IdleType DEF Create, StoreTypeOK, Rev, RevOrNone

\* A client that moves to a state of its type.
LEMMA ClientMoveType ==
  ASSUME ClientTypeOK, NEW c \in Clients, NEW s \in ClientStates,
         s.at = "idle" \/ s.rev \in Rev,
         client' = [client EXCEPT ![c] = s]
  PROVE  ClientTypeOK'
  BY DEF ClientTypeOK

LEMMA FinishType ==
  ASSUME ClientTypeOK, NEW c \in Clients, Finish(c), configLock \in Clients \union {NoClient}
  PROVE  ClientTypeOK' /\ configLock' \in Clients \union {NoClient}
  BY IdleType, ClientMoveType DEF Finish, Idle

\* Every value has its type in every behaviour of the synchronizer.
THEOREM TypeCorrect == Spec => []TypeOK
<1>1. Init => TypeOK
  BY IdleType, RevisionSyncAssumption
  DEF Init, TypeOK, StoreTypeOK, ClientTypeOK, RosTypeOK, SionnaTypeOK, IsaacTypeOK,
      RevOrNone, Participants, Idle, ClientStates, Acks, NoAck, NoRev
<1>2. TypeOK /\ [Next]_vars => TypeOK'
  <2> SUFFICES ASSUME TypeOK, [Next]_vars
               PROVE  TypeOK'
    OBVIOUS
  <2>. USE DEF TypeOK
  <2>s. UNCHANGED storeVars => StoreTypeOK'
    BY DEF storeVars, StoreTypeOK
  <2>c. UNCHANGED client => ClientTypeOK'
    BY DEF ClientTypeOK
  <2>r. UNCHANGED rosVars => RosTypeOK'
    BY DEF rosVars, RosTypeOK
  <2>l. UNCHANGED sionnaVars => SionnaTypeOK'
    BY DEF sionnaVars, SionnaTypeOK
  <2>i. UNCHANGED isaacVars => IsaacTypeOK'
    BY DEF isaacVars, IsaacTypeOK
  <2>b. UNCHANGED bounds => operations' \in 0..MaxOps /\ restarts' \in 0..MaxRestarts
    BY DEF bounds
  <2>1. ASSUME NEW c \in Clients, SaveConfig(c)
        PROVE  TypeOK'
    <3>0. operations' \in 0..MaxOps
      BY <2>1, RevisionSyncAssumption DEF SaveConfig, BeginOperation
    <3>1. UNCHANGED client
          \/ \E r \in Rev : client' = [client EXCEPT ![c] = Applying(r, FALSE)]
      BY <2>1, RevisionSyncAssumption DEF SaveConfig
    <3>2. ClientTypeOK'
      BY <3>1, <2>c, ApplyingType, ClientMoveType
    <3>. QED
      BY <2>1, <3>0, <3>2, CreateType, <2>s, <2>c, <2>r, <2>l, <2>i, <2>b
      DEF SaveConfig, BeginOperation
  <2>2. ASSUME NEW c \in Clients, ApplyStartupRevision(c)
        PROVE  TypeOK'
    <3>0. operations' \in 0..MaxOps
      BY <2>2, RevisionSyncAssumption DEF ApplyStartupRevision, BeginOperation
    <3>1. UNCHANGED client
          \/ \E r \in Rev : client' = [client EXCEPT ![c] = Applying(r, TRUE)]
      BY <2>2, RevisionSyncAssumption DEF ApplyStartupRevision
    <3>2. ClientTypeOK'
      BY <3>1, <2>c, ApplyingType, ClientMoveType
    <3>. QED
      BY <2>2, <3>0, <3>2, CreateType, <2>s, <2>c, <2>r, <2>l, <2>i, <2>b
      DEF ApplyStartupRevision, BeginOperation
  <2>3. ASSUME NEW c \in Clients, Synchronize(c)
        PROVE  TypeOK'
    <3>0. operations' \in 0..MaxOps
      BY <2>3, RevisionSyncAssumption DEF Synchronize, BeginOperation
    <3>1. UNCHANGED client
          \/ \E r \in Rev : client' = [client EXCEPT ![c] = Applying(r, FALSE)]
      BY <2>3, RevisionSyncAssumption DEF Synchronize, StoreTypeOK, RevOrNone
    <3>2. ClientTypeOK'
      BY <3>1, <2>c, ApplyingType, ClientMoveType
    <3>. QED
      BY <2>3, <3>0, <3>2, CreateType, <2>s, <2>c, <2>r, <2>l, <2>i, <2>b
      DEF Synchronize, BeginOperation
  <2>4. ASSUME NEW c \in Clients, Reconcile(c)
        PROVE  TypeOK'
    <3>0. operations' \in 0..MaxOps
      BY <2>4, RevisionSyncAssumption DEF Reconcile, BeginOperation
    <3>1. UNCHANGED client
          \/ \E r \in Rev : client' = [client EXCEPT ![c] = Applying(r, FALSE)]
      BY <2>4, RevisionSyncAssumption DEF Reconcile, StoreTypeOK, RevOrNone, Rev
    <3>2. ClientTypeOK'
      BY <3>1, <2>c, ApplyingType, ClientMoveType
    <3>. QED
      BY <2>4, <3>0, <3>2, CreateType, <2>s, <2>c, <2>r, <2>l, <2>i, <2>b
      DEF Reconcile, BeginOperation
  <2>5. ASSUME NEW c \in Clients, RequestRos(c)
        PROVE  TypeOK'
    <3>1. ClientTypeOK'
      <4>. DEFINE s == [client[c] EXCEPT !.at = "wait"]
      <4>1. s \in ClientStates /\ s.at # "idle" /\ s.rev \in Rev
        BY <2>5 DEF ClientTypeOK, RequestRos, At, ClientStates, Steps
      <4>. QED
        BY <2>5, <4>1, ClientMoveType DEF RequestRos
    <3>. QED
      BY <2>5, <2>s, <2>c, <2>r, <2>l, <2>i, <2>b, <3>1
      DEF RequestRos, RosTypeOK, RevOrNone, ClientTypeOK, At
  <2>6. ASSUME NEW c \in Clients, PostSionna(c)
        PROVE  TypeOK'
    <3>. DEFINE r == client[c].rev
                marking == [client[c] EXCEPT !.at = "mark", !.ack = Ack(r, TRUE)]
                left == Answered(client[c], FALSE)
    <3>1. r \in Rev /\ Ack(r, TRUE) \in Acks /\ client[c] \in ClientStates
      BY <2>6 DEF PostSionna, At, ClientTypeOK, Ack, Acks
    <3>2. marking \in ClientStates /\ marking.rev \in Rev
      BY <3>1 DEF ClientStates, Steps
    <3>3. left \in ClientStates /\ left.rev \in Rev
      BY <3>1, AnsweredType, AnsweredRev
    <3>4. client' = [client EXCEPT ![c] = marking] \/ client' = [client EXCEPT ![c] = left]
      BY <2>6 DEF PostSionna
    <3>5. ClientTypeOK'
      BY <3>2, <3>3, <3>4, ClientMoveType
    <3>6. SionnaTypeOK' /\ applied' \in [Participants -> SUBSET Rev]
      BY <2>6, <2>l, <3>1 DEF PostSionna, SionnaTypeOK, RevOrNone
    <3>. QED
      BY <2>6, <3>5, <3>6, <2>s, <2>c, <2>r, <2>l, <2>i, <2>b DEF PostSionna
  <2>7. ASSUME NEW c \in Clients, SignalIsaac(c)
        PROVE  TypeOK'
    <3>1. ClientTypeOK'
      <4>. DEFINE s == [client[c] EXCEPT !.at = "wait"]
      <4>1. s \in ClientStates /\ s.at # "idle" /\ s.rev \in Rev
        BY <2>7 DEF ClientTypeOK, SignalIsaac, At, ClientStates, Steps
      <4>. QED
        BY <2>7, <4>1, ClientMoveType DEF SignalIsaac
    <3>. QED
      BY <2>7, <2>s, <2>c, <2>r, <2>l, <2>i, <2>b, <3>1
      DEF SignalIsaac, IsaacTypeOK, ClientTypeOK, At
  <2>8. ASSUME NEW c \in Clients, ReceiveAck(c)
        PROVE  TypeOK'
    <3>1. PICK ack \in AckFiles(client[c].stage) :
            client' = [client EXCEPT ![c].at = "mark", ![c].ack = ack]
      BY <2>8 DEF ReceiveAck
    <3>. DEFINE s == [client[c] EXCEPT !.at = "mark", !.ack = ack]
    <3>2. ack \in Acks
      BY DEF AckFiles, RosTypeOK, IsaacTypeOK
    <3>3. s \in ClientStates /\ s.rev \in Rev /\ client' = [client EXCEPT ![c] = s]
      BY <2>8, <3>1, <3>2 DEF ReceiveAck, ClientTypeOK, ClientStates, Steps
    <3>4. ClientTypeOK'
      BY <3>3, ClientMoveType
    <3>. QED
      BY <2>8, <3>4, <2>s, <2>c, <2>r, <2>l, <2>i, <2>b DEF ReceiveAck
  <2>9. ASSUME NEW c \in Clients, AckTimeout(c)
        PROVE  TypeOK'
    <3>. DEFINE late == Latest(client[c].stage)
                left == Answered(client[c], FALSE)
                marking == [client[c] EXCEPT !.at = "mark", !.ack = late]
    <3>1. client[c] \in ClientStates /\ client[c].rev \in Rev /\ late \in Acks
      BY <2>9 DEF AckTimeout, ClientTypeOK, Latest, RosTypeOK, IsaacTypeOK
    <3>2. left \in ClientStates /\ left.rev \in Rev
      BY <3>1, AnsweredType, AnsweredRev
    <3>3. marking \in ClientStates /\ marking.rev \in Rev
      BY <3>1 DEF ClientStates, Steps
    <3>4. client' = [client EXCEPT ![c] = marking] \/ client' = [client EXCEPT ![c] = left]
      BY <2>9 DEF AckTimeout
    <3>5. ClientTypeOK'
      BY <3>2, <3>3, <3>4, ClientMoveType
    <3>. QED
      BY <2>9, <3>5, <2>s, <2>c, <2>r, <2>l, <2>i, <2>b DEF AckTimeout
  <2>10. ASSUME NEW c \in Clients, MarkRead(c)
        PROVE  TypeOK'
    <3>. DEFINE rec == Marked(record[client[c].rev], client[c].stage, client[c].ack)
                s == [client[c] EXCEPT !.at = "write", !.copy = rec]
    <3>1. client[c] \in ClientStates /\ client[c].rev \in Rev
      BY <2>10 DEF MarkRead, ClientTypeOK
    <3>2. /\ record[client[c].rev] \in Records
          /\ client[c].stage \in Participants /\ client[c].ack \in Acks
      BY <3>1 DEF StoreTypeOK, ClientStates
    <3>3. rec \in Records
      BY <3>2, MarkedType
    <3>4. s \in ClientStates /\ s.rev \in Rev /\ client' = [client EXCEPT ![c] = s]
      BY <2>10, <3>1, <3>3 DEF MarkRead, ClientStates, Steps
    <3>5. ClientTypeOK'
      BY <3>4, ClientMoveType
    <3>. QED
      BY <2>10, <3>5, <2>s, <2>c, <2>r, <2>l, <2>i, <2>b DEF MarkRead
  <2>11. ASSUME NEW c \in Clients, MarkWrite(c)
        PROVE  TypeOK'
    <3>. DEFINE accepted == client[c].ack = Ack(client[c].rev, TRUE)
                s == Answered(client[c], accepted)
    <3>1. client[c] \in ClientStates /\ client[c].rev \in Rev
      BY <2>11 DEF MarkWrite, ClientTypeOK
    <3>2. s \in ClientStates /\ s.rev \in Rev
      BY <3>1, AnsweredType, AnsweredRev
    <3>3. ClientTypeOK'
      BY <2>11, <3>2, ClientMoveType DEF MarkWrite
    <3>4. StoreTypeOK'
      BY <2>11, <3>1 DEF MarkWrite, StoreTypeOK, ClientStates
    <3>. QED
      BY <2>11, <3>3, <3>4, <2>s, <2>c, <2>r, <2>l, <2>i, <2>b DEF MarkWrite
  <2>12. ASSUME NEW c \in Clients, Committable(c)
        PROVE  TypeOK'
    <3>. DEFINE s == [client[c] EXCEPT !.at = "commit"]
    <3>1. s \in ClientStates /\ s.rev \in Rev
      BY <2>12 DEF Committable, ClientTypeOK, ClientStates, Steps
    <3>2. ClientTypeOK' /\ configLock' \in Clients \union {NoClient}
      BY <2>12, <3>1, ClientMoveType, FinishType DEF Committable
    <3>. QED
      BY <2>12, <3>2, <2>s, <2>c, <2>r, <2>l, <2>i, <2>b DEF Committable
  <2>13. ASSUME NEW c \in Clients, CommitRead(c)
        PROVE  TypeOK'
    <3>. DEFINE rec == [record[client[c].rev] EXCEPT !.phase = "COMMITTED"]
                s == [client[c] EXCEPT !.at = "commitRecord", !.copy = rec]
    <3>1. client[c] \in ClientStates /\ client[c].rev \in Rev
      BY <2>13 DEF CommitRead, ClientTypeOK
    <3>2. rec \in Records
      BY <3>1 DEF StoreTypeOK, Records, Phases
    <3>3. s \in ClientStates /\ s.rev \in Rev
      BY <3>1, <3>2 DEF ClientStates, Steps
    <3>4. ClientTypeOK' /\ configLock' \in Clients \union {NoClient}
      <4>1. CASE client' = [client EXCEPT ![c] = s] /\ UNCHANGED configLock
        BY <4>1, <3>3, ClientMoveType
      <4>2. CASE Finish(c)
        BY <4>2, FinishType
      <4>. QED
        BY <2>13, <4>1, <4>2 DEF CommitRead
    <3>. QED
      BY <2>13, <3>4, <2>s, <2>c, <2>r, <2>l, <2>i, <2>b DEF CommitRead
  <2>14. ASSUME NEW c \in Clients, CommitWriteRecord(c)
        PROVE  TypeOK'
    <3>2. StoreTypeOK'
      BY <2>14 DEF CommitWriteRecord, StoreTypeOK, ClientTypeOK, ClientStates
    <3>1. ClientTypeOK'
      <4>. DEFINE s == [client[c] EXCEPT !.at = "commitFile"]
      <4>1. s \in ClientStates /\ s.at # "idle" /\ s.rev \in Rev
        BY <2>14 DEF ClientTypeOK, CommitWriteRecord, ClientStates, Steps
      <4>. QED
        BY <2>14, <4>1, ClientMoveType DEF CommitWriteRecord
    <3>. QED
      BY <2>14, <2>s, <2>c, <2>r, <2>l, <2>i, <2>b, <3>1, <3>2 DEF CommitWriteRecord
  <2>15. ASSUME NEW c \in Clients, CommitWriteCommitted(c)
        PROVE  TypeOK'
    <3>2. StoreTypeOK'
      BY <2>15 DEF CommitWriteCommitted, StoreTypeOK, ClientTypeOK, RevOrNone
    <3>1. ClientTypeOK'
      <4>. DEFINE s == [client[c] EXCEPT !.at = "commitDesired"]
      <4>1. s \in ClientStates /\ s.at # "idle" /\ s.rev \in Rev
        BY <2>15 DEF ClientTypeOK, CommitWriteCommitted, ClientStates, Steps
      <4>. QED
        BY <2>15, <4>1, ClientMoveType DEF CommitWriteCommitted
    <3>. QED
      BY <2>15, <2>s, <2>c, <2>r, <2>l, <2>i, <2>b, <3>1, <3>2 DEF CommitWriteCommitted
  <2>16. ASSUME NEW c \in Clients, CommitWriteDesired(c)
        PROVE  TypeOK'
    <3>1. StoreTypeOK'
      BY <2>16 DEF CommitWriteDesired, StoreTypeOK, ClientTypeOK, RevOrNone
    <3>. QED
      BY <2>16, <2>s, <2>c, <2>r, <2>l, <2>i, <2>b, <3>1, FinishType
      DEF CommitWriteDesired
  <2>17. ASSUME NEW publish \in BOOLEAN, AgentTick(publish)
        PROVE  TypeOK'
    <3>1. RosTypeOK'
      BY <2>17 DEF AgentTick, RosTypeOK, RevOrNone
    <3>. QED
      BY <2>17, <2>s, <2>c, <2>r, <2>l, <2>i, <2>b, <3>1 DEF AgentTick
  <2>18. ASSUME PacketStart
        PROVE  TypeOK'
    <3>1. RosTypeOK'
      BY <2>18 DEF PacketStart, RosTypeOK
    <3>. QED
      BY <2>18, <2>s, <2>c, <2>r, <2>l, <2>i, <2>b, <3>1 DEF PacketStart
  <2>19. ASSUME PacketApply
        PROVE  TypeOK'
    <3>1. topic \in Rev
      BY <2>19 DEF PacketApply, RosTypeOK, RevOrNone
    <3>2. RosTypeOK'
      BY <2>19, <3>1 DEF PacketApply, RosTypeOK, RevOrNone, Ack, Acks, NoRev
    <3>3. applied' \in [Participants -> SUBSET Rev]
      BY <2>19, <3>1 DEF PacketApply
    <3>. QED
      BY <2>19, <2>s, <2>c, <2>r, <2>l, <2>i, <2>b, <3>2, <3>3 DEF PacketApply
  <2>20. ASSUME NEW ready \in BOOLEAN, BridgeTick(ready)
        PROVE  TypeOK'
    <3>1. IsaacTypeOK'
      BY <2>20 DEF BridgeTick, IsaacTypeOK, Ack, Acks
    <3>2. applied' \in [Participants -> SUBSET Rev]
      BY <2>20 DEF BridgeTick, IsaacTypeOK
    <3>. QED
      BY <2>20, <2>s, <2>c, <2>r, <2>l, <2>i, <2>b, <3>1, <3>2 DEF BridgeTick
  <2>21. ASSUME WriteSyncSignal
        PROVE  TypeOK'
    <3>0. operations' \in 0..MaxOps
      BY <2>21, RevisionSyncAssumption DEF WriteSyncSignal
    <3>1. IsaacTypeOK'
      BY <2>21 DEF WriteSyncSignal, IsaacTypeOK
    <3>. QED
      BY <2>21, <2>s, <2>c, <2>r, <2>l, <3>0, <3>1 DEF WriteSyncSignal
  <2>22. ASSUME NEW c \in Clients, ClientCrash(c)
        PROVE  TypeOK'
    <3>1. restarts' \in 0..MaxRestarts
      BY <2>22, RevisionSyncAssumption DEF ClientCrash
    <3>. QED
      BY <2>22, <2>s, <2>c, <2>r, <2>l, <2>i, <2>b, <3>1, FinishType DEF ClientCrash
  <2>23. ASSUME RestartRos
        PROVE  TypeOK'
    <3>1. restarts' \in 0..MaxRestarts
      BY <2>23, RevisionSyncAssumption DEF RestartRos, Restarting
    <3>2. RosTypeOK'
      BY <2>23, IdleType DEF RestartRos, RosTypeOK, RevOrNone
    <3>. QED
      BY <2>23, <3>1, <3>2, <2>s, <2>c, <2>r, <2>l, <2>i DEF RestartRos, Restarting
  <2>24. ASSUME RestartSionna
        PROVE  TypeOK'
    <3>1. restarts' \in 0..MaxRestarts
      BY <2>24, RevisionSyncAssumption DEF RestartSionna, Restarting
    <3>2. SionnaTypeOK'
      BY <2>24, IdleType DEF RestartSionna, SionnaTypeOK, RevOrNone
    <3>. QED
      BY <2>24, <3>1, <3>2, <2>s, <2>c, <2>r, <2>l, <2>i DEF RestartSionna, Restarting
  <2>25. ASSUME RestartIsaac
        PROVE  TypeOK'
    <3>1. restarts' \in 0..MaxRestarts
      BY <2>25, RevisionSyncAssumption DEF RestartIsaac, Restarting
    <3>2. IsaacTypeOK'
      BY <2>25, IdleType DEF RestartIsaac, IsaacTypeOK
    <3>. QED
      BY <2>25, <3>1, <3>2, <2>s, <2>c, <2>r, <2>l, <2>i DEF RestartIsaac, Restarting
  <2>26. CASE UNCHANGED vars
    BY <2>26, <2>s, <2>c, <2>r, <2>l, <2>i, <2>b DEF vars
  <2>. QED
    BY <2>1, <2>2, <2>3, <2>4, <2>5, <2>6, <2>7, <2>8, <2>9, <2>10, <2>11, <2>12,
        <2>13, <2>14, <2>15, <2>16, <2>17, <2>18, <2>19, <2>20, <2>21, <2>22, <2>23,
        <2>24, <2>25, <2>26
    DEF Next, Begin, Continue, Participant
<1>. QED
  BY <1>1, <1>2, PTL DEF Spec

-----------------------------------------------------------------------------
(* A committed revision was applied.                                         *)

Grows == \A p \in Participants : applied[p] \subseteq applied'[p]

\* Evidence about a participant stays true while it applies more revisions.
LEMMA SoundGrows ==
  ASSUME TypeOK, Grows
  PROVE  /\ \A ack \in Acks, p \in Participants : AckSound(ack, p) => AckSound(ack, p)'
         /\ \A rec \in Records : MarksSound(rec) => MarksSound(rec)'
         /\ \A s \in ClientStates : ClientSound(s) => ClientSound(s)'
  BY DEF Grows, TypeOK, AckSound, MarksSound, ClientSound, ClientStates

LEMMA DraftSound == MarksSound(Draft)
  BY DEF MarksSound, Draft, Pending, Participants

LEMMA MarkedSound ==
  ASSUME NEW rec \in Records, NEW p \in Participants, NEW ack \in Acks,
         MarksSound(rec), AckSound(ack, p)
  PROVE  MarksSound(Marked(rec, p, ack))
<1>1. Marked(rec, p, ack).marks = [rec.marks EXCEPT ![p] = Mark(ack)]
  BY DEF Marked, Records
<1>2. Mark(ack).state = "ACKNOWLEDGED" => ack.ok /\ Mark(ack).observed = ack.rev
  BY DEF Mark
<1>. QED
  BY <1>1, <1>2 DEF MarksSound, AckSound, Records

LEMMA AnsweredSound ==
  ASSUME NEW me \in ClientStates, NEW accepted \in BOOLEAN
  PROVE  ClientSound(Answered(me, accepted))
<1>1. /\ Answered(me, accepted).ack = NoAck
      /\ Answered(me, accepted).copy = Draft
      /\ Answered(me, accepted).at \in {"check", "apply"}
  BY DEF Answered, ClientStates
<1>. QED
  BY <1>1, DraftSound DEF ClientSound, AckSound, NoAck

LEMMA IdleSound ==
  /\ ClientSound(Idle)
  /\ \A r \in Rev, strict \in BOOLEAN : ClientSound(Applying(r, strict))
  BY DraftSound DEF ClientSound, AckSound, Idle, Applying, NoAck

LEMMA ClientMoveSound ==
  ASSUME TypeOK, Grows, ClientsSound, NEW c \in Clients, NEW s \in ClientStates,
         ClientSound(s), client' = [client EXCEPT ![c] = s]
  PROVE  ClientsSound'
<1>1. ASSUME NEW d \in Clients
      PROVE  client'[d] \in ClientStates /\ ClientSound(client'[d])
  BY DEF TypeOK, ClientTypeOK, ClientsSound
<1>. QED
  BY <1>1, SoundGrows DEF ClientsSound, ClientSound, AckSound, MarksSound

LEMMA EvidenceInit == Init /\ TypeOK => Evidence
<1>1. Init => AckFilesSound /\ CommittedWasApplied
  BY DEF Init, AckFilesSound, CanonicalAckWasApplied, CommittedWasApplied, AckSound, NoAck
<1>2. Init => RecordsSound
  BY DraftSound DEF Init, RecordsSound
<1>3. Init => ClientsSound
  BY IdleSound DEF Init, ClientsSound
<1>. QED
  BY <1>1, <1>2, <1>3 DEF Evidence

LEMMA AllApplied ==
  ASSUME NEW s \in ClientStates, ClientSound(s), s.rev \in Rev,
         s.at \in {"commitRecord", "commitFile", "commitDesired"}
  PROVE  \A p \in Participants : s.rev \in applied[p]
  BY DEF ClientSound, MarksSound, AllAcknowledged

LEMMA EvidenceStep == Evidence /\ TypeOK' /\ [Next]_vars => Evidence'
<1> SUFFICES ASSUME Evidence, TypeOK', [Next]_vars
             PROVE  Evidence'
  OBVIOUS
<1>. USE DEF Evidence
<1>g. UNCHANGED applied => Grows
  BY DEF Grows
<1>a. Grows /\ UNCHANGED <<rosAck, compatAck, sionnaAck, isaacAck>> => AckFilesSound'
  BY SoundGrows
  DEF AckFilesSound, CanonicalAckWasApplied, TypeOK, RosTypeOK, SionnaTypeOK,
      IsaacTypeOK, Grows, Participants, AckSound
<1>r. Grows /\ UNCHANGED record => RecordsSound'
  BY DEF RecordsSound, MarksSound, Grows
<1>c. Grows /\ UNCHANGED client => ClientsSound'
  BY DEF ClientsSound, ClientSound, AckSound, MarksSound, Grows, TypeOK, ClientTypeOK,
      ClientStates
<1>d. Grows /\ UNCHANGED committed => CommittedWasApplied'
  BY DEF CommittedWasApplied, Grows
<1>f. ASSUME NEW c \in Clients, Grows, Finish(c)
      PROVE  ClientsSound'
  BY <1>f, IdleType, IdleSound, ClientMoveSound DEF Finish
<1>v. UNCHANGED rosVars => UNCHANGED <<rosAck, compatAck>>
  BY DEF rosVars
<1>w. UNCHANGED sionnaVars => UNCHANGED sionnaAck
  BY DEF sionnaVars
<1>i. UNCHANGED isaacVars => UNCHANGED isaacAck
  BY DEF isaacVars
<1>s. UNCHANGED storeVars => UNCHANGED <<record, committed>>
  BY DEF storeVars
<1>1. ASSUME NEW c \in Clients, SaveConfig(c)
      PROVE  Evidence'
  <2>1. UNCHANGED record \/ \E r \in Rev : record' = [record EXCEPT ![r] = Draft]
    BY <1>1, <1>s DEF SaveConfig, Create
  <2>2. UNCHANGED <<applied, committed>> /\ Grows
    BY <1>1, <1>g, <1>s DEF SaveConfig, Create
  <2>3. RecordsSound'
    BY <2>1, <2>2, <1>r, DraftSound DEF RecordsSound, MarksSound, TypeOK, StoreTypeOK
  <2>4. UNCHANGED client
        \/ \E r \in Rev : client' = [client EXCEPT ![c] = Applying(r, FALSE)]
    BY <1>1 DEF SaveConfig, TypeOK, StoreTypeOK, RevOrNone
  <2>5. ClientsSound'
    BY <2>2, <2>4, <1>c, ApplyingType, IdleSound, ClientMoveSound
  <2>. QED
    BY <1>1, <2>2, <2>3, <2>5, <1>a, <1>d, <1>v, <1>w, <1>i DEF SaveConfig
<1>2. ASSUME NEW c \in Clients, ApplyStartupRevision(c)
      PROVE  Evidence'
  <2>1. UNCHANGED record \/ \E r \in Rev : record' = [record EXCEPT ![r] = Draft]
    BY <1>2, <1>s DEF ApplyStartupRevision, Create
  <2>2. UNCHANGED <<applied, committed>> /\ Grows
    BY <1>2, <1>g, <1>s DEF ApplyStartupRevision, Create
  <2>3. RecordsSound'
    BY <2>1, <2>2, <1>r, DraftSound DEF RecordsSound, MarksSound, TypeOK, StoreTypeOK
  <2>4. UNCHANGED client
        \/ \E r \in Rev : client' = [client EXCEPT ![c] = Applying(r, TRUE)]
    BY <1>2 DEF ApplyStartupRevision, TypeOK, StoreTypeOK, RevOrNone
  <2>5. ClientsSound'
    BY <2>2, <2>4, <1>c, ApplyingType, IdleSound, ClientMoveSound
  <2>. QED
    BY <1>2, <2>2, <2>3, <2>5, <1>a, <1>d, <1>v, <1>w, <1>i DEF ApplyStartupRevision
<1>3. ASSUME NEW c \in Clients, Synchronize(c)
      PROVE  Evidence'
  <2>1. UNCHANGED record \/ \E r \in Rev : record' = [record EXCEPT ![r] = Draft]
    BY <1>3, <1>s DEF Synchronize, Create
  <2>2. UNCHANGED <<applied, committed>> /\ Grows
    BY <1>3, <1>g, <1>s DEF Synchronize, Create
  <2>3. RecordsSound'
    BY <2>1, <2>2, <1>r, DraftSound DEF RecordsSound, MarksSound, TypeOK, StoreTypeOK
  <2>4. UNCHANGED client
        \/ \E r \in Rev : client' = [client EXCEPT ![c] = Applying(r, FALSE)]
    BY <1>3 DEF Synchronize, TypeOK, StoreTypeOK, RevOrNone
  <2>5. ClientsSound'
    BY <2>2, <2>4, <1>c, ApplyingType, IdleSound, ClientMoveSound
  <2>. QED
    BY <1>3, <2>2, <2>3, <2>5, <1>a, <1>d, <1>v, <1>w, <1>i DEF Synchronize
<1>4. ASSUME NEW c \in Clients, Reconcile(c)
      PROVE  Evidence'
  <2>1. PICK r \in Rev : client' = [client EXCEPT ![c] = Applying(r, FALSE)]
    BY <1>4, RevisionSyncAssumption DEF Reconcile, TypeOK, StoreTypeOK, RevOrNone, Rev
  <2>2. ClientsSound'
    BY <1>4, <2>1, <1>g, ApplyingType, IdleSound, ClientMoveSound DEF Reconcile
  <2>. QED
    BY <1>4, <2>2, <1>g, <1>a, <1>r, <1>c, <1>d, <1>v, <1>w, <1>i, <1>s DEF Reconcile
<1>5. ASSUME NEW c \in Clients, RequestRos(c)
      PROVE  Evidence'
  <2>. DEFINE s == [client[c] EXCEPT !.at = "wait"]
  <2>1. client[c] \in ClientStates /\ ClientSound(client[c])
    BY DEF TypeOK, ClientTypeOK, ClientsSound
  <2>2. s \in ClientStates /\ ClientSound(s)
    BY <1>5, <2>1 DEF RequestRos, At, ClientSound, ClientStates, Steps
  <2>3. ClientsSound'
    BY <1>5, <2>2, <1>g, ClientMoveSound DEF RequestRos
  <2>. QED
    BY <1>5, <2>3, <1>g, <1>a, <1>r, <1>c, <1>d, <1>v, <1>w, <1>i, <1>s DEF RequestRos
<1>6. ASSUME NEW c \in Clients, SignalIsaac(c)
      PROVE  Evidence'
  <2>. DEFINE s == [client[c] EXCEPT !.at = "wait"]
  <2>1. client[c] \in ClientStates /\ ClientSound(client[c])
    BY DEF TypeOK, ClientTypeOK, ClientsSound
  <2>2. s \in ClientStates /\ ClientSound(s)
    BY <1>6, <2>1 DEF SignalIsaac, At, ClientSound, ClientStates, Steps
  <2>3. ClientsSound'
    BY <1>6, <2>2, <1>g, ClientMoveSound DEF SignalIsaac
  <2>. QED
    BY <1>6, <2>3, <1>g, <1>a, <1>r, <1>c, <1>d, <1>v, <1>w, <1>i, <1>s DEF SignalIsaac
<1>7. ASSUME NEW c \in Clients, PostSionna(c)
      PROVE  Evidence'
  <2>1. PICK me \in ClientStates : me = client[c]
    BY DEF TypeOK, ClientTypeOK
  <2>. DEFINE marking == [me EXCEPT !.at = "mark", !.ack = Ack(me.rev, TRUE)]
              left == Answered(me, FALSE)
  <2>2. ClientSound(me) /\ me.rev \in Rev /\ me.stage = "sionna"
    BY <1>7, <2>1 DEF PostSionna, At, TypeOK, ClientTypeOK, ClientsSound
  <2>3. Grows
    BY <1>7, <1>g DEF PostSionna, Grows, TypeOK
  <2>4. \/ client' = [client EXCEPT ![c] = left] /\ UNCHANGED <<sionnaVars, applied>>
        \/ /\ client' = [client EXCEPT ![c] = left] \/ client' = [client EXCEPT ![c] = marking]
           /\ me.rev \in applied'["sionna"]
           /\ sionnaAck' = Ack(me.rev, TRUE)
    BY <1>7, <2>1 DEF PostSionna, TypeOK, Participants
  <2>5. ASSUME client' = [client EXCEPT ![c] = left]
        PROVE  ClientsSound'
    <3>1. left \in ClientStates /\ ClientSound(left)
      BY AnsweredType, AnsweredSound
    <3>. QED
      BY <2>3, <2>5, <3>1, ClientMoveSound
  <2>6. ASSUME client' = [client EXCEPT ![c] = marking], me.rev \in applied'["sionna"]
        PROVE  ClientsSound'
    <3>1. MarksSound(me.copy)'
      BY <2>2, <2>3, SoundGrows DEF ClientSound, ClientStates
    <3>2. client'[c] = marking
      BY <2>6 DEF TypeOK, ClientTypeOK
    <3>3. /\ client'[c].at = "mark" /\ client'[c].stage = "sionna"
          /\ client'[c].copy = me.copy /\ client'[c].ack = Ack(me.rev, TRUE)
      BY <2>2, <3>2 DEF ClientStates
    <3>4. ClientSound(client[c])'
      <4>1. MarksSound(client[c].copy)'
        BY <3>1, <3>3 DEF MarksSound
      <4>2. AckSound(client[c].ack, client[c].stage)'
        BY <2>6, <3>3 DEF AckSound, Ack
      <4>. QED
        BY <4>1, <4>2, <3>3 DEF ClientSound
    <3>5. ASSUME NEW d \in Clients, d # c
          PROVE  ClientSound(client[d])'
      <4>1. client'[d] = client[d] /\ client[d] \in ClientStates /\ ClientSound(client[d])
        BY <2>6, <3>5 DEF TypeOK, ClientTypeOK, ClientsSound
      <4>. QED
        BY <4>1, <2>3, SoundGrows DEF ClientSound, AckSound, MarksSound
    <3>. QED
      BY <3>4, <3>5 DEF ClientsSound
  <2>7. ClientsSound'
    BY <2>4, <2>5, <2>6
  <2>8. AckSound(sionnaAck, "sionna")'
    <3>1. UNCHANGED sionnaAck => AckSound(sionnaAck, "sionna")'
      BY <2>3 DEF AckFilesSound, AckSound, Grows, Participants
    <3>2. sionnaAck' = Ack(me.rev, TRUE) /\ me.rev \in applied'["sionna"]
            => AckSound(sionnaAck, "sionna")'
      BY DEF AckSound, Ack
    <3>. QED
      BY <2>4, <3>1, <3>2 DEF sionnaVars
  <2>9. AckFilesSound'
    BY <1>7, <2>3, <2>8
    DEF PostSionna, rosVars, isaacVars, AckFilesSound, AckSound, Grows,
        CanonicalAckWasApplied, Participants
  <2>. QED
    BY <1>7, <2>3, <2>7, <2>9, <1>r, <1>d, <1>s DEF PostSionna
<1>8. ASSUME NEW c \in Clients, ReceiveAck(c)
      PROVE  Evidence'
  <2>1. PICK ack \in AckFiles(client[c].stage) :
          client' = [client EXCEPT ![c].at = "mark", ![c].ack = ack]
    BY <1>8 DEF ReceiveAck
  <2>. DEFINE s == [client[c] EXCEPT !.at = "mark", !.ack = ack]
  <2>2. client[c] \in ClientStates /\ ClientSound(client[c])
        /\ (client[c].stage = "ros" \/ client[c].stage = "isaac")
    BY <1>8
    DEF TypeOK, ClientTypeOK, ClientsSound, ClientSound, ClientStates, Participants,
        ReceiveAck
  <2>3. ack \in Acks /\ AckSound(ack, client[c].stage)
    BY <2>2 DEF AckFiles, AckFilesSound, CanonicalAckWasApplied, AckSound, NoAck, TypeOK,
        RosTypeOK, IsaacTypeOK
  <2>4. s \in ClientStates /\ ClientSound(s) /\ client' = [client EXCEPT ![c] = s]
    BY <2>1, <2>2, <2>3 DEF ClientStates, Steps, ClientSound
  <2>5. ClientsSound'
    BY <1>8, <2>4, <1>g, ClientMoveSound DEF ReceiveAck
  <2>. QED
    BY <1>8, <2>5, <1>g, <1>a, <1>r, <1>c, <1>d, <1>v, <1>w, <1>i, <1>s DEF ReceiveAck
<1>9. ASSUME NEW c \in Clients, AckTimeout(c)
      PROVE  Evidence'
  <2>. DEFINE late == Latest(client[c].stage)
              left == Answered(client[c], FALSE)
              marking == [client[c] EXCEPT !.at = "mark", !.ack = late]
  <2>1. client[c] \in ClientStates /\ ClientSound(client[c])
        /\ (client[c].stage = "ros" \/ client[c].stage = "isaac")
    BY <1>9
    DEF TypeOK, ClientTypeOK, ClientsSound, ClientSound, ClientStates, Participants,
        AckTimeout
  <2>2. late \in Acks /\ AckSound(late, client[c].stage)
    BY <2>1 DEF Latest, AckFilesSound, CanonicalAckWasApplied, AckSound, NoAck, TypeOK,
        RosTypeOK, IsaacTypeOK
  <2>3. marking \in ClientStates /\ ClientSound(marking)
    BY <2>1, <2>2 DEF ClientStates, Steps, ClientSound
  <2>4. left \in ClientStates /\ ClientSound(left)
    BY <2>1, AnsweredType, AnsweredSound
  <2>5. client' = [client EXCEPT ![c] = marking] \/ client' = [client EXCEPT ![c] = left]
    BY <1>9 DEF AckTimeout
  <2>6. ClientsSound'
    BY <1>9, <2>3, <2>4, <2>5, <1>g, ClientMoveSound DEF AckTimeout
  <2>. QED
    BY <1>9, <2>6, <1>g, <1>a, <1>r, <1>c, <1>d, <1>v, <1>w, <1>i, <1>s DEF AckTimeout
<1>10. ASSUME NEW c \in Clients, MarkRead(c)
      PROVE  Evidence'
  <2>. DEFINE me == client[c]
              rec == Marked(record[me.rev], me.stage, me.ack)
              s == [me EXCEPT !.at = "write", !.copy = rec]
  <2>1. me \in ClientStates /\ ClientSound(me) /\ me.rev \in Rev
    BY <1>10 DEF MarkRead, TypeOK, ClientTypeOK, ClientsSound
  <2>2. /\ record[me.rev] \in Records /\ MarksSound(record[me.rev])
        /\ me.stage \in Participants /\ me.ack \in Acks /\ AckSound(me.ack, me.stage)
    BY <2>1 DEF TypeOK, StoreTypeOK, RecordsSound, ClientStates, ClientSound
  <2>3. rec \in Records /\ MarksSound(rec)
    BY <2>2, MarkedType, MarkedSound
  <2>4. s \in ClientStates /\ ClientSound(s) /\ client' = [client EXCEPT ![c] = s]
    BY <1>10, <2>1, <2>3 DEF MarkRead, ClientStates, Steps, ClientSound
  <2>5. ClientsSound'
    BY <1>10, <2>4, <1>g, ClientMoveSound DEF MarkRead
  <2>. QED
    BY <1>10, <2>5, <1>g, <1>a, <1>r, <1>c, <1>d, <1>v, <1>w, <1>i, <1>s DEF MarkRead
<1>11. ASSUME NEW c \in Clients, MarkWrite(c)
      PROVE  Evidence'
  <2>. DEFINE me == client[c]
              s == Answered(me, me.ack = Ack(me.rev, TRUE))
  <2>1. me \in ClientStates /\ ClientSound(me) /\ me.rev \in Rev
    BY <1>11 DEF MarkWrite, TypeOK, ClientTypeOK, ClientsSound
  <2>2. s \in ClientStates /\ ClientSound(s)
    BY <2>1, AnsweredType, AnsweredSound
  <2>3. ClientsSound'
    BY <1>11, <2>2, <1>g, ClientMoveSound DEF MarkWrite
  <2>4. RecordsSound'
    BY <1>11, <2>1
    DEF MarkWrite, RecordsSound, ClientSound, MarksSound, TypeOK, StoreTypeOK
  <2>. QED
    BY <1>11, <2>3, <2>4, <1>g, <1>a, <1>r, <1>c, <1>d, <1>v, <1>w, <1>i, <1>s
    DEF MarkWrite
<1>12. ASSUME NEW c \in Clients, Committable(c)
      PROVE  Evidence'
  <2>. DEFINE s == [client[c] EXCEPT !.at = "commit"]
  <2>1. client[c] \in ClientStates /\ ClientSound(client[c])
    BY DEF TypeOK, ClientTypeOK, ClientsSound
  <2>2. s \in ClientStates /\ ClientSound(s)
    BY <2>1 DEF ClientSound, ClientStates, Steps
  <2>3. ClientsSound'
    BY <1>12, <2>2, <1>g, <1>f, ClientMoveSound DEF Committable
  <2>. QED
    BY <1>12, <2>3, <1>g, <1>a, <1>r, <1>c, <1>d, <1>v, <1>w, <1>i, <1>s DEF Committable
<1>13. ASSUME NEW c \in Clients, CommitRead(c)
      PROVE  Evidence'
  <2>. DEFINE me == client[c]
              rec == [record[me.rev] EXCEPT !.phase = "COMMITTED"]
              s == [me EXCEPT !.at = "commitRecord", !.copy = rec]
  <2>1. me \in ClientStates /\ ClientSound(me) /\ me.rev \in Rev
    BY <1>13 DEF CommitRead, TypeOK, ClientTypeOK, ClientsSound
  <2>2. record[me.rev] \in Records /\ MarksSound(record[me.rev])
    BY <2>1 DEF TypeOK, StoreTypeOK, RecordsSound
  <2>3. rec \in Records /\ rec.marks = record[me.rev].marks
    BY <2>2 DEF Records, Phases
  <2>4. ASSUME AllAcknowledged(record[me.rev], me.rev)
        PROVE  ClientsSound'
    <3>1. s \in ClientStates /\ ClientSound(s)
      BY <2>1, <2>2, <2>3, <2>4
      DEF ClientStates, Steps, ClientSound, MarksSound, AllAcknowledged
    <3>2. client' = [client EXCEPT ![c] = s]
      BY <1>13, <2>4 DEF CommitRead
    <3>. QED
      BY <1>13, <3>1, <3>2, <1>g, ClientMoveSound DEF CommitRead
  <2>5. ASSUME ~AllAcknowledged(record[me.rev], me.rev)
        PROVE  ClientsSound'
    BY <1>13, <2>5, <1>g, <1>f DEF CommitRead
  <2>. QED
    BY <1>13, <2>4, <2>5, <1>g, <1>a, <1>r, <1>c, <1>d, <1>v, <1>w, <1>i, <1>s
    DEF CommitRead
<1>14. ASSUME NEW c \in Clients, CommitWriteRecord(c)
      PROVE  Evidence'
  <2>. DEFINE s == [client[c] EXCEPT !.at = "commitFile"]
  <2>1. client[c] \in ClientStates /\ ClientSound(client[c])
    BY DEF TypeOK, ClientTypeOK, ClientsSound
  <2>2. s \in ClientStates /\ ClientSound(s)
    BY <1>14, <2>1 DEF CommitWriteRecord, ClientSound, ClientStates, Steps
  <2>3. ClientsSound'
    BY <1>14, <2>2, <1>g, ClientMoveSound DEF CommitWriteRecord
  <2>4. RecordsSound'
    BY <1>14, <2>1
    DEF CommitWriteRecord, RecordsSound, ClientSound, MarksSound, TypeOK, StoreTypeOK
  <2>. QED
    BY <1>14, <2>3, <2>4, <1>g, <1>a, <1>r, <1>c, <1>d, <1>v, <1>w, <1>i, <1>s
    DEF CommitWriteRecord
<1>15. ASSUME NEW c \in Clients, CommitWriteCommitted(c)
      PROVE  Evidence'
  <2>. DEFINE s == [client[c] EXCEPT !.at = "commitDesired"]
  <2>1. client[c] \in ClientStates /\ ClientSound(client[c]) /\ client[c].rev \in Rev
    BY <1>15 DEF CommitWriteCommitted, TypeOK, ClientTypeOK, ClientsSound
  <2>2. s \in ClientStates /\ ClientSound(s)
    BY <1>15, <2>1 DEF CommitWriteCommitted, ClientSound, ClientStates, Steps
  <2>3. ClientsSound'
    BY <1>15, <2>2, <1>g, ClientMoveSound DEF CommitWriteCommitted
  <2>4. \A q \in Participants : client[c].rev \in applied[q]
    BY <1>15, <2>1, AllApplied DEF CommitWriteCommitted
  <2>5. CommittedWasApplied'
    BY <1>15, <2>4 DEF CommitWriteCommitted, CommittedWasApplied
  <2>. QED
    BY <1>15, <2>3, <2>5, <1>g, <1>a, <1>r, <1>c, <1>d, <1>v, <1>w, <1>i, <1>s
    DEF CommitWriteCommitted
<1>16. ASSUME NEW c \in Clients, CommitWriteDesired(c)
      PROVE  Evidence'
  BY <1>16, <1>f, <1>g, <1>a, <1>r, <1>c, <1>d, <1>v, <1>w, <1>i, <1>s
  DEF CommitWriteDesired
<1>17. ASSUME NEW publish \in BOOLEAN, AgentTick(publish)
      PROVE  Evidence'
  <2>1. UNCHANGED compatAck \/ (compatAck' = rosAck /\ rosAck.rev # NoRev)
    BY <1>17 DEF AgentTick
  <2>2. AckFilesSound'
    BY <1>17, <2>1, <1>i, <1>w
    DEF AgentTick, AckFilesSound, CanonicalAckWasApplied, AckSound, NoAck
  <2>. QED
    BY <1>17, <2>2, <1>g, <1>a, <1>r, <1>c, <1>d, <1>v, <1>w, <1>i, <1>s DEF AgentTick
<1>18. ASSUME PacketStart
      PROVE  Evidence'
  BY <1>18, <1>g, <1>a, <1>r, <1>c, <1>d, <1>v, <1>w, <1>i, <1>s DEF PacketStart
<1>19. ASSUME PacketApply
      PROVE  Evidence'
  <2>1. topic \in Rev
    BY <1>19 DEF PacketApply, TypeOK, RosTypeOK, RevOrNone
  <2>2. Grows
    BY <1>19 DEF PacketApply, Grows, TypeOK
  <2>3. topic \in applied'["ros"]
    BY <1>19 DEF PacketApply, TypeOK, Participants
  <2>4. AckFilesSound'
    BY <1>19, <2>2, <2>3, <1>i, <1>w
    DEF PacketApply, AckFilesSound, CanonicalAckWasApplied,
        AckSound, Ack, Grows, Participants
  <2>. QED
    BY <1>19, <2>2, <2>4, <1>r, <1>c, <1>d, <1>s DEF PacketApply
<1>20. ASSUME NEW ready \in BOOLEAN, BridgeTick(ready)
      PROVE  Evidence'
  <2>1. signal.rev \in Rev \union {Foreign}
    BY <1>20 DEF BridgeTick, TypeOK, IsaacTypeOK
  <2>2. Grows
    BY <1>20, <1>g DEF BridgeTick, Grows, TypeOK
  <2>3. AckSound(isaacAck, "isaac")'
    <3>1. isaacAck'.rev = signal.rev /\ isaacAck'.ok = ready
      BY <1>20 DEF BridgeTick, Ack
    <3>2. ready /\ signal.rev # Foreign => signal.rev \in applied'["isaac"]
      BY <1>20 DEF BridgeTick, TypeOK, Participants
    <3>. QED
      BY <3>1, <3>2 DEF AckSound, Rev, Foreign
  <2>4. AckFilesSound'
    BY <1>20, <2>2, <2>3, <1>v, <1>w
    DEF BridgeTick, AckFilesSound, CanonicalAckWasApplied,
        AckSound, Grows, Participants
  <2>. QED
    BY <1>20, <2>2, <2>4, <1>r, <1>c, <1>d, <1>s DEF BridgeTick
<1>21. ASSUME WriteSyncSignal
      PROVE  Evidence'
  BY <1>21, <1>g, <1>a, <1>r, <1>c, <1>d, <1>v, <1>w, <1>i, <1>s DEF WriteSyncSignal
<1>22. ASSUME NEW c \in Clients, ClientCrash(c)
      PROVE  Evidence'
  BY <1>22, <1>f, <1>g, <1>a, <1>r, <1>c, <1>d, <1>v, <1>w, <1>i, <1>s DEF ClientCrash
<1>23. ASSUME RestartRos
      PROVE  Evidence'
  <2>1. AckFilesSound'
    BY <1>23, <1>w, <1>i
    DEF RestartRos, Restarting, AckFilesSound, CanonicalAckWasApplied, AckSound, NoAck
  <2>. QED
    BY <1>23, <2>1, <1>g, <1>r, <1>c, <1>d, <1>s DEF RestartRos, Restarting
<1>24. ASSUME RestartSionna
      PROVE  Evidence'
  <2>1. AckFilesSound'
    BY <1>24, <1>v, <1>i
    DEF RestartSionna, Restarting, AckFilesSound, CanonicalAckWasApplied, AckSound,
        NoAck
  <2>. QED
    BY <1>24, <2>1, <1>g, <1>r, <1>c, <1>d, <1>s DEF RestartSionna, Restarting
<1>25. ASSUME RestartIsaac
      PROVE  Evidence'
  <2>1. AckFilesSound'
    BY <1>25, <1>v, <1>w
    DEF RestartIsaac, Restarting, AckFilesSound, CanonicalAckWasApplied, AckSound,
        NoAck
  <2>. QED
    BY <1>25, <2>1, <1>g, <1>r, <1>c, <1>d, <1>s DEF RestartIsaac, Restarting
<1>26. CASE UNCHANGED vars
  BY <1>26, <1>g, <1>a, <1>r, <1>c, <1>d, <1>v, <1>w, <1>i, <1>s DEF vars
<1>. QED
  BY <1>1, <1>2, <1>3, <1>4, <1>5, <1>6, <1>7, <1>8, <1>9, <1>10, <1>11, <1>12, <1>13,
      <1>14, <1>15,
     <1>16, <1>17, <1>18, <1>19, <1>20, <1>21, <1>22, <1>23, <1>24, <1>25, <1>26
  DEF Next, Begin, Continue, Participant

\* Every acknowledgement, mark and commit decision in the system is backed by the
\* participant having applied the revision: the inductive invariant.
THEOREM EvidenceHolds == Spec => []Evidence
<1>1. Spec => Init /\ [][Next]_vars
  BY DEF Spec
<1>. QED
  BY <1>1, TypeCorrect, EvidenceInit, EvidenceStep, PTL

\* revisions.py, commit: the committed revision was applied by all participants,
\* for any number of clients, revisions, crashes and restarts.
THEOREM CommitIsSafe == Spec => []CommittedWasApplied
<1>1. Evidence => CommittedWasApplied
  BY DEF Evidence
<1>. QED
  BY <1>1, EvidenceHolds, PTL

\* netlab_revision_agent.py: the canonical acknowledgement is never ahead of the
\* packet node.
THEOREM CanonicalAckIsSafe == Spec => []CanonicalAckWasApplied
<1>1. Evidence => CanonicalAckWasApplied
  BY DEF Evidence, AckFilesSound
<1>. QED
  BY <1>1, EvidenceHolds, PTL

\* The whole synchronizer, files, clients, crashes and all, does nothing but what
\* ADR-007 lets it: apply revisions, and commit one that all participants applied.
THEOREM Implements == Spec => ImplementsRevisionCommit
<1>1. Init => Abstract!Init
  BY DEF Init, Abstract!Init
<1>2. Evidence /\ TypeOK' /\ [Next]_vars => [Abstract!Next]_(Abstract!avars)
  <2> SUFFICES ASSUME Evidence, [Next]_vars
               PROVE  Abstract!Next \/ UNCHANGED <<applied, committed>>
    BY DEF Abstract!avars
  <2>. USE DEF Evidence
  <2>1. ASSUME NEW c \in Clients, Begin(c)
        PROVE  Abstract!Next \/ UNCHANGED <<applied, committed>>
    BY <2>1
    DEF Begin, SaveConfig, ApplyStartupRevision, Synchronize, Reconcile, Create,
        storeVars
  <2>2. ASSUME NEW c \in Clients, PostSionna(c)
        PROVE  Abstract!Next \/ UNCHANGED <<applied, committed>>
    <3>1. client[c].rev \in Rev /\ "sionna" \in Participants
      BY <2>2 DEF PostSionna, At, TypeOK, ClientTypeOK, Participants
    <3>. QED
      BY <2>2, <3>1 DEF PostSionna, storeVars, Abstract!Next, Abstract!Apply
  <2>3. ASSUME NEW c \in Clients, CommitWriteCommitted(c)
        PROVE  Abstract!Next \/ UNCHANGED <<applied, committed>>
    <3>1. client[c] \in ClientStates /\ ClientSound(client[c]) /\ client[c].rev \in Rev
      BY <2>3 DEF CommitWriteCommitted, TypeOK, ClientTypeOK, ClientsSound
    <3>2. \A q \in Participants : client[c].rev \in applied[q]
      BY <2>3, <3>1, AllApplied DEF CommitWriteCommitted
    <3>. QED
      BY <2>3, <3>1, <3>2 DEF CommitWriteCommitted, Abstract!Next, Abstract!Commit
  <2>4. ASSUME NEW c \in Clients, Continue(c), ~PostSionna(c), ~CommitWriteCommitted(c)
        PROVE  Abstract!Next \/ UNCHANGED <<applied, committed>>
    BY <2>4
    DEF Continue, RequestRos, SignalIsaac, ReceiveAck, AckTimeout, MarkRead, MarkWrite,
        Committable, CommitRead, CommitWriteRecord, CommitWriteDesired, storeVars
  <2>5. ASSUME NEW publish \in BOOLEAN, AgentTick(publish)
        PROVE  Abstract!Next \/ UNCHANGED <<applied, committed>>
    BY <2>5 DEF AgentTick, storeVars
  <2>6. ASSUME PacketApply
        PROVE  Abstract!Next \/ UNCHANGED <<applied, committed>>
    <3>1. topic \in Rev /\ "ros" \in Participants
      BY <2>6 DEF PacketApply, TypeOK, RosTypeOK, RevOrNone, Participants
    <3>. QED
      BY <2>6, <3>1 DEF PacketApply, storeVars, Abstract!Next, Abstract!Apply
  <2>7. ASSUME NEW ready \in BOOLEAN, BridgeTick(ready)
        PROVE  Abstract!Next \/ UNCHANGED <<applied, committed>>
    <3>1. (signal.rev = Foreign \/ signal.rev \in Rev) /\ "isaac" \in Participants
      BY <2>7 DEF BridgeTick, TypeOK, IsaacTypeOK, Participants
    <3>. QED
      BY <2>7, <3>1 DEF BridgeTick, storeVars, Abstract!Next, Abstract!Apply
  <2>8. ASSUME PacketStart \/ WriteSyncSignal \/ RestartRos \/ RestartSionna \/ RestartIsaac
          \/ \E c \in Clients : ClientCrash(c)
        PROVE  Abstract!Next \/ UNCHANGED <<applied, committed>>
    BY <2>8 DEF PacketStart, WriteSyncSignal, RestartRos, RestartSionna, RestartIsaac,
        Restarting, ClientCrash, storeVars
  <2>9. CASE UNCHANGED vars
    BY <2>9 DEF vars, storeVars
  <2>. QED
    BY <2>1, <2>2, <2>3, <2>4, <2>5, <2>6, <2>7, <2>8, <2>9 DEF Next, Participant
<1>. QED
  BY <1>1, <1>2, EvidenceHolds, TypeCorrect, PTL
  DEF Spec, ImplementsRevisionCommit, Abstract!Spec


-----------------------------------------------------------------------------
(* What the status of a revision says of the runtime.                        *)

\* Requests, marks, commits and everything else the clients do leave the three
\* participants alone but for the link service's reply.
LEMMA ClientsLeaveRuntime ==
  ASSUME NEW c \in Clients, Begin(c) \/ Continue(c), ~PostSionna(c)
  PROVE  UNCHANGED <<agent, topic, packet, rosAck, compatAck, sionnaVars, bridge, isaacAck,
                     applied, restarts>>
<1>1. CASE Begin(c)
  BY <1>1 DEF Begin, SaveConfig, ApplyStartupRevision, Synchronize, Reconcile, rosVars,
              isaacVars
<1>2. CASE Continue(c)
  BY <1>2 DEF Continue, RequestRos, SignalIsaac, ReceiveAck, AckTimeout, MarkRead, MarkWrite,
              Committable, CommitRead, CommitWriteRecord, CommitWriteCommitted,
              CommitWriteDesired, rosVars, isaacVars, bounds
<1>. QED
  BY <1>1, <1>2

\* A crash or restart is counted, so nothing is claimed after it.
LEMMA RestartsAreCounted ==
  ASSUME TypeOK,
         RestartRos \/ RestartSionna \/ RestartIsaac \/ \E c \in Clients : ClientCrash(c)
  PROVE  restarts' # 0
  BY RevisionSyncAssumption
  DEF TypeOK, RestartRos, RestartSionna, RestartIsaac, Restarting, ClientCrash

LEMMA AcksAreCurrentStep == TypeOK /\ AcksAreCurrent /\ [Next]_vars => AcksAreCurrent'
<1> SUFFICES ASSUME TypeOK, AcksAreCurrent, [Next]_vars
             PROVE  AcksAreCurrent'
  OBVIOUS
<1>r. UNCHANGED <<agent, topic, packet, rosAck, compatAck, applied>> /\ RosAckCurrent
        => RosAckCurrent'
  BY DEF RosAckCurrent
<1>l. UNCHANGED <<sionnaVars, applied>> /\ SionnaAckCurrent => SionnaAckCurrent'
  BY DEF SionnaAckCurrent, sionnaVars
<1>i. UNCHANGED <<bridge, isaacAck, applied>> /\ IsaacAckCurrent => IsaacAckCurrent'
  BY DEF IsaacAckCurrent
<1>v. UNCHANGED rosVars => UNCHANGED <<agent, topic, packet, rosAck, compatAck>>
  BY DEF rosVars
<1>w. UNCHANGED isaacVars => UNCHANGED <<bridge, isaacAck>>
  BY DEF isaacVars
<1>b. UNCHANGED bounds => UNCHANGED restarts
  BY DEF bounds
<1>1. ASSUME NEW c \in Clients, Begin(c) \/ Continue(c), ~PostSionna(c)
      PROVE  AcksAreCurrent'
  BY <1>1, <1>r, <1>l, <1>i, ClientsLeaveRuntime DEF AcksAreCurrent
<1>2. ASSUME NEW c \in Clients, PostSionna(c)
      PROVE  AcksAreCurrent'
  <2>1. /\ UNCHANGED <<rosVars, isaacVars, restarts>>
        /\ applied'["ros"] = applied["ros"] /\ applied'["isaac"] = applied["isaac"]
    BY <1>2 DEF PostSionna, TypeOK, Participants, bounds
  <2>2. RosAckCurrent => RosAckCurrent'
    BY <2>1 DEF RosAckCurrent, rosVars
  <2>3. IsaacAckCurrent => IsaacAckCurrent'
    BY <2>1 DEF IsaacAckCurrent, isaacVars
  <2>4. client[c].rev # NoRev
    BY <1>2 DEF PostSionna, At, TypeOK, ClientTypeOK, Rev, NoRev
  <2>5. SionnaAckCurrent => SionnaAckCurrent'
    <3>. DEFINE r == client[c].rev
    <3>1. CASE sionna' = r /\ sionnaAck' = Ack(r, TRUE)
      BY <3>1, <2>4 DEF SionnaAckCurrent
    <3>2. CASE UNCHANGED <<sionnaVars, applied>>
      BY <3>2, <1>l
    <3>. QED
      BY <1>2, <3>1, <3>2 DEF PostSionna
  <2>. QED
    BY <2>1, <2>2, <2>3, <2>5 DEF AcksAreCurrent
<1>3. ASSUME NEW publish \in BOOLEAN, AgentTick(publish)
      PROVE  AcksAreCurrent'
  <2>1. UNCHANGED <<packet, rosAck, sionnaVars, isaacVars, applied, restarts>>
    BY <1>3 DEF AgentTick, bounds
  <2>2. ASSUME RosAckCurrent
        PROVE  RosAckCurrent'
    <3>. DEFINE prepare == rosRequest # NoRev /\ rosRequest \notin {agent.pending, agent.last}
                pending == IF prepare THEN rosRequest ELSE agent.pending
    <3>1. agent \in [pending : RevOrNone, last : RevOrNone]
      BY DEF TypeOK, RosTypeOK
    <3>2. topic' # NoRev =>
            packet.up /\ (topic' = pending \/ (pending = NoRev /\ topic' = agent.last))
      BY <1>3, <2>2 DEF AgentTick, RosAckCurrent
    <3>3. CASE pending # NoRev /\ rosAck.rev = pending
      <4>1. agent'.pending = NoRev /\ agent'.last = pending /\ compatAck' = rosAck
        BY <1>3, <3>3 DEF AgentTick
      <4>. QED
        BY <2>1, <2>2, <3>2, <3>3, <4>1 DEF RosAckCurrent
    <3>4. CASE ~(pending # NoRev /\ rosAck.rev = pending)
      <4>1. agent'.pending = pending /\ agent'.last = agent.last /\ compatAck' = compatAck
        BY <1>3, <3>1, <3>4 DEF AgentTick
      <4>2. pending = NoRev => agent.pending = NoRev
        OBVIOUS
      <4>. QED
        BY <2>1, <2>2, <3>2, <4>1, <4>2 DEF RosAckCurrent
    <3>. QED
      BY <3>3, <3>4
  <2>. QED
    BY <2>1, <2>2, <1>l, <1>i, <1>w DEF AcksAreCurrent
<1>4. ASSUME PacketStart
      PROVE  AcksAreCurrent'
  <2>1. /\ UNCHANGED <<agent, topic, rosAck, compatAck, sionnaVars, isaacVars, applied,
                       restarts>>
        /\ packet'.up /\ packet'.rev = packet.rev
    BY <1>4 DEF PacketStart, bounds, TypeOK, RosTypeOK
  <2>2. RosAckCurrent => RosAckCurrent'
    BY <2>1 DEF RosAckCurrent
  <2>. QED
    BY <2>1, <2>2, <1>l, <1>i, <1>w DEF AcksAreCurrent
<1>5. ASSUME PacketApply
      PROVE  AcksAreCurrent'
  <2>1. /\ UNCHANGED <<agent, compatAck, sionnaVars, isaacVars, restarts>>
        /\ topic' = NoRev /\ packet'.rev = topic /\ rosAck'.rev = topic /\ topic # NoRev
        /\ applied'["sionna"] = applied["sionna"] /\ applied'["isaac"] = applied["isaac"]
    BY <1>5 DEF PacketApply, bounds, TypeOK, RosTypeOK, Participants, Ack
  <2>2. RosAckCurrent => RosAckCurrent'
    BY <2>1 DEF RosAckCurrent
  <2>3. SionnaAckCurrent => SionnaAckCurrent'
    BY <2>1 DEF SionnaAckCurrent, sionnaVars
  <2>4. IsaacAckCurrent => IsaacAckCurrent'
    BY <2>1 DEF IsaacAckCurrent, isaacVars
  <2>. QED
    BY <2>1, <2>2, <2>3, <2>4 DEF AcksAreCurrent
<1>6. ASSUME NEW ready \in BOOLEAN, BridgeTick(ready)
      PROVE  AcksAreCurrent'
  <2>1. /\ UNCHANGED <<rosVars, sionnaVars, restarts>>
        /\ isaacAck' = Ack(signal.rev, ready) /\ signal.rev # NoRev
        /\ ready => bridge' = signal.rev
        /\ applied'["sionna"] = applied["sionna"] /\ applied'["ros"] = applied["ros"]
    BY <1>6 DEF BridgeTick, bounds, TypeOK, Participants
  <2>2. RosAckCurrent => RosAckCurrent'
    BY <2>1 DEF RosAckCurrent, rosVars
  <2>3. SionnaAckCurrent => SionnaAckCurrent'
    BY <2>1 DEF SionnaAckCurrent, sionnaVars
  <2>4. IsaacAckCurrent'
    BY <2>1 DEF IsaacAckCurrent, Ack, NoAck
  <2>. QED
    BY <2>1, <2>2, <2>3, <2>4 DEF AcksAreCurrent
<1>7. ASSUME WriteSyncSignal
      PROVE  AcksAreCurrent'
  BY <1>7, <1>r, <1>l, <1>i, <1>v DEF WriteSyncSignal, AcksAreCurrent
<1>8. ASSUME RestartRos \/ RestartSionna \/ RestartIsaac \/ \E c \in Clients : ClientCrash(c)
      PROVE  AcksAreCurrent'
  BY <1>8, RestartsAreCounted DEF AcksAreCurrent
<1>9. CASE UNCHANGED vars
  BY <1>9, <1>r, <1>l, <1>i, <1>v, <1>w, <1>b DEF vars, AcksAreCurrent
<1>. QED
  BY <1>1, <1>2, <1>3, <1>4, <1>5, <1>6, <1>7, <1>8, <1>9 DEF Next, Participant

\* Until something restarts, the acknowledgement files describe what runs.
THEOREM AcksStayCurrent == Spec => []AcksAreCurrent
<1>1. Init => AcksAreCurrent
  BY DEF Init, AcksAreCurrent, RosAckCurrent, SionnaAckCurrent, IsaacAckCurrent, NoAck,
         Participants
<1>. QED
  BY <1>1, AcksAreCurrentStep, TypeCorrect, PTL DEF Spec

\* RevisionManager.status: IN_SYNC is true of the link service and of the scene for
\* any clients, operations and scene commands, and of the packet node except while
\* the revision agent waits for it.
THEOREM StatusIsTrue == Spec => []InSyncMeansRunning
<1>1. Evidence /\ AcksAreCurrent => InSyncMeansRunning
  <2> SUFFICES ASSUME Evidence, AcksAreCurrent, restarts = 0, InSync(desired.rev)
               PROVE  /\ sionna = desired.rev
                      /\ bridge = desired.rev
                      /\ packet.rev = desired.rev \/ agent.pending # NoRev
    BY DEF InSyncMeansRunning
  <2>. DEFINE d == desired.rev
  <2>1. d \in Rev
    BY DEF Evidence, TypeOK, StoreTypeOK, InSync, RevOrNone
  <2>2. \A p \in Participants : d \in applied[p]
    BY <2>1 DEF InSync, AllAcknowledged, Evidence, RecordsSound, MarksSound
  <2>3. /\ compatAck = NoAck \/ compatAck.rev = d
        /\ sionnaAck = NoAck \/ (sionnaAck.rev = d /\ sionnaAck.ok)
        /\ isaacAck = NoAck \/ (isaacAck.rev = d /\ isaacAck.ok)
    BY DEF InSync, Drifted
  <2>4. RosAckCurrent /\ SionnaAckCurrent /\ IsaacAckCurrent
    BY DEF AcksAreCurrent
  <2>5. sionna = d
    BY <2>2, <2>3, <2>4 DEF SionnaAckCurrent, Participants, Ack, NoAck
  <2>6. bridge = d
    BY <2>2, <2>3, <2>4 DEF IsaacAckCurrent, Participants
  <2>7. packet.rev = d \/ agent.pending # NoRev
    BY <2>2, <2>3, <2>4 DEF RosAckCurrent, Participants, NoAck
  <2>. QED
    BY <2>5, <2>6, <2>7
<1>. QED
  BY <1>1, EvidenceHolds, AcksStayCurrent, PTL
=============================================================================
