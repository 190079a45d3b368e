------------------------- MODULE PacketRuntimeProofs -------------------------
(***************************************************************************)
(* Proofs about PacketRuntime, for any number of streams and any routes:   *)
(* the cursor of a packet is where the gate let it go, and a delivery is   *)
(* counted once.                                                           *)
(***************************************************************************)
EXTENDS PacketRuntime, FiniteSetTheorems, TLAPS

\* A stream of its type whose packet stands inside its route.
GoodStream(s) == s \in StreamStates /\ s.packet.index <= Len(s.packet.route)

LEMMA RouteType ==
  ASSUME NEW route \in Routes
  PROVE  /\ route \in Seq(Nodes)
         /\ Len(route) \in Nat
         /\ Len(route) >= 2
         /\ Len(route) # 1
<1>1. route \in Seq(Nodes) /\ Len(route) \in Nat /\ Len(route) >= 2
  BY PacketRuntimeAssumption
<1>2. \A n \in Nat : n >= 2 => n # 1
  OBVIOUS
<1>3. Len(route) # 1
  BY <1>1, <1>2, Zenon
<1>. QED
  BY <1>1, <1>3

LEMMA PacketType ==
  ASSUME NEW route \in Routes, NEW n \in Nat
  PROVE  /\ Packet(n, route) \in Packets
         /\ Packet(n, route).index < Len(route)
  BY RouteType DEF Packet, Packets, Statuses

\* A packet at the head of its stream's route has crossed nothing.
LEMMA PacketFollows ==
  ASSUME NEW route \in Routes, NEW n \in Nat, NEW s,
         s.route = route, s.packet = Packet(n, route)
  PROVE  Followed(s)
<1>1. /\ s.packet.route = route
      /\ s.packet.index = 1
      /\ s.packet.status = "QUEUED"
      /\ s.packet.crossed = <<>>
  BY DEF Packet
<1>2. Len(s.packet.crossed) = 0
  BY <1>1
<1>3. \A i \in 1..Len(s.packet.crossed) :
        s.packet.crossed[i] = <<s.packet.route[i], s.packet.route[i + 1]>>
  BY <1>2
<1>4. s.packet.index # Len(s.packet.route)
  <2>1. Len(route) # 1
    BY RouteType
  <2>. QED
    BY <2>1, <1>1
<1>. QED
  BY <1>1, <1>2, <1>3, <1>4 DEF Followed

LEMMA StreamType ==
  ASSUME NEW route \in Routes
  PROVE  GoodStream(Stream(route)) /\ Followed(Stream(route))
<1>1. Packet(0, route) \in Packets
  BY PacketType
<1>2. Stream(route) \in StreamStates
  BY <1>1 DEF Stream, StreamStates
<1>3. /\ Stream(route).route = route
      /\ Stream(route).packet = Packet(0, route)
  BY DEF Stream
<1>4. Followed(Stream(route))
  BY <1>3, PacketFollows
<1>. QED
  BY <1>2, <1>3, <1>4, RouteType, PacketType DEF GoodStream, Packet

LEMMA NewPacketType ==
  ASSUME NEW s \in StreamStates, NEW n \in Nat
  PROVE  /\ GoodStream(NewPacket(s, n))
         /\ Followed(NewPacket(s, n))
         /\ NewPacket(s, n).packet = Packet(n, s.route)
         /\ NewPacket(s, n).completed = s.completed
         /\ ~NewPacket(s, n).paused
<1>1. s.route \in Routes /\ Packet(n, s.route) \in Packets
  BY PacketType DEF StreamStates
<1>2. NewPacket(s, n) \in StreamStates
  BY <1>1 DEF NewPacket, StreamStates
<1>3. /\ NewPacket(s, n).packet = Packet(n, s.route)
      /\ NewPacket(s, n).route = s.route
      /\ NewPacket(s, n).completed = s.completed
      /\ ~NewPacket(s, n).paused
  BY DEF NewPacket, StreamStates
<1>4. Followed(NewPacket(s, n))
  BY <1>1, <1>3, PacketFollows
<1>5. NewPacket(s, n).packet.index <= Len(NewPacket(s, n).packet.route)
  BY <1>1, <1>3, RouteType DEF Packet
<1>. QED
  BY <1>2, <1>3, <1>4, <1>5 DEF GoodStream

\* What step_stream starts a hop from: a packet that has not arrived.
LEMMA DepartingType ==
  ASSUME TypeOK, NEW k \in Branches
  PROVE  /\ GoodStream(Departing(k))
         /\ Followed(stream[k]) => Followed(Departing(k))
         /\ Followed(stream[k]) => Departing(k).packet.status # "DELIVERED"
         /\ Departing(k).completed = stream[k].completed
<1>1. stream[k] \in StreamStates /\ GoodStream(stream[k]) /\ sequence + 1 \in Nat
  BY DEF TypeOK, GoodStream
<1>2. CASE Fresh(k)
  <2>1. Departing(k) = NewPacket(stream[k], sequence + 1)
    BY <1>2 DEF Departing
  <2>2. Departing(k).packet = Packet(sequence + 1, stream[k].route)
    BY <2>1, <1>1, NewPacketType
  <2>3. Departing(k).packet.status = "QUEUED"
    BY <2>2 DEF Packet
  <2>4. /\ GoodStream(Departing(k))
        /\ Followed(Departing(k))
        /\ Departing(k).completed = stream[k].completed
    BY <2>1, <1>1, NewPacketType
  <2>. QED
    BY <2>3, <2>4
<1>3. CASE ~Fresh(k)
  BY <1>1, <1>3 DEF Departing, Fresh
<1>. QED
  BY <1>2, <1>3

\* One hop forward.
LEMMA AdvancedType ==
  ASSUME NEW p \in Packets, p.index < Len(p.route)
  PROVE  /\ Advanced(p) \in Packets
         /\ Advanced(p).index = p.index + 1
         /\ Advanced(p).route = p.route
         /\ Advanced(p).seq = p.seq
         /\ Advanced(p).crossed = Append(p.crossed, <<p.route[p.index], p.route[p.index + 1]>>)
         /\ Advanced(p).status = IF p.index + 1 = Len(p.route) THEN "DELIVERED" ELSE "ADVANCED"
<1>1. p.route \in Seq(Nodes) /\ p.index \in Nat \ {0} /\ p.crossed \in Seq(Nodes \X Nodes)
  BY RouteType DEF Packets
<1>2. <<p.route[p.index], p.route[p.index + 1]>> \in Nodes \X Nodes
  BY <1>1
<1>3. Append(p.crossed, <<p.route[p.index], p.route[p.index + 1]>>) \in Seq(Nodes \X Nodes)
  BY <1>1, <1>2
<1>4. /\ Advanced(p).index = p.index + 1
      /\ Advanced(p).route = p.route
      /\ Advanced(p).seq = p.seq
      /\ Advanced(p).crossed = Append(p.crossed, <<p.route[p.index], p.route[p.index + 1]>>)
      /\ Advanced(p).status = IF p.index + 1 = Len(p.route) THEN "DELIVERED" ELSE "ADVANCED"
  BY DEF Advanced, Packets
<1>5. Advanced(p) \in Packets
  <2>. DEFINE crossed == Append(p.crossed, <<p.route[p.index], p.route[p.index + 1]>>)
              status == IF p.index + 1 = Len(p.route) THEN "DELIVERED" ELSE "ADVANCED"
  <2>1. crossed \in Seq(Nodes \X Nodes) /\ status \in Statuses
    BY <1>3 DEF Statuses
  <2>2. Advanced(p) = [p EXCEPT !.index = p.index + 1, !.crossed = crossed, !.status = status]
    BY DEF Advanced
  <2>3. p.seq \in Nat /\ p.route \in Routes /\ p.index + 1 \in Nat \ {0}
    BY DEF Packets
  <2>. HIDE DEF crossed, status
  <2>4. Advanced(p) = [seq |-> p.seq, route |-> p.route, index |-> p.index + 1,
                       status |-> status, crossed |-> crossed]
    BY <2>2 DEF Packets
  <2>. QED
    BY <2>1, <2>3, <2>4 DEF Packets
<1>. QED
  BY <1>4, <1>5

\* Appending to a sequence adds an element at its end and leaves the others.
LEMMA AppendAt ==
  ASSUME NEW S, NEW hops \in Seq(S), NEW hop \in S
  PROVE  /\ Len(Append(hops, hop)) = Len(hops) + 1
         /\ Append(hops, hop)[Len(hops) + 1] = hop
         /\ \A i \in 1..Len(hops) : Append(hops, hop)[i] = hops[i]
OBVIOUS

LEMMA AdvancedFollows ==
  ASSUME NEW s \in StreamStates, Followed(s), s.packet.index < Len(s.packet.route),
         NEW t \in StreamStates, t.route = s.route, t.packet = Advanced(s.packet)
  PROVE  Followed(t)
<1>. DEFINE p == s.packet
            q == Advanced(p)
<1>1. p \in Packets /\ p.index \in Nat \ {0} /\ p.crossed \in Seq(Nodes \X Nodes)
  BY DEF StreamStates, Packets
<1>2. /\ q.index = p.index + 1
      /\ q.route = p.route
      /\ q.crossed = Append(p.crossed, <<p.route[p.index], p.route[p.index + 1]>>)
      /\ q.status = "DELIVERED" <=> q.index = Len(q.route)
  BY <1>1, AdvancedType
<1>3. /\ Len(p.crossed) = p.index - 1
      /\ \A i \in 1..Len(p.crossed) : p.crossed[i] = <<p.route[i], p.route[i + 1]>>
  BY DEF Followed
<1>. DEFINE hop == <<p.route[p.index], p.route[p.index + 1]>>
            n == Len(p.crossed)
<1>7. /\ hop \in Nodes \X Nodes
      /\ n \in Nat
  <2>1. p.route \in Seq(Nodes)
    BY <1>1, RouteType DEF Packets
  <2>2. p.index \in 1..Len(p.route) /\ p.index + 1 \in 1..Len(p.route)
    BY <1>1, <2>1
  <2>. QED
    BY <1>1, <2>1, <2>2
<1>8. /\ Len(Append(p.crossed, hop)) = n + 1
      /\ Append(p.crossed, hop)[n + 1] = hop
      /\ \A i \in 1..n : Append(p.crossed, hop)[i] = p.crossed[i]
  <2>. HIDE DEF hop
  <2>. QED
    BY <1>1, <1>7, AppendAt
<1>9. p.index = n + 1
  <2>1. \A i, l \in Nat : l = i - 1 => i = l + 1
    OBVIOUS
  <2>. QED
    BY <1>1, <1>3, <1>7, <2>1
<1>4. Len(q.crossed) = q.index - 1
  <2>1. Len(q.crossed) = n + 1 /\ q.index = (n + 1) + 1
    BY <1>2, <1>8, <1>9, Zenon
  <2>2. \A l \in Nat : l + 1 = ((l + 1) + 1) - 1
    OBVIOUS
  <2>. QED
    BY <1>7, <2>1, <2>2, Zenon
<1>5. ASSUME NEW i \in 1..Len(q.crossed)
      PROVE  q.crossed[i] = <<q.route[i], q.route[i + 1]>>
  <2>0. i \in 1..n \/ i = n + 1
    <3>1. i \in 1..(n + 1)
      BY <1>2, <1>8, Zenon
    <3>. HIDE DEF n
    <3>. QED
      BY <3>1, <1>7
  <2>1. CASE i = n + 1
    <3>1. q.crossed[i] = hop
      BY <2>1, <1>2, <1>8, Zenon
    <3>. QED
      BY <2>1, <3>1, <1>2, <1>9, Zenon
  <2>2. CASE i \in 1..n
    <3>1. q.crossed[i] = p.crossed[i]
      BY <2>2, <1>2, <1>8, Zenon
    <3>. QED
      BY <2>2, <3>1, <1>2, <1>3, Zenon
  <2>. QED
    BY <2>0, <2>1, <2>2
<1>. QED
  BY <1>2, <1>4, <1>5 DEF Followed

\* What the three answers of the gate, and clear_outage, make of a stream.
LEMMA AcceptedType ==
  ASSUME NEW s, GoodStream(s), Followed(s), s.packet.status # "DELIVERED"
  PROVE  /\ GoodStream(Accepted(s))
         /\ Followed(Accepted(s))
         /\ Accepted(s).packet.seq = s.packet.seq
         /\ Accepted(s).packet.status \in {"DELIVERED", "ADVANCED"}
         /\ Accepted(s).completed =
              IF Accepted(s).packet.status = "DELIVERED" THEN s.completed + 1 ELSE s.completed
<1>. DEFINE p == s.packet
            q == Advanced(p)
<1>1. s \in StreamStates /\ p \in Packets /\ p.route \in Routes /\ p.index \in Nat
  BY DEF GoodStream, StreamStates, Packets
<1>2. p.index < Len(p.route)
  <2>1. p.index <= Len(p.route) /\ p.index # Len(p.route)
    BY DEF GoodStream, Followed
  <2>2. Len(p.route) \in Nat
    BY <1>1, RouteType
  <2>3. \A m, n \in Nat : m <= n /\ m # n => m < n
    OBVIOUS
  <2>. QED
    BY <1>1, <2>1, <2>2, <2>3, Zenon
<1>3. /\ q \in Packets
      /\ q.seq = p.seq
      /\ q.route = p.route
      /\ q.index = p.index + 1
      /\ q.status \in {"DELIVERED", "ADVANCED"}
  BY <1>1, <1>2, AdvancedType
<1>. HIDE DEF q
<1>4. Accepted(s) = [s EXCEPT !.packet = q, !.paused = FALSE, !.decision = "feasible",
                       !.completed = IF q.status = "DELIVERED" THEN @ + 1 ELSE @]
  BY DEF Accepted, q
<1>5. /\ Accepted(s).packet = q
      /\ Accepted(s).route = s.route
      /\ Accepted(s).completed = IF q.status = "DELIVERED" THEN s.completed + 1 ELSE s.completed
      /\ Accepted(s) \in StreamStates
  <2>. DEFINE count == IF q.status = "DELIVERED" THEN s.completed + 1 ELSE s.completed
  <2>1. s.completed \in Nat /\ s.route \in Routes
    BY <1>1 DEF StreamStates
  <2>2. count \in Nat
    BY <2>1
  <2>3. Accepted(s) = [s EXCEPT !.packet = q, !.paused = FALSE, !.decision = "feasible",
                         !.completed = count]
    BY <1>4
  <2>. HIDE DEF count
  <2>4. Accepted(s) = [route |-> s.route, packet |-> q, completed |-> count,
                       paused |-> FALSE, decision |-> "feasible"]
    BY <1>1, <2>3 DEF StreamStates
  <2>5. Accepted(s) \in StreamStates
    BY <2>1, <2>2, <2>4, <1>3 DEF StreamStates
  <2>6. Accepted(s).packet = q /\ Accepted(s).route = s.route /\ Accepted(s).completed = count
    BY <2>4
  <2>. QED
    BY <2>5, <2>6 DEF count
<1>6. Followed(Accepted(s))
  BY <1>1, <1>2, <1>5, AdvancedFollows DEF q
<1>7. q.index <= Len(q.route)
  BY <1>1, <1>2, <1>3, RouteType
<1>. QED
  BY <1>3, <1>5, <1>6, <1>7 DEF GoodStream

LEMMA RestampedType ==
  ASSUME NEW s, GoodStream(s), Followed(s), s.packet.status # "DELIVERED",
         NEW t \in StreamStates, NEW status \in Statuses \ {"DELIVERED"},
         t.route = s.route, t.packet = [s.packet EXCEPT !.status = status]
  PROVE  GoodStream(t) /\ Followed(t) /\ t.packet.seq = s.packet.seq
         /\ t.packet.status = status
<1>1. s \in StreamStates /\ s.packet \in Packets
  BY DEF GoodStream, StreamStates
<1>2. /\ t.packet.route = s.packet.route
      /\ t.packet.index = s.packet.index
      /\ t.packet.crossed = s.packet.crossed
      /\ t.packet.seq = s.packet.seq
      /\ t.packet.status = status
  BY <1>1 DEF Packets
<1>. QED
  BY <1>2 DEF GoodStream, Followed

LEMMA RefusedType ==
  ASSUME NEW s, GoodStream(s), Followed(s), s.packet.status # "DELIVERED"
  PROVE  /\ GoodStream(Refused(s)) /\ Followed(Refused(s))
         /\ Refused(s).packet.seq = s.packet.seq
         /\ Refused(s).packet.status = "PAUSED_OUTAGE"
         /\ Refused(s).completed = s.completed
<1>1. s \in StreamStates /\ s.packet \in Packets
  BY DEF GoodStream, StreamStates
<1>2. [s.packet EXCEPT !.status = "PAUSED_OUTAGE"] \in Packets
  BY <1>1 DEF Packets, Statuses
<1>3. /\ Refused(s) \in StreamStates
      /\ Refused(s).route = s.route
      /\ Refused(s).completed = s.completed
      /\ Refused(s).packet = [s.packet EXCEPT !.status = "PAUSED_OUTAGE"]
  BY <1>1, <1>2 DEF Refused, StreamStates
<1>. QED
  BY <1>3, RestampedType DEF Statuses

LEMMA RaisedType ==
  ASSUME NEW s, GoodStream(s), Followed(s), s.packet.status # "DELIVERED"
  PROVE  /\ GoodStream(Raised(s)) /\ Followed(Raised(s))
         /\ Raised(s).packet.seq = s.packet.seq
         /\ Raised(s).packet.status = "WAITING_FOR_LINK"
         /\ Raised(s).completed = s.completed
<1>1. s \in StreamStates /\ s.packet \in Packets
  BY DEF GoodStream, StreamStates
<1>2. [s.packet EXCEPT !.status = "WAITING_FOR_LINK"] \in Packets
  BY <1>1 DEF Packets, Statuses
<1>3. /\ Raised(s) \in StreamStates
      /\ Raised(s).route = s.route
      /\ Raised(s).completed = s.completed
      /\ Raised(s).packet = [s.packet EXCEPT !.status = "WAITING_FOR_LINK"]
  BY <1>1, <1>2 DEF Raised, StreamStates
<1>. QED
  BY <1>3, RestampedType DEF Statuses

LEMMA ClearedType ==
  ASSUME NEW s, GoodStream(s), Followed(s)
  PROVE  /\ GoodStream(Cleared(s)) /\ Followed(Cleared(s))
         /\ Cleared(s).packet.seq = s.packet.seq
         /\ Cleared(s).packet.status = "DELIVERED" <=> s.packet.status = "DELIVERED"
         /\ s.packet.status = "QUEUED" => Cleared(s).packet.status = "QUEUED"
         /\ Cleared(s).completed = s.completed
<1>. DEFINE status == IF s.packet.status = "PAUSED_OUTAGE" THEN "RETRYING" ELSE s.packet.status
<1>1. s \in StreamStates /\ s.packet \in Packets /\ status \in Statuses
  BY DEF GoodStream, StreamStates, Packets, Statuses
<1>2. Cleared(s) = [s EXCEPT !.paused = FALSE, !.packet.status = status]
  BY DEF Cleared
<1>3. status = "DELIVERED" <=> s.packet.status = "DELIVERED"
  OBVIOUS
<1>4. s.packet.status = "QUEUED" => status = "QUEUED"
  OBVIOUS
<1>. HIDE DEF status
<1>5. [s.packet EXCEPT !.status = status] \in Packets
  BY <1>1 DEF Packets
<1>6. /\ Cleared(s) \in StreamStates
      /\ Cleared(s).route = s.route
      /\ Cleared(s).completed = s.completed
      /\ Cleared(s).packet = [s.packet EXCEPT !.status = status]
  BY <1>1, <1>2, <1>5 DEF StreamStates
<1>7. /\ Cleared(s).packet.route = s.packet.route
      /\ Cleared(s).packet.index = s.packet.index
      /\ Cleared(s).packet.crossed = s.packet.crossed
      /\ Cleared(s).packet.seq = s.packet.seq
      /\ Cleared(s).packet.status = status
  BY <1>1, <1>6 DEF Packets
<1>. QED
  BY <1>3, <1>4, <1>6, <1>7 DEF GoodStream, Followed

-----------------------------------------------------------------------------
(* The cursor.                                                               *)

Placed ==
  /\ stream \in [Branches -> StreamStates]
  /\ \A k \in Branches : GoodStream(stream[k]) /\ Followed(stream[k])

Calls == [at : {"idle", "ensure", "step"}, turn : Branches]

\* One stream moves.
LEMMA OneStreamPlaced ==
  ASSUME Placed, NEW k \in Branches, NEW s, GoodStream(s), Followed(s),
         stream' = [stream EXCEPT ![k] = s]
  PROVE  Placed'
<1>1. s \in StreamStates
  BY DEF GoodStream
<1>2. ASSUME NEW j \in Branches
      PROVE  stream'[j] \in StreamStates /\ GoodStream(stream'[j]) /\ Followed(stream'[j])
  BY <1>1 DEF Placed
<1>3. stream' \in [Branches -> StreamStates]
  BY <1>1 DEF Placed
<1>. QED
  BY <1>2, <1>3 DEF Placed, GoodStream, Followed

LEMMA CallType ==
  /\ NoCall \in Calls
  /\ \A k \in Branches : AfterTurn(k) \in Calls
  BY PacketRuntimeAssumption DEF NoCall, AfterTurn, Calls, Branches

\* The stream a hop starts from, when the streams are placed.
LEMMA DepartingPlaced ==
  ASSUME TypeOK, CursorFollowsGate, NEW k \in Branches
  PROVE  /\ GoodStream(Departing(k))
         /\ Followed(Departing(k))
         /\ Departing(k).packet.status # "DELIVERED"
         /\ Departing(k).completed = stream[k].completed
  BY DepartingType DEF CursorFollowsGate

LEMMA CursorStep ==
  ASSUME TypeOK, CursorFollowsGate, [Next]_vars
  PROVE  TypeOK' /\ CursorFollowsGate'
<1>. DEFINE Small == /\ mode \in {"chain", "parallel"}
                    /\ sequence \in Nat
                    /\ call \in Calls
                    /\ delivered \in [Branches -> SUBSET Nat]
<1>1. Small /\ Placed
  BY DEF TypeOK, CursorFollowsGate, Placed, GoodStream, Calls
<1>. SUFFICES Small' /\ Placed'
  BY DEF TypeOK, CursorFollowsGate, Placed, GoodStream, Calls
<1>2. CASE BeginStep
  BY <1>1, <1>2, PacketRuntimeAssumption DEF BeginStep, Calls, Branches, Placed, GoodStream, Followed
<1>3. CASE EnsurePacket
  <2>1. call.turn \in Branches /\ stream[call.turn] \in StreamStates /\ sequence + 1 \in Nat
    BY <1>1 DEF Calls, Placed
  <2>2. Small'
    BY <1>1, <1>3, <2>1, PacketRuntimeAssumption DEF EnsurePacket, Calls, Branches
  <2>3. CASE stream[call.turn].packet.seq = 0
    <3>1. stream' = [stream EXCEPT ![call.turn] = NewPacket(stream[call.turn], sequence + 1)]
      BY <1>3, <2>3 DEF EnsurePacket
    <3>2. Placed'
      BY <3>1, <2>1, <1>1, NewPacketType, OneStreamPlaced
    <3>. QED
      BY <3>2, <2>2
  <2>4. CASE stream[call.turn].packet.seq # 0
    <3>1. Placed'
      BY <1>1, <1>3, <2>4 DEF EnsurePacket, Placed, GoodStream, Followed
    <3>. QED
      BY <3>1, <2>2
  <2>. QED
    BY <2>3, <2>4
<1>4. ASSUME NEW k \in Branches, HopAccepted(k)
      PROVE  Small' /\ Placed'
  <2>1. /\ GoodStream(Departing(k)) /\ Followed(Departing(k))
        /\ Departing(k).packet.status # "DELIVERED"
    BY DepartingPlaced
  <2>2. GoodStream(Accepted(Departing(k))) /\ Followed(Accepted(Departing(k)))
    BY <2>1, AcceptedType
  <2>3. stream' = [stream EXCEPT ![k] = Accepted(Departing(k))]
    BY <1>4 DEF HopAccepted, Hop
  <2>4. Placed'
    BY <1>1, <2>2, <2>3, OneStreamPlaced
  <2>5. Accepted(Departing(k)).packet.seq \in Nat
    BY <2>2 DEF GoodStream, StreamStates, Packets
  <2>6. delivered' \in [Branches -> SUBSET Nat]
    BY <1>1, <1>4, <2>5 DEF HopAccepted
  <2>7. mode' = mode /\ sequence' \in Nat /\ call' \in Calls
    BY <1>1, <1>4, CallType DEF HopAccepted, Hop
  <2>. QED
    BY <1>1, <2>4, <2>6, <2>7
<1>5. ASSUME NEW k \in Branches, HopRefused(k) \/ GateRaises(k)
      PROVE  Small' /\ Placed'
  <2>1. /\ GoodStream(Departing(k)) /\ Followed(Departing(k))
        /\ Departing(k).packet.status # "DELIVERED"
    BY DepartingPlaced
  <2>2. \/ stream' = [stream EXCEPT ![k] = Refused(Departing(k))]
        \/ stream' = [stream EXCEPT ![k] = Raised(Departing(k))]
    BY <1>5 DEF HopRefused, GateRaises, Hop
  <2>3. Placed'
    BY <1>1, <2>1, <2>2, RefusedType, RaisedType, OneStreamPlaced
  <2>4. mode' = mode /\ sequence' \in Nat /\ call' \in Calls /\ delivered' = delivered
    BY <1>1, <1>5, CallType DEF HopRefused, GateRaises, Hop
  <2>. QED
    BY <1>1, <2>3, <2>4
<1>6. ASSUME NEW targets, ClearOutage(targets)
      PROVE  Small' /\ Placed'
  <2>1. ASSUME NEW k \in Branches
        PROVE  /\ stream'[k] = IF k \in targets THEN Cleared(stream[k]) ELSE stream[k]
               /\ GoodStream(stream'[k]) /\ Followed(stream'[k])
    BY <1>1, <1>6, ClearedType DEF ClearOutage, Placed
  <2>2. stream' \in [Branches -> StreamStates]
    BY <1>6, <2>1 DEF ClearOutage, GoodStream
  <2>3. Placed'
    BY <2>1, <2>2 DEF Placed, GoodStream, Followed
  <2>. QED
    BY <1>1, <1>6, <2>3 DEF ClearOutage
<1>7. ASSUME NEW k \in Branches, NEW route \in Routes, ReplaceRoute(k, route)
      PROVE  Small' /\ Placed'
  <2>. DEFINE s == [stream[k] EXCEPT !.route = route]
  <2>1. s \in StreamStates /\ sequence + 1 \in Nat
    BY <1>1 DEF Placed, StreamStates
  <2>2. stream' = [stream EXCEPT ![k] = NewPacket(s, sequence + 1)]
    BY <1>7 DEF ReplaceRoute
  <2>. HIDE DEF s
  <2>3. Placed'
    BY <1>1, <2>1, <2>2, NewPacketType, OneStreamPlaced
  <2>4. mode' = mode /\ sequence' \in Nat /\ call' = call /\ delivered' = delivered
    BY <1>1, <1>7 DEF ReplaceRoute
  <2>. QED
    BY <1>1, <2>3, <2>4
<1>8. CASE UNCHANGED vars
  BY <1>1, <1>8 DEF vars, Placed, GoodStream, Followed
<1>. QED
  BY <1>2, <1>3, <1>4, <1>5, <1>6, <1>7, <1>8 DEF Next

LEMMA CursorInit == Init => TypeOK /\ CursorFollowsGate
<1>. SUFFICES ASSUME Init PROVE TypeOK /\ CursorFollowsGate
  OBVIOUS
<1>1. ASSUME NEW k \in Branches
      PROVE  GoodStream(stream[k]) /\ Followed(stream[k])
  <2>1. PICK route \in Routes : stream[k] = Stream(route)
    BY DEF Init
  <2>. QED
    BY <2>1, StreamType
<1>2. stream \in [Branches -> StreamStates]
  BY <1>1 DEF Init, GoodStream
<1>3. call \in Calls /\ sequence \in Nat /\ delivered \in [Branches -> SUBSET Nat]
  BY CallType DEF Init
<1>. QED
  BY <1>1, <1>2, <1>3 DEF Init, TypeOK, CursorFollowsGate, GoodStream, Calls

\* In every behaviour of the packet runtime the state is well formed and a packet
\* stands exactly where the hops the gate accepted for it lead.
THEOREM CursorCorrect == Spec => [](TypeOK /\ CursorFollowsGate)
<1>1. TypeOK /\ CursorFollowsGate /\ [Next]_vars => (TypeOK /\ CursorFollowsGate)'
  BY CursorStep
<1>. QED
  BY <1>1, CursorInit, PTL DEF Spec

\* The streams, the call in progress and the counters keep their types: no cursor
\* leaves its route, whichever routes a configuration update installs.
THEOREM TypeCorrect == Spec => []TypeOK
  BY CursorCorrect, PTL

-----------------------------------------------------------------------------
(* The numbers.                                                              *)

Numbered ==
  /\ \A k \in Branches :
       /\ stream[k].packet.seq \in 0..sequence
       /\ \A n \in delivered[k] : n \in 1..sequence
       /\ stream[k].packet.seq \in delivered[k] <=> stream[k].packet.status = "DELIVERED"
       /\ stream[k].packet.seq = 0 => stream[k].packet.status = "QUEUED"
  /\ \A j, k \in Branches :
       j # k => /\ stream[j].packet.seq # 0 => stream[j].packet.seq # stream[k].packet.seq
                /\ stream[j].packet.seq \notin delivered[k]

Supplied ==
  \A k \in Branches :
    /\ call.at = "step" => stream[k].packet.seq # 0
    /\ call.at = "ensure" /\ k < call.turn => stream[k].packet.seq # 0

LEMMA FreshParts == NumbersAreFresh <=> Numbered /\ Supplied
  BY DEF NumbersAreFresh, Numbered, Supplied

\* One stream goes on with its undelivered packet or takes the next number, and
\* its packet is delivered or not.
LEMMA OneStreamNumbered ==
  ASSUME TypeOK, Numbered, NEW k \in Branches, NEW s, GoodStream(s),
         stream' = [stream EXCEPT ![k] = s],
         \/ /\ s.packet.seq = stream[k].packet.seq
            /\ stream[k].packet.status # "DELIVERED"
            /\ stream[k].packet.seq # 0
            /\ sequence' = sequence
         \/ /\ s.packet.seq = sequence + 1
            /\ sequence' = sequence + 1,
         \/ /\ s.packet.status # "DELIVERED"
            /\ delivered' = delivered
         \/ /\ s.packet.status = "DELIVERED"
            /\ delivered' = [delivered EXCEPT ![k] = @ \union {s.packet.seq}]
  PROVE  /\ Numbered'
         /\ s.packet.seq # 0
         /\ s.packet.seq \notin delivered[k]
         /\ \A j \in Branches : j # k => s.packet.seq \notin delivered[j]
<1>. DEFINE n == s.packet.seq
<1>0. /\ sequence \in Nat
      /\ \A j \in Branches : /\ stream[j].packet.seq \in 0..sequence
                             /\ \A i \in delivered[j] : i \in 1..sequence
                             /\ stream[j].packet.seq \in delivered[j]
                                  <=> stream[j].packet.status = "DELIVERED"
      /\ \A j, i \in Branches : j # i => /\ stream[j].packet.seq # 0
                                             => stream[j].packet.seq # stream[i].packet.seq
                                         /\ stream[j].packet.seq \notin delivered[i]
  <2>1. sequence \in Nat
    BY DEF TypeOK
  <2>. QED
    BY <2>1 DEF Numbered
<1>1. /\ sequence \in Nat /\ sequence' \in Nat /\ sequence <= sequence'
      /\ n \in Nat /\ n # 0 /\ n \in 1..sequence'
  <2>1. CASE /\ n = stream[k].packet.seq
             /\ stream[k].packet.seq # 0
             /\ sequence' = sequence
    BY <2>1, <1>0
  <2>2. CASE n = sequence + 1 /\ sequence' = sequence + 1
    BY <2>2, <1>0
  <2>. QED
    BY <2>1, <2>2, Zenon
<1>2. /\ n \notin delivered[k]
      /\ \A j \in Branches : j # k => n \notin delivered[j] /\ n # stream[j].packet.seq
  <2>1. CASE /\ n = stream[k].packet.seq
             /\ stream[k].packet.status # "DELIVERED"
             /\ stream[k].packet.seq # 0
    BY <2>1, <1>0
  <2>2. CASE n = sequence + 1
    <3>1. sequence + 1 \notin 0..sequence /\ sequence + 1 \notin 1..sequence
      BY <1>0
    <3>2. n \notin 0..sequence /\ n \notin 1..sequence
      BY <2>2, <3>1, Zenon
    <3>3. \A j \in Branches : /\ stream[j].packet.seq \in 0..sequence
                              /\ \A i \in delivered[j] : i \in 1..sequence
      BY <1>0, Zenon
    <3>. HIDE DEF n
    <3>. QED
      BY <3>2, <3>3, Zenon
  <2>. QED
    BY <2>1, <2>2, Zenon
<1>3. /\ stream'[k] = s
      /\ \A j \in Branches : j # k => stream'[j] = stream[j]
  BY DEF TypeOK
<1>4. /\ \A j \in Branches : j # k => delivered'[j] = delivered[j]
      /\ delivered'[k] = IF s.packet.status = "DELIVERED" THEN delivered[k] \union {n}
                                                          ELSE delivered[k]
  BY DEF TypeOK
<1>. HIDE DEF n
<1>5. s.packet.seq = n
  BY DEF n
<1>6. ASSUME NEW j \in Branches
      PROVE  /\ stream'[j].packet.seq \in 0..sequence'
             /\ \A i \in delivered'[j] : i \in 1..sequence'
             /\ stream'[j].packet.seq \in delivered'[j] <=> stream'[j].packet.status = "DELIVERED"
             /\ stream'[j].packet.seq = 0 => stream'[j].packet.status = "QUEUED"
  <2>1. CASE j = k
    <3>1. stream'[j].packet.seq = n /\ stream'[j].packet.status = s.packet.status
      BY <2>1, <1>3, <1>5
    <3>2. \A i \in delivered[k] : i \in 1..sequence'
      BY <1>1 DEF Numbered
    <3>. QED
      BY <2>1, <3>1, <3>2, <1>1, <1>2, <1>4
  <2>2. CASE j # k
    BY <2>2, <1>1, <1>3, <1>4 DEF Numbered
  <2>. QED
    BY <2>1, <2>2
<1>7. ASSUME NEW i \in Branches, NEW j \in Branches, i # j
      PROVE  /\ stream'[i].packet.seq # 0 => stream'[i].packet.seq # stream'[j].packet.seq
             /\ stream'[i].packet.seq \notin delivered'[j]
  <2>1. CASE i = k
    BY <2>1, <1>7, <1>2, <1>3, <1>4, <1>5
  <2>2. CASE j = k
    <3>1. /\ stream'[i].packet.seq = stream[i].packet.seq
          /\ stream'[j].packet.seq = n
          /\ stream[i].packet.seq # n
          /\ stream[i].packet.seq \notin delivered[k]
      BY <2>2, <1>7, <1>2, <1>3, <1>5 DEF Numbered
    <3>. QED
      BY <3>1, <2>2, <1>4
  <2>3. CASE i # k /\ j # k
    BY <2>3, <1>7, <1>3, <1>4 DEF Numbered
  <2>. QED
    BY <2>1, <2>2, <2>3
<1>. QED
  BY <1>1, <1>2, <1>5, <1>6, <1>7 DEF Numbered

\* A delivery adds one to the counter and one number to the deliveries.
LEMMA OneStreamCounted ==
  ASSUME TypeOK, DeliveredOnce, NEW k \in Branches, NEW s,
         stream' = [stream EXCEPT ![k] = s],
         s.packet.seq \notin delivered[k],
         \A j \in Branches : j # k => s.packet.seq \notin delivered[j],
         \/ /\ delivered' = delivered
            /\ s.completed = stream[k].completed
         \/ /\ delivered' = [delivered EXCEPT ![k] = @ \union {s.packet.seq}]
            /\ s.completed = stream[k].completed + 1
  PROVE  DeliveredOnce'
<1>1. /\ stream'[k] = s
      /\ \A j \in Branches : j # k => stream'[j] = stream[j]
      /\ \A j \in Branches : j # k => delivered'[j] = delivered[j]
      /\ delivered'[k] \in {delivered[k], delivered[k] \union {s.packet.seq}}
  BY DEF TypeOK
<1>2. IsFiniteSet(delivered'[k]) /\ stream'[k].completed = Cardinality(delivered'[k])
  <2>1. IsFiniteSet(delivered[k]) /\ stream[k].completed = Cardinality(delivered[k])
    BY DEF DeliveredOnce
  <2>2. /\ IsFiniteSet(delivered[k] \union {s.packet.seq})
        /\ Cardinality(delivered[k] \union {s.packet.seq}) = Cardinality(delivered[k]) + 1
    BY <2>1, FS_AddElement
  <2>3. CASE delivered' = delivered /\ s.completed = stream[k].completed
    BY <2>1, <2>3, <1>1
  <2>4. CASE /\ delivered' = [delivered EXCEPT ![k] = @ \union {s.packet.seq}]
             /\ s.completed = stream[k].completed + 1
    <3>1. delivered'[k] = delivered[k] \union {s.packet.seq}
      BY <2>4 DEF TypeOK
    <3>. QED
      BY <3>1, <2>1, <2>2, <2>4, <1>1
  <2>. QED
    BY <2>3, <2>4
<1>3. ASSUME NEW j \in Branches
      PROVE  IsFiniteSet(delivered'[j]) /\ stream'[j].completed = Cardinality(delivered'[j])
  BY <1>1, <1>2 DEF DeliveredOnce
<1>4. ASSUME NEW i \in Branches, NEW j \in Branches, i # j
      PROVE  delivered'[i] \intersect delivered'[j] = {}
  BY <1>1, <1>4 DEF DeliveredOnce
<1>. QED
  BY <1>3, <1>4 DEF DeliveredOnce

\* What a hop does to the numbers, whatever the gate answered.
LEMMA HopNumbered ==
  ASSUME TypeOK, CursorFollowsGate, Numbered, Supplied, DeliveredOnce,
         NEW k \in Branches, NEW s, GoodStream(s), Hop(k, s),
         s.packet.seq = Departing(k).packet.seq,
         call' \in {NoCall, AfterTurn(k)},
         \/ /\ s.packet.status # "DELIVERED"
            /\ delivered' = delivered
            /\ s.completed = stream[k].completed
         \/ /\ s.packet.status = "DELIVERED"
            /\ delivered' = [delivered EXCEPT ![k] = @ \union {s.packet.seq}]
            /\ s.completed = stream[k].completed + 1
  PROVE  Numbered' /\ Supplied' /\ DeliveredOnce'
<1>1. stream' = [stream EXCEPT ![k] = s] /\ call.at = "step"
  BY DEF Hop
<1>2. \/ /\ s.packet.seq = stream[k].packet.seq
         /\ stream[k].packet.status # "DELIVERED"
         /\ stream[k].packet.seq # 0
         /\ sequence' = sequence
      \/ /\ s.packet.seq = sequence + 1
         /\ sequence' = sequence + 1
  <2>1. stream[k].packet.seq # 0
    BY <1>1 DEF Supplied
  <2>2. CASE Fresh(k)
    <3>1. Departing(k).packet = Packet(sequence + 1, stream[k].route)
      BY <2>2, NewPacketType DEF Departing, TypeOK
    <3>2. s.packet.seq = sequence + 1
      BY <3>1 DEF Packet
    <3>. QED
      BY <3>2, <2>2 DEF Hop
  <2>3. CASE ~Fresh(k)
    BY <2>1, <2>3 DEF Departing, Hop, Fresh
  <2>. QED
    BY <2>2, <2>3
<1>3. /\ Numbered'
      /\ s.packet.seq # 0
      /\ s.packet.seq \notin delivered[k]
      /\ \A j \in Branches : j # k => s.packet.seq \notin delivered[j]
  BY <1>1, <1>2, OneStreamNumbered
<1>4. DeliveredOnce'
  BY <1>1, <1>3, OneStreamCounted
<1>5. ASSUME NEW j \in Branches
      PROVE  stream'[j].packet.seq # 0
  BY <1>1, <1>3 DEF Supplied, TypeOK
<1>. QED
  BY <1>3, <1>4, <1>5 DEF Supplied

LEMMA NumbersStep ==
  ASSUME TypeOK, CursorFollowsGate, NumbersAreFresh, DeliveredOnce, [Next]_vars
  PROVE  NumbersAreFresh' /\ DeliveredOnce'
<1>1. Numbered /\ Supplied
  BY FreshParts
<1>. SUFFICES Numbered' /\ Supplied' /\ DeliveredOnce'
  BY DEF NumbersAreFresh, Numbered, Supplied
<1>2. CASE BeginStep
  BY <1>1, <1>2 DEF BeginStep, Numbered, Supplied, DeliveredOnce, Branches
<1>3. CASE EnsurePacket
  <2>. DEFINE k == call.turn
  <2>1. /\ k \in Branches /\ stream[k] \in StreamStates /\ sequence + 1 \in Nat
        /\ Branches = 1..Streams /\ Streams \in Nat
    BY PacketRuntimeAssumption DEF TypeOK, Branches
  <2>2. /\ call.at = "ensure" /\ delivered' = delivered
        /\ call' = IF k = Streams THEN [at |-> "step", turn |-> 1]
                                   ELSE [call EXCEPT !.turn = k + 1]
    BY <1>3 DEF EnsurePacket
  <2>3. Numbered' /\ DeliveredOnce' /\ stream'[k].packet.seq # 0
        /\ \A j \in Branches : stream[j].packet.seq # 0 => stream'[j].packet.seq # 0
    <3>1. CASE stream[k].packet.seq = 0
      <4>. DEFINE s == NewPacket(stream[k], sequence + 1)
      <4>1. /\ GoodStream(s)
            /\ s.packet = Packet(sequence + 1, stream[k].route)
            /\ s.completed = stream[k].completed
        BY <2>1, NewPacketType
      <4>2. s.packet.seq = sequence + 1 /\ s.packet.status = "QUEUED"
        BY <4>1 DEF Packet
      <4>3. stream' = [stream EXCEPT ![k] = s] /\ sequence' = sequence + 1
        BY <1>3, <3>1 DEF EnsurePacket
      <4>. HIDE DEF s
      <4>4. /\ Numbered'
            /\ s.packet.seq # 0
            /\ s.packet.seq \notin delivered[k]
            /\ \A j \in Branches : j # k => s.packet.seq \notin delivered[j]
        BY <1>1, <2>1, <2>2, <4>1, <4>2, <4>3, OneStreamNumbered
      <4>5. DeliveredOnce'
        BY <2>1, <2>2, <4>1, <4>3, <4>4, OneStreamCounted
      <4>6. stream'[k] = s /\ \A j \in Branches : j # k => stream'[j] = stream[j]
        BY <2>1, <4>3 DEF TypeOK
      <4>. QED
        BY <4>4, <4>5, <4>6
    <3>2. CASE stream[k].packet.seq # 0
      <4>1. stream' = stream /\ sequence' = sequence
        BY <1>3, <3>2 DEF EnsurePacket
      <4>. QED
        BY <4>1, <1>1, <2>2, <3>2 DEF Numbered, DeliveredOnce
    <3>. QED
      BY <3>1, <3>2
  <2>4. ASSUME NEW j \in Branches, j <= k
        PROVE  stream'[j].packet.seq # 0
    <3>1. CASE j = k
      BY <3>1, <2>3
    <3>2. CASE j # k
      <4>1. j < k
        BY <2>1, <2>4, <3>2
      <4>2. stream[j].packet.seq # 0
        BY <1>1, <2>2, <4>1 DEF Supplied
      <4>. QED
        BY <2>3, <4>2
    <3>. QED
      BY <3>1, <3>2
  <2>5. Supplied'
    <3>1. CASE k = Streams
      <4>1. call'.at = "step"
        BY <2>2, <3>1
      <4>2. \A j \in Branches : stream'[j].packet.seq # 0
        BY <2>1, <2>4, <3>1
      <4>. QED
        BY <4>1, <4>2 DEF Supplied
    <3>2. CASE k # Streams
      <4>1. call'.at = "ensure" /\ call'.turn = k + 1
        BY <2>2, <3>2 DEF TypeOK
      <4>2. \A j \in Branches : j < k + 1 => j <= k
        BY <2>1
      <4>. QED
        BY <4>1, <4>2, <2>4 DEF Supplied
    <3>. QED
      BY <3>1, <3>2
  <2>. QED
    BY <2>3, <2>5
<1>4. ASSUME NEW k \in Branches, HopAccepted(k)
      PROVE  Numbered' /\ Supplied' /\ DeliveredOnce'
  <2>. DEFINE s == Accepted(Departing(k))
  <2>1. /\ GoodStream(Departing(k)) /\ Followed(Departing(k))
        /\ Departing(k).packet.status # "DELIVERED"
        /\ Departing(k).completed = stream[k].completed
    BY DepartingPlaced
  <2>2. /\ GoodStream(s)
        /\ s.packet.seq = Departing(k).packet.seq
        /\ s.completed = IF s.packet.status = "DELIVERED" THEN stream[k].completed + 1
                                                         ELSE stream[k].completed
    BY <2>1, AcceptedType
  <2>3. /\ Hop(k, s)
        /\ call' = AfterTurn(k)
        /\ delivered' = IF s.packet.status = "DELIVERED"
                          THEN [delivered EXCEPT ![k] = @ \union {s.packet.seq}]
                          ELSE delivered
    BY <1>4 DEF HopAccepted
  <2>. HIDE DEF s
  <2>. QED
    BY <1>1, <2>2, <2>3, HopNumbered
<1>5. ASSUME NEW k \in Branches, HopRefused(k) \/ GateRaises(k)
      PROVE  Numbered' /\ Supplied' /\ DeliveredOnce'
  <2>1. /\ GoodStream(Departing(k)) /\ Followed(Departing(k))
        /\ Departing(k).packet.status # "DELIVERED"
        /\ Departing(k).completed = stream[k].completed
    BY DepartingPlaced
  <2>2. PICK s \in {Refused(Departing(k)), Raised(Departing(k))} :
          Hop(k, s) /\ call' \in {NoCall, AfterTurn(k)} /\ delivered' = delivered
    BY <1>5 DEF HopRefused, GateRaises
  <2>3. /\ GoodStream(s)
        /\ s.packet.seq = Departing(k).packet.seq
        /\ s.packet.status # "DELIVERED"
        /\ s.completed = stream[k].completed
    BY <2>1, <2>2, RefusedType, RaisedType
  <2>. QED
    BY <1>1, <2>2, <2>3, HopNumbered
<1>6. ASSUME NEW targets, ClearOutage(targets)
      PROVE  Numbered' /\ Supplied' /\ DeliveredOnce'
  <2>1. call' = call /\ sequence' = sequence /\ delivered' = delivered
    BY <1>6 DEF ClearOutage
  <2>2. ASSUME NEW k \in Branches
        PROVE  /\ stream'[k].packet.seq = stream[k].packet.seq
               /\ stream'[k].packet.status = "DELIVERED" <=> stream[k].packet.status = "DELIVERED"
               /\ stream[k].packet.status = "QUEUED" => stream'[k].packet.status = "QUEUED"
               /\ stream'[k].completed = stream[k].completed
    <3>1. GoodStream(stream[k]) /\ Followed(stream[k])
      BY DEF TypeOK, CursorFollowsGate, GoodStream
    <3>2. stream'[k] = IF k \in targets THEN Cleared(stream[k]) ELSE stream[k]
      BY <1>6 DEF ClearOutage
    <3>3. CASE k \in targets
      <4>. DEFINE s == stream[k]
      <4>1. stream'[k] = Cleared(s)
        BY <3>2, <3>3
      <4>2. GoodStream(s) /\ Followed(s)
        BY <3>1
      <4>. HIDE DEF s
      <4>3. /\ Cleared(s).packet.seq = s.packet.seq
            /\ Cleared(s).packet.status = "DELIVERED" <=> s.packet.status = "DELIVERED"
            /\ s.packet.status = "QUEUED" => Cleared(s).packet.status = "QUEUED"
            /\ Cleared(s).completed = s.completed
        BY ONLY <4>2, ClearedType
      <4>. QED
        BY ONLY <4>1, <4>3 DEF s
    <3>4. CASE k \notin targets
      BY ONLY <3>2, <3>4
    <3>. QED
      BY <3>3, <3>4
  <2>3. Numbered'
    BY <1>1, <2>1, <2>2 DEF Numbered
  <2>4. Supplied'
    BY <1>1, <2>1, <2>2 DEF Supplied
  <2>5. DeliveredOnce'
    BY <1>1, <2>1, <2>2 DEF DeliveredOnce
  <2>. QED
    BY <2>3, <2>4, <2>5
<1>7. ASSUME NEW k \in Branches, NEW route \in Routes, ReplaceRoute(k, route)
      PROVE  Numbered' /\ Supplied' /\ DeliveredOnce'
  <2>. DEFINE r == [stream[k] EXCEPT !.route = route]
              s == NewPacket(r, sequence + 1)
  <2>1. r \in StreamStates /\ r.completed = stream[k].completed /\ sequence + 1 \in Nat
    <3>1. stream[k] \in StreamStates /\ sequence \in Nat
      BY DEF TypeOK
    <3>2. r \in StreamStates /\ r.completed = stream[k].completed
      BY <3>1 DEF StreamStates
    <3>. QED
      BY <3>1, <3>2
  <2>2. /\ stream' = [stream EXCEPT ![k] = s]
        /\ sequence' = sequence + 1 /\ call = NoCall /\ call' = call /\ delivered' = delivered
    BY <1>7 DEF ReplaceRoute
  <2>. HIDE DEF r
  <2>3. /\ GoodStream(s)
        /\ s.packet = Packet(sequence + 1, r.route)
        /\ s.completed = stream[k].completed
    BY <2>1, NewPacketType
  <2>4. s.packet.seq = sequence + 1 /\ s.packet.status = "QUEUED"
    BY <2>3 DEF Packet
  <2>. HIDE DEF s
  <2>5. /\ Numbered'
        /\ s.packet.seq \notin delivered[k]
        /\ \A j \in Branches : j # k => s.packet.seq \notin delivered[j]
    BY <1>1, <2>2, <2>3, <2>4, OneStreamNumbered
  <2>6. DeliveredOnce'
    BY <2>2, <2>3, <2>5, OneStreamCounted
  <2>7. Supplied'
    BY <2>2 DEF Supplied, NoCall
  <2>. QED
    BY <2>5, <2>6, <2>7
<1>8. CASE UNCHANGED vars
  BY <1>1, <1>8 DEF vars, Numbered, Supplied, DeliveredOnce
<1>. QED
  BY <1>2, <1>3, <1>4, <1>5, <1>6, <1>7, <1>8 DEF Next

\* No delivery is counted twice and no two packets share a number, whatever the
\* gate refuses or raises and whichever routes are replaced.
THEOREM DeliveryCorrect == Spec => [](NumbersAreFresh /\ DeliveredOnce)
<1>1. Init => NumbersAreFresh /\ DeliveredOnce
  <2>. SUFFICES ASSUME Init PROVE NumbersAreFresh /\ DeliveredOnce
    OBVIOUS
  <2>1. ASSUME NEW k \in Branches
        PROVE  /\ stream[k].packet.seq = 0
               /\ stream[k].packet.status = "QUEUED"
               /\ stream[k].completed = 0
               /\ delivered[k] = {}
    <3>1. PICK route \in Routes : stream[k] = Stream(route)
      BY DEF Init
    <3>. QED
      BY <3>1 DEF Init, Stream, Packet
  <2>2. DeliveredOnce
    BY <2>1, FS_EmptySet DEF DeliveredOnce
  <2>. QED
    BY <2>1, <2>2 DEF Init, NumbersAreFresh, NoCall
<1>2. /\ TypeOK /\ CursorFollowsGate /\ NumbersAreFresh /\ DeliveredOnce
      /\ [Next]_vars
      => (NumbersAreFresh /\ DeliveredOnce)'
  BY NumbersStep
<1>. QED
  BY <1>1, <1>2, CursorCorrect, PTL DEF Spec

\* No packet in flight, on any branch, has the number of another or of one that was
\* delivered (the sequence counter of the packet state machine).
THEOREM FreshNumbers == Spec => []NumbersAreFresh
  BY DeliveryCorrect, PTL

-----------------------------------------------------------------------------
(* The pause flag.                                                           *)

Reported(s) ==
  /\ s.paused =>
       /\ s.decision = "refused"
       /\ s.packet.status \in {"PAUSED_OUTAGE", "WAITING_FOR_LINK"}
  /\ s.packet.status = "PAUSED_OUTAGE" => s.paused

LEMMA ReportedAnswers ==
  ASSUME NEW s \in StreamStates, Reported(s)
  PROVE  /\ \A n \in Nat : Reported(NewPacket(s, n))
         /\ s.packet.index < Len(s.packet.route) => Reported(Accepted(s))
         /\ Reported(Refused(s)) /\ Reported(Cleared(s))
         /\ Reported(Raised(s))
<1>1. s.packet \in Packets
  BY DEF StreamStates
<1>2. ASSUME NEW n \in Nat
      PROVE  Reported(NewPacket(s, n))
  <2>1. NewPacket(s, n).packet = Packet(n, s.route) /\ ~NewPacket(s, n).paused
    BY NewPacketType
  <2>2. NewPacket(s, n).packet.status = "QUEUED"
    BY <2>1 DEF Packet
  <2>. QED
    BY <2>1, <2>2 DEF Reported
<1>3. s.packet.index < Len(s.packet.route) => Reported(Accepted(s))
  <2>. SUFFICES ASSUME s.packet.index < Len(s.packet.route) PROVE Reported(Accepted(s))
    OBVIOUS
  <2>1. Advanced(s.packet).status # "PAUSED_OUTAGE"
    BY <1>1, AdvancedType
  <2>2. ~Accepted(s).paused /\ Accepted(s).packet = Advanced(s.packet)
    BY DEF Accepted, StreamStates
  <2>. QED
    BY <2>1, <2>2 DEF Reported
<1>4. Reported(Refused(s))
  <2>1. Refused(s).paused /\ Refused(s).decision = "refused"
        /\ Refused(s).packet = [s.packet EXCEPT !.status = "PAUSED_OUTAGE"]
    BY DEF Refused, StreamStates
  <2>. QED
    BY <2>1, <1>1 DEF Reported, Packets
<1>5. Reported(Raised(s))
  <2>1. Raised(s).paused = s.paused /\ Raised(s).decision = s.decision
        /\ Raised(s).packet = [s.packet EXCEPT !.status = "WAITING_FOR_LINK"]
    BY DEF Raised, StreamStates
  <2>. QED
    BY <2>1, <1>1 DEF Reported, Packets
<1>6. Reported(Cleared(s))
  <2>. DEFINE status == IF s.packet.status = "PAUSED_OUTAGE" THEN "RETRYING" ELSE s.packet.status
  <2>1. status # "PAUSED_OUTAGE"
    OBVIOUS
  <2>2. Cleared(s) = [s EXCEPT !.paused = FALSE, !.packet.status = status]
    BY DEF Cleared
  <2>. HIDE DEF status
  <2>3. ~Cleared(s).paused /\ Cleared(s).packet = [s.packet EXCEPT !.status = status]
    BY <2>2 DEF StreamStates
  <2>. QED
    BY <2>1, <2>3, <1>1 DEF Reported, Packets
<1>. QED
  BY <1>2, <1>3, <1>4, <1>5, <1>6

LEMMA PausedStep ==
  ASSUME TypeOK, CursorFollowsGate, PausedMeansRefused, [Next]_vars
  PROVE  PausedMeansRefused'
<1>1. \A k \in Branches : stream[k] \in StreamStates /\ Reported(stream[k])
  BY DEF TypeOK, PausedMeansRefused, Reported
<1>. SUFFICES ASSUME NEW j \in Branches PROVE Reported(stream'[j])
  BY DEF PausedMeansRefused, Reported
<1>2. sequence + 1 \in Nat /\ stream \in [Branches -> StreamStates] /\ call.turn \in Branches
  BY DEF TypeOK
<1>3. CASE EnsurePacket
  BY <1>1, <1>2, <1>3, ReportedAnswers DEF EnsurePacket
<1>4. ASSUME NEW k \in Branches, HopAccepted(k) \/ HopRefused(k) \/ GateRaises(k)
      PROVE  Reported(stream'[j])
  <2>1. /\ GoodStream(Departing(k)) /\ Followed(Departing(k))
        /\ Departing(k).packet.status # "DELIVERED"
    BY DepartingPlaced
  <2>2. Departing(k) \in StreamStates /\ Reported(Departing(k))
    BY <1>1, <1>2, <2>1, ReportedAnswers DEF Departing, GoodStream
  <2>3. Departing(k).packet.index < Len(Departing(k).packet.route)
    <3>. DEFINE p == Departing(k).packet
    <3>1. p.index \in Nat /\ p.route \in Routes
      BY <2>2 DEF StreamStates, Packets
    <3>2. Len(p.route) \in Nat
      BY <3>1, RouteType
    <3>3. p.index <= Len(p.route) /\ p.index # Len(p.route)
      BY <2>1 DEF GoodStream, Followed
    <3>4. \A m, n \in Nat : m <= n /\ m # n => m < n
      OBVIOUS
    <3>. QED
      BY <3>1, <3>2, <3>3, <3>4, Zenon
  <2>4. PICK s : stream' = [stream EXCEPT ![k] = s] /\ Reported(s)
    BY <1>4, <2>2, <2>3, ReportedAnswers DEF HopAccepted, HopRefused, GateRaises, Hop
  <2>. QED
    BY <1>1, <1>2, <2>4
<1>5. ASSUME NEW targets, ClearOutage(targets)
      PROVE  Reported(stream'[j])
  BY <1>1, <1>5, ReportedAnswers DEF ClearOutage
<1>6. ASSUME NEW k \in Branches, NEW route \in Routes, ReplaceRoute(k, route)
      PROVE  Reported(stream'[j])
  <2>. DEFINE r == [stream[k] EXCEPT !.route = route]
  <2>1. r \in StreamStates /\ Reported(r)
    BY <1>1 DEF StreamStates, Reported
  <2>2. stream' = [stream EXCEPT ![k] = NewPacket(r, sequence + 1)]
    BY <1>6 DEF ReplaceRoute
  <2>. HIDE DEF r
  <2>. QED
    BY <1>1, <1>2, <2>1, <2>2, ReportedAnswers
<1>7. CASE BeginStep \/ UNCHANGED vars
  BY <1>1, <1>7 DEF BeginStep, vars
<1>. QED
  BY <1>3, <1>4, <1>5, <1>6, <1>7 DEF Next

\* The pause flag of a stream tells the last decision of the gate, and no packet
\* is in outage without it.
THEOREM PauseCorrect == Spec => []PausedMeansRefused
<1>1. Init => PausedMeansRefused
  <2>. SUFFICES ASSUME Init, NEW k \in Branches
                PROVE  ~stream[k].paused /\ stream[k].packet.status = "QUEUED"
    BY DEF PausedMeansRefused
  <2>1. PICK route \in Routes : stream[k] = Stream(route)
    BY DEF Init
  <2>. QED
    BY <2>1 DEF Stream, Packet
<1>2. TypeOK /\ CursorFollowsGate /\ PausedMeansRefused /\ [Next]_vars => PausedMeansRefused'
  BY PausedStep
<1>. QED
  BY <1>1, <1>2, CursorCorrect, PTL DEF Spec
=============================================================================
