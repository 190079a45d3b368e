---------------------------- MODULE PacketRuntime ----------------------------
(***************************************************************************)
(* The simulator-independent packet state machine (netlab/packet.py): each *)
(* branch stream carries one packet along its route, and the cursor of the *)
(* packet moves only after the link gate has accepted the hop.             *)
(*                                                                         *)
(* A call of step asks the gate, which is a callback of the caller, once   *)
(* per stream; the callback may raise, and the streams before it have then *)
(* taken their hop while the rest have not.  So the loops of step are      *)
(* modelled one stream at a time.  Identifiers, sizes, times, retry counts *)
(* and event payloads are left out.                                        *)
(***************************************************************************)
EXTENDS Integers, Sequences, FiniteSets

CONSTANTS
  Streams,     \* number of branch streams; they are stepped in this order
  Nodes,       \* the station and the drones
  Routes,      \* routes a stream may have
  MaxPackets   \* bound on the number of packets created

ASSUME PacketRuntimeAssumption ==
  /\ Streams \in Nat \ {0}
  /\ Routes \subseteq Seq(Nodes)
  /\ \A route \in Routes : Len(route) >= 2
  /\ MaxPackets \in Nat

Branches == 1..Streams

\* Packet states a caller can see; TRANSMITTING lasts no longer than a statement.
Statuses == {"QUEUED", "WAITING_FOR_LINK", "ADVANCED", "DELIVERED",
             "PAUSED_OUTAGE", "RETRYING"}

\* index: the 1-based position of the packet in its route.  crossed: history, the
\* hops the gate accepted for this packet.  seq 0: there is no packet.
Packet(n, route) ==
  [seq |-> n, route |-> route, index |-> 1, status |-> "QUEUED", crossed |-> <<>>]

\* from_branches.
Stream(route) ==
  [route |-> route, packet |-> Packet(0, route), completed |-> 0, paused |-> FALSE,
   decision |-> "none"]

\* BranchStream.new_packet.
NewPacket(s, n) == [s EXCEPT !.packet = Packet(n, s.route), !.paused = FALSE]

VARIABLES
  mode,       \* "chain" steps the first stream only
  stream,     \* the streams, in the order of the dictionary
  sequence,   \* the last packet number given out
  call,       \* how far a call of step has come
  delivered   \* history: packet numbers in the PACKET_DELIVERED events of a stream

vars == <<mode, stream, sequence, call, delivered>>

NoCall == [at |-> "idle", turn |-> 1]

Init ==
  /\ mode \in {"chain", "parallel"}
  /\ stream \in [Branches -> {Stream(route) : route \in Routes}]
  /\ sequence = 0
  /\ call = NoCall
  /\ delivered = [k \in Branches |-> {}]

-----------------------------------------------------------------------------
(* step: first a packet for every stream that has none, then the hops.       *)

\* The bound: no stream creates more than one packet in a call.
BeginStep ==
  /\ call = NoCall
  /\ sequence + Streams <= MaxPackets
  /\ call' = [at |-> "ensure", turn |-> 1]
  /\ UNCHANGED <<mode, stream, sequence, delivered>>

\* ensure_packets, one stream.
EnsurePacket ==
  /\ call.at = "ensure"
  /\ LET k == call.turn IN
     /\ IF stream[k].packet.seq = 0
          THEN /\ sequence' = sequence + 1
               /\ stream' = [stream EXCEPT ![k] = NewPacket(@, sequence + 1)]
          ELSE UNCHANGED <<stream, sequence>>
     /\ call' = IF k = Streams THEN [at |-> "step", turn |-> 1]
                               ELSE [call EXCEPT !.turn = k + 1]
  /\ UNCHANGED <<mode, delivered>>

\* Mutant of AfterTurn: the loop runs past the last stream.
AfterTurnOffByOne(k) ==
  IF mode = "chain" \/ k > Streams THEN NoCall ELSE [at |-> "step", turn |-> k + 1]

AfterTurn(k) ==
  IF mode = "chain" \/ k = Streams THEN NoCall ELSE [at |-> "step", turn |-> k + 1]

Fresh(k) == stream[k].packet.status = "DELIVERED"

\* Mutant of Departing: the delivery is counted when the next packet starts, again.
DepartingCountsDelivery(k) ==
  IF Fresh(k) THEN [NewPacket(stream[k], sequence + 1) EXCEPT !.completed = @ + 1]
              ELSE stream[k]

\* The head of step_stream: after a delivery the next packet starts.
Departing(k) == IF Fresh(k) THEN NewPacket(stream[k], sequence + 1) ELSE stream[k]

\* step_stream as far as the gate; s is what the stream becomes after it.
Hop(k, s) ==
  /\ call.at = "step"
  /\ k = call.turn
  /\ sequence' = IF Fresh(k) THEN sequence + 1 ELSE sequence
  /\ stream' = [stream EXCEPT ![k] = s]
  /\ UNCHANGED mode

Advanced(p) ==
  [p EXCEPT !.index   = @ + 1,
            !.crossed = Append(@, <<p.route[p.index], p.route[p.index + 1]>>),
            !.status  = IF p.index + 1 = Len(p.route) THEN "DELIVERED" ELSE "ADVANCED"]

\* What the gate's answer makes of a stream; when the gate raises, the pause flag
\* and the last decision stay what they were.
Accepted(s) ==
  LET p == Advanced(s.packet) IN
  [s EXCEPT !.packet = p, !.paused = FALSE, !.decision = "feasible",
            !.completed = IF p.status = "DELIVERED" THEN @ + 1 ELSE @]

Refused(s) ==
  [s EXCEPT !.packet.status = "PAUSED_OUTAGE", !.paused = TRUE, !.decision = "refused"]

Raised(s) == [s EXCEPT !.packet.status = "WAITING_FOR_LINK"]

HopAccepted(k) ==
  LET s == Accepted(Departing(k)) IN
  /\ Hop(k, s)
  /\ delivered' = IF s.packet.status = "DELIVERED"
                    THEN [delivered EXCEPT ![k] = @ \union {s.packet.seq}]
                    ELSE delivered
  /\ call' = AfterTurn(k)

HopRefused(k) ==
  /\ Hop(k, Refused(Departing(k)))
  /\ call' = AfterTurn(k)
  /\ UNCHANGED delivered

\* The exception of the gate ends the whole call.
GateRaises(k) ==
  /\ Hop(k, Raised(Departing(k)))
  /\ call' = NoCall
  /\ UNCHANGED delivered

-----------------------------------------------------------------------------
(* The other operations.                                                     *)

Cleared(s) ==
  [s EXCEPT !.paused = FALSE,
            !.packet.status = IF @ = "PAUSED_OUTAGE" THEN "RETRYING" ELSE @]

\* Mutant of ClearOutage: the packet keeps its outage status.
ClearOutageOfStream(targets) ==
  /\ call = NoCall
  /\ stream' = [k \in Branches |-> IF k \in targets THEN [stream[k] EXCEPT !.paused = FALSE]
                                                    ELSE stream[k]]
  /\ UNCHANGED <<mode, sequence, call, delivered>>

\* clear_outage of one stream, or of all when none (or an unknown one) is named.
ClearOutage(targets) ==
  /\ call = NoCall
  /\ stream' = [k \in Branches |-> IF k \in targets THEN Cleared(stream[k]) ELSE stream[k]]
  /\ UNCHANGED <<mode, sequence, call, delivered>>

\* Mutant of ReplaceRoute: the packet under way goes on along the new route.
ReplaceRouteKeepsPacket(k, route) ==
  /\ call = NoCall
  /\ sequence < MaxPackets
  /\ stream' = [stream EXCEPT ![k].route = route, ![k].packet.route = route]
  /\ UNCHANGED <<mode, sequence, call, delivered>>

\* Mutant of ReplaceRoute: the new packet gets the number given out last.
ReplaceRouteReusesNumber(k, route) ==
  /\ call = NoCall
  /\ sequence < MaxPackets
  /\ stream' = [stream EXCEPT ![k] = NewPacket([@ EXCEPT !.route = route], sequence)]
  /\ UNCHANGED <<mode, sequence, call, delivered>>

\* replace_route: the packet under way is abandoned.  An unknown branch or a route
\* of one node raises and changes nothing.
ReplaceRoute(k, route) ==
  /\ call = NoCall
  /\ sequence < MaxPackets
  /\ sequence' = sequence + 1
  /\ stream' = [stream EXCEPT ![k] = NewPacket([@ EXCEPT !.route = route], sequence + 1)]
  /\ UNCHANGED <<mode, call, delivered>>

Next ==
  \/ BeginStep
  \/ EnsurePacket
  \/ \E k \in Branches : HopAccepted(k) \/ HopRefused(k) \/ GateRaises(k)
  \/ \E k \in Branches : ClearOutage({k})
  \/ ClearOutage(Branches)
  \/ \E k \in Branches, route \in Routes : ReplaceRoute(k, route)

Spec == Init /\ [][Next]_vars

-----------------------------------------------------------------------------
(* Properties.                                                               *)

Packets == [seq : Nat, route : Routes, index : Nat \ {0}, status : Statuses,
            crossed : Seq(Nodes \X Nodes)]
StreamStates == [route : Routes, packet : Packets, completed : Nat, paused : BOOLEAN,
                 decision : {"none", "feasible", "refused"}]

\* Every stream is well formed and the cursor stays inside the route.
TypeOK ==
  /\ mode \in {"chain", "parallel"}
  /\ stream \in [Branches -> StreamStates]
  /\ \A k \in Branches : stream[k].packet.index <= Len(stream[k].packet.route)
  /\ sequence \in Nat
  /\ call \in [at : {"idle", "ensure", "step"}, turn : Branches]
  /\ delivered \in [Branches -> SUBSET Nat]

\* test_packet.py: "delivery must not be double counted".  Whatever is refused,
\* raised, retried or rerouted, completed_packets is the number of different
\* packets delivered on that stream, and no packet is delivered by two streams.
DeliveredOnce ==
  /\ \A k \in Branches :
       /\ IsFiniteSet(delivered[k])
       /\ stream[k].completed = Cardinality(delivered[k])
  /\ \A j, k \in Branches : j # k => delivered[j] \intersect delivered[k] = {}

\* The packet stands where the hops accepted for it lead along the route the
\* stream has now; it is delivered when, and only when, it has crossed all of them.
Followed(s) ==
  LET p == s.packet IN
  /\ p.route = s.route
  /\ Len(p.crossed) = p.index - 1
  /\ \A i \in 1..Len(p.crossed) : p.crossed[i] = <<p.route[i], p.route[i + 1]>>
  /\ p.status = "DELIVERED" <=> p.index = Len(p.route)

CursorFollowsGate == \A k \in Branches : Followed(stream[k])

\* A stream reported as paused was refused at its last decision, and a packet in
\* outage is always reported as paused, also when a later gate call raised.
PausedMeansRefused ==
  \A k \in Branches :
    /\ stream[k].paused =>
         /\ stream[k].decision = "refused"
         /\ stream[k].packet.status \in {"PAUSED_OUTAGE", "WAITING_FOR_LINK"}
    /\ stream[k].packet.status = "PAUSED_OUTAGE" => stream[k].paused

\* Why deliveries are counted once: numbers are given out once, so the packets
\* under way and those delivered are all different.
NumbersAreFresh ==
  /\ \A k \in Branches :
       /\ stream[k].packet.seq \in 0..sequence
       /\ \A n \in delivered[k] : n \in 1..sequence
       /\ stream[k].packet.seq \in delivered[k] <=> stream[k].packet.status = "DELIVERED"
       /\ call.at = "step" => stream[k].packet.seq # 0
       /\ call.at = "ensure" /\ k < call.turn => stream[k].packet.seq # 0
       /\ stream[k].packet.seq = 0 => stream[k].packet.status = "QUEUED"
  /\ \A j, k \in Branches :
       j # k => /\ stream[j].packet.seq # 0 => stream[j].packet.seq # stream[k].packet.seq
                /\ stream[j].packet.seq \notin delivered[k]
=============================================================================
