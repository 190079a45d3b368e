--------------------------- MODULE RelayChainProofs ---------------------------
(***************************************************************************)
(* What holds of the packet runtime for every configuration, every size of *)
(* the swarm and every sequence of commands: a packet has passed exactly   *)
(* the hops of the branch that is active now, and an outage keeps it where *)
(* it is until the topology is recomputed.                                 *)
(***************************************************************************)
EXTENDS RelayChain, RelayInventoryProofs

-----------------------------------------------------------------------------
(* Inventories: what the operations on the swarm preserve.                   *)

LEMMA ConfiguredInventory ==
  ASSUME NEW c \in Configs
  PROVE  Configured(c) \in Inventories /\ Loaded(c) \in Inventories
<1>. DEFINE n == c.count
            named == Len(c.rows)
            present == Cardinality((1..n) \ c.standby)
            sanitized == Sanitized(c.rows, 1..n)
<1>1. /\ n \in Drones /\ n \in Nat /\ 1..n \subseteq Drones
      /\ c.standby \subseteq 1..n /\ c.failed \subseteq 1..n
      /\ c.mode \in RuntimeModes /\ c.rows \in Seq(Seq(Int) \ {<<>>})
  BY RelayChainAssumption, MaxDronesAssumption DEF Drones, RuntimeModes
<1>2. c.rows \in Seq(Seq(Int)) /\ named \in Nat
  <2>1. Seq(Int) \ {<<>>} \subseteq Seq(Int)
    OBVIOUS
  <2>2. Seq(Seq(Int) \ {<<>>}) \subseteq Seq(Seq(Int))
    BY <2>1, SeqMonotonic
  <2>. QED
    BY <1>1, <2>2
<1>3. present \in Nat
  BY <1>1, FinitePositions
<1>4. sanitized \in Seq(Seq(Int))
  <2>1. sanitized \in Seq(Seq(1..n))
    <3>. DEFINE visible == 1..n
    <3>1. Sanitized(c.rows, visible) \in Seq(Seq(visible))
      <4>. HIDE DEF visible
      <4>. QED
        BY <1>2, SanitizedFacts
    <3>. QED
      BY <3>1
  <2>2. 1..n \subseteq Int
    OBVIOUS
  <2>3. Seq(1..n) \subseteq Seq(Int)
    BY <2>2, SeqMonotonic
  <2>4. Seq(Seq(1..n)) \subseteq Seq(Seq(Int))
    BY <2>3, SeqMonotonic
  <2>. QED
    BY <2>1, <2>4
<1>5. AtLeast1(AtMost(named, present)) \in Nat \ {0} /\ AtLeast1(named) \in Nat \ {0}
  <2>. HIDE DEF named, present
  <2>. QED
    BY <1>2, <1>3 DEF AtLeast1, AtMost
<1>6. Configured(c) =
        [count |-> n, failed |-> c.failed, standby |-> c.standby,
         integrated |-> (1..n) \ (c.standby \union c.failed), mode |-> c.mode,
         branchCount |-> AtLeast1(AtMost(named, present)), rows |-> sanitized]
  BY DEF Configured
<1>. HIDE DEF named, present, sanitized
<1>8. Configured(c) \in Inventories
  BY <1>1, <1>4, <1>5, <1>6 DEF Inventories
<1>9. Loaded(c) \in Inventories
  <2>. DEFINE configured == Configured(c)
              I == (1..n) \ c.standby
              b == AtLeast1(named)
  <2>1. Loaded(c) = [configured EXCEPT !.failed = {}, !.integrated = I, !.branchCount = b]
    BY DEF Loaded, named
  <2>2. I \subseteq 1..n /\ I \subseteq Drones /\ b \in Nat \ {0} /\ configured.count = n
    BY <1>1, <1>5, <1>6
  <2>. HIDE DEF configured, I, b
  <2>3. configured \in Inventories
    BY <1>8 DEF configured
  <2>. QED
    BY <2>1, <2>2, <2>3 DEF Inventories
<1>. QED
  BY <1>8, <1>9

\* Roles and failures may change in any way inside the inventory.
LEMMA FailedOverInventory ==
  ASSUME NEW s \in Inventories, NEW d \in 1..s.count,
         NEW replacement, replacement \subseteq 1..s.count
  PROVE  /\ FailedOver(s, d, replacement) \in Inventories
         /\ FailedOver(s, d, replacement).count = s.count
<1>. DEFINE F == s.failed \union {d}
            S == s.standby \ replacement
            I == s.integrated \union replacement
<1>1. FailedOver(s, d, replacement) = [s EXCEPT !.failed = F, !.standby = S, !.integrated = I]
  BY DEF FailedOver, Inventories
<1>2. F \subseteq 1..s.count /\ S \subseteq 1..s.count /\ I \subseteq 1..s.count
  BY DEF Inventories
<1>3. F \subseteq Drones /\ S \subseteq Drones /\ I \subseteq Drones
  BY <1>2, MaxDronesAssumption DEF Inventories, Drones
<1>. HIDE DEF F, S, I
<1>. QED
  BY <1>1, <1>2, <1>3 DEF Inventories

LEMMA JoinedInventory ==
  ASSUME NEW s \in Inventories, NEW near, near \subseteq 1..s.count
  PROVE  Joined(s, near) \in Inventories /\ Joined(s, near).count = s.count
<1>. DEFINE F == s.failed
            S == s.standby \ near
            I == s.integrated \union near
<1>1. Joined(s, near) = [s EXCEPT !.failed = F, !.standby = S, !.integrated = I]
  BY DEF Joined, Inventories
<1>2. F \subseteq 1..s.count /\ S \subseteq 1..s.count /\ I \subseteq 1..s.count
  BY DEF Inventories
<1>3. F \subseteq Drones /\ S \subseteq Drones /\ I \subseteq Drones
  BY <1>2, MaxDronesAssumption DEF Inventories, Drones
<1>. HIDE DEF F, S, I
<1>. QED
  BY <1>1, <1>2, <1>3 DEF Inventories

LEMMA NobodyJoined ==
  ASSUME NEW s \in Inventories
  PROVE  Joined(s, {}) = s
BY DEF Joined, Inventories

\* The branches that packets take.
Routes == {b \in Seq(Drones) : Len(b) \in 1..MaxDrones}

LEMMA BranchesFacts ==
  ASSUME NEW s \in Inventories
  PROVE  /\ Branches(s) \in Seq(Routes)
         /\ Len(Branches(s)) \in 0..MaxDrones
         /\ DOMAIN Branches(s) = 1..Len(Branches(s))
         /\ \A k \in DOMAIN Branches(s) : Range(Branches(s)[k]) \subseteq Active(s)
<1>. DEFINE A == Active(s)
            all == Branches(s)
            n == Len(all)
<1>1. /\ all \in Seq(Seq(A))
      /\ \A k \in 1..n : all[k] # <<>> /\ Simple(all[k])
      /\ \A k, l \in 1..n : k # l => Range(all[k]) \intersect Range(all[l]) = {}
  BY EveryActiveDroneIsOnOneBranch DEF SharesOut
<1>0. \A k \in 1..n : all[k] \in Seq(A)
  BY <1>1
<1>2. /\ A \subseteq Drones /\ IsFiniteSet(A)
      /\ Cardinality(A) \in Nat /\ Cardinality(A) <= MaxDrones /\ MaxDrones \in Nat
  BY ActiveFacts, MaxDronesAssumption DEF Drones
<1>. HIDE DEF A, all
<1>3. n \in Nat /\ DOMAIN all = 1..n
  BY <1>1
<1>4. ASSUME NEW k \in 1..n
      PROVE  /\ all[k] \in Routes /\ Range(all[k]) \subseteq A
             /\ all[k][1] \in Range(all[k])
  <2>. DEFINE b == all[k]
  <2>1. b \in Seq(A) /\ b # <<>> /\ Simple(b)
    BY <1>0, <1>1
  <2>. HIDE DEF b
  <2>2. Len(b) \in Nat /\ Len(b) >= 1 /\ b \in [1..Len(b) -> A]
    BY <2>1
  <2>3. Len(b) <= Cardinality(A)
    BY <1>2, <2>1, <2>2, LengthBound DEF Simple
  <2>4. b \in Seq(Drones)
    BY <1>2, <2>1, SeqMonotonic
  <2>5. Range(b) \subseteq A /\ b[1] \in Range(b)
    BY <2>2 DEF Range
  <2>. QED
    BY <1>2, <2>2, <2>3, <2>4, <2>5 DEF Routes, b
<1>5. all \in Seq(Routes)
  BY <1>1, <1>3, <1>4, IsSequence
<1>6. n <= Cardinality(A)
  <2>. DEFINE first == [k \in 1..n |-> all[k][1]]
  <2>1. first \in [1..n -> A]
    BY <1>4
  <2>2. \A k, l \in 1..n : k # l => first[k] # first[l]
    <3>1. \A k \in 1..n : first[k] \in Range(all[k])
      BY <1>4
    <3>. HIDE DEF first
    <3>. QED
      BY <1>1, <3>1
  <2>. HIDE DEF first
  <2>. QED
    BY <1>2, <1>3, <2>1, <2>2, LengthBound
<1>. QED
  BY <1>2, <1>3, <1>4, <1>5, <1>6 DEF all, A


-----------------------------------------------------------------------------
(* Packets on a branch.                                                      *)

Hops == Nodes \X Nodes

\* Packets whose traces are of any length, and those the node keeps.
LongPackets == [phase : Phases, cursor : Nat, forward : Seq(Hops), reverse : Seq(Hops)]

Packets ==
  {p \in LongPackets : /\ p.cursor <= MaxDrones
                       /\ Len(p.forward) <= MaxDrones /\ Len(p.reverse) <= MaxDrones}

LEMMA PathFacts ==
  ASSUME NEW S, NEW b \in Seq(S), NEW phase \in Phases
  PROVE  /\ Path(b, phase) \in Seq({Station} \union S)
         /\ Len(Path(b, phase)) = Len(b) + 1
<1>. DEFINE T == {Station} \union S
<1>1. b \in Seq(T) /\ <<Station>> \in Seq(T) /\ Len(<<Station>>) = 1
  BY SeqMonotonic
<1>2. Reverse(b) \in Seq(T) /\ Len(Reverse(b)) = Len(b)
  <2>1. Len(b) \in Nat /\ \A i \in 1..Len(b) : b[i] \in T
    BY <1>1
  <2>2. Reverse(b) \in [1..Len(b) -> T]
    BY <2>1 DEF Reverse
  <2>. HIDE DEF T
  <2>. QED
    BY <2>1, <2>2, IsSequence
<1>. HIDE DEF T
<1>3. /\ <<Station>> \o b \in Seq(T) /\ Len(<<Station>> \o b) = 1 + Len(b)
      /\ Reverse(b) \o <<Station>> \in Seq(T) /\ Len(Reverse(b) \o <<Station>>) = Len(b) + 1
  BY <1>1, <1>2, ConcatProperties
<1>4. Path(b, phase) \in Seq(T) /\ Len(Path(b, phase)) = Len(b) + 1
  BY <1>1, <1>3 DEF Path
<1>. QED
  BY <1>4 DEF T

LEMMA HopsFacts ==
  ASSUME NEW S, NEW b \in Seq(S), NEW phase \in Phases
  PROVE  /\ HopsOf(b, phase) \in Seq(({Station} \union S) \X ({Station} \union S))
         /\ Len(HopsOf(b, phase)) = Len(b)
         /\ \A i \in 1..Len(b) :
              HopsOf(b, phase)[i] = <<Path(b, phase)[i], Path(b, phase)[i + 1]>>
<1>. DEFINE T == {Station} \union S
            path == Path(b, phase)
            hops == HopsOf(b, phase)
            n == Len(b)
<1>1. path \in Seq(T) /\ Len(path) = n + 1 /\ n \in Nat
  BY PathFacts
<1>2. hops = [i \in 1..n |-> <<path[i], path[i + 1]>>]
  <2>. HIDE DEF path
  <2>1. Len(path) - 1 = n
    BY <1>1
  <2>. QED
    BY <2>1 DEF HopsOf, path
<1>. HIDE DEF T, path, hops, n
<1>3. \A i \in 1..n : path[i] \in T /\ path[i + 1] \in T
  BY <1>1
<1>4. hops \in [1..n -> T \X T]
  BY <1>2, <1>3
<1>5. hops \in Seq(T \X T) /\ Len(hops) = n
  BY <1>1, <1>4, IsSequence
<1>6. \A i \in 1..n : hops[i] = <<path[i], path[i + 1]>>
  BY <1>2
<1>. QED
  BY <1>5, <1>6 DEF hops, n, path, T

LEMMA RouteFacts ==
  ASSUME NEW b \in Routes, NEW phase \in Phases
  PROVE  /\ HopsOf(b, phase) \in Seq(Hops) /\ Len(HopsOf(b, phase)) = Len(b)
         /\ Len(b) \in Nat /\ Len(b) >= 1 /\ Len(b) <= MaxDrones
         /\ Len(Path(b, phase)) = Len(b) + 1
<1>1. b \in Seq(Drones) /\ Len(b) \in 1..MaxDrones
  BY DEF Routes
<1>2. HopsOf(b, phase) \in Seq(Hops) /\ Len(HopsOf(b, phase)) = Len(b)
  BY <1>1, HopsFacts DEF Hops, Nodes
<1>3. Len(Path(b, phase)) = Len(b) + 1
  BY <1>1, PathFacts
<1>. QED
  BY <1>1, <1>2, <1>3, MaxDronesAssumption

\* A packet that follows a branch has traces no longer than the branch.
LEMMA FollowsTyped ==
  ASSUME NEW b \in Routes, NEW p \in LongPackets, FollowsBranch(p, b)
  PROVE  p \in Packets /\ p.cursor <= Len(b)
<1>. DEFINE out == HopsOf(b, "forward")
            back == HopsOf(b, "reverse")
<1>1. /\ out \in Seq(Hops) /\ Len(out) = Len(b) /\ back \in Seq(Hops) /\ Len(back) = Len(b)
      /\ Len(b) \in Nat /\ Len(b) <= MaxDrones
  BY RouteFacts DEF Phases
<1>2. p.cursor \in Nat /\ MaxDrones \in Nat
  BY MaxDronesAssumption DEF LongPackets
<1>3. /\ p.phase = "forward" =>
           p.cursor <= Len(out) /\ p.forward = SubSeq(out, 1, p.cursor) /\ p.reverse = <<>>
      /\ p.phase # "forward" =>
           p.cursor <= Len(back) /\ p.forward = out /\ p.reverse = SubSeq(back, 1, p.cursor)
  BY DEF FollowsBranch
<1>. DEFINE c == p.cursor
<1>. HIDE DEF out, back, c
<1>4. /\ c <= Len(out) => Len(SubSeq(out, 1, c)) = c
      /\ c <= Len(back) => Len(SubSeq(back, 1, c)) = c
  BY <1>1, <1>2 DEF c
<1>5. Len(<<>>) = 0
  OBVIOUS
<1>6. c <= Len(b) /\ Len(p.forward) <= MaxDrones /\ Len(p.reverse) <= MaxDrones
  <2>1. CASE p.phase = "forward"
    <3>1. c <= Len(b) /\ Len(p.forward) = c /\ Len(p.reverse) = 0
      BY <1>1, <1>3, <1>4, <1>5, <2>1 DEF c
    <3>. QED
      BY <1>1, <1>2, <3>1 DEF c
  <2>2. CASE p.phase # "forward"
    <3>1. c <= Len(b) /\ Len(p.forward) = Len(b) /\ Len(p.reverse) = c
      BY <1>1, <1>3, <1>4, <2>2 DEF c
    <3>. QED
      BY <1>1, <1>2, <3>1 DEF c
  <2>. QED
    BY <2>1, <2>2
<1>. QED
  BY <1>1, <1>2, <1>6 DEF Packets, c

LEMMA NewPacketFollows ==
  ASSUME NEW b \in Routes
  PROVE  NewPacket \in LongPackets /\ FollowsBranch(NewPacket, b) /\ NewPacket.cursor = 0
<1>1. NewPacket \in LongPackets
  BY DEF NewPacket, LongPackets, Phases, Hops
<1>2. SubSeq(HopsOf(b, "forward"), 1, 0) = <<>>
  BY SubSeqEmpty
<1>3. Len(HopsOf(b, "forward")) \in Nat
  BY RouteFacts DEF Phases
<1>. QED
  BY <1>1, <1>2, <1>3 DEF FollowsBranch, NewPacket

\* Turning round at an end of the branch loses nothing, and leaves a hop to take.
LEMMA DepartingFollows ==
  ASSUME NEW b \in Routes, NEW p \in LongPackets, FollowsBranch(p, b)
  PROVE  /\ Departing(b, p) \in LongPackets /\ FollowsBranch(Departing(b, p), b)
         /\ Departing(b, p).cursor < Len(b)
         /\ ~AtEnd(b, p) /\ p.phase = "reverse" => Departing(b, p) = p
         /\ AtEnd(b, p) /\ p.phase = "reverse" => Departing(b, p) = NewPacket
<1>. DEFINE out == HopsOf(b, "forward")
            back == HopsOf(b, "reverse")
            n == Len(b)
<1>1. /\ out \in Seq(Hops) /\ Len(out) = n /\ back \in Seq(Hops) /\ Len(back) = n
      /\ n \in Nat /\ n >= 1
  BY RouteFacts DEF Phases
<1>2. p.cursor \in Nat /\ p.cursor <= n /\ p.phase \in Phases
  BY FollowsTyped DEF LongPackets
<1>3. AtEnd(b, p) <=> p.cursor >= n
  BY <1>1, <1>2, RouteFacts DEF AtEnd
<1>4. CASE ~AtEnd(b, p)
  <2>1. Departing(b, p) = p
    BY <1>4 DEF Departing
  <2>. QED
    BY <1>1, <1>2, <1>3, <1>4, <2>1
<1>5. CASE AtEnd(b, p) /\ p.phase = "forward"
  <2>. DEFINE q == [p EXCEPT !.phase = "reverse", !.cursor = 0]
  <2>1. Departing(b, p) = q
    BY <1>5 DEF Departing
  <2>2. q \in LongPackets /\ q.phase = "reverse" /\ q.cursor = 0 /\ q.forward = p.forward
        /\ q.reverse = p.reverse
    BY DEF LongPackets, Phases
  <2>3. p.forward = out /\ p.reverse = <<>>
    <3>1. p.forward = SubSeq(out, 1, p.cursor) /\ p.reverse = <<>>
      BY <1>5 DEF FollowsBranch
    <3>2. p.cursor = n
      BY <1>1, <1>2, <1>3, <1>5
    <3>. HIDE DEF out
    <3>3. SubSeq(out, 1, Len(out)) = out
      BY <1>1, SubSeqFull
    <3>. QED
      BY <1>1, <3>1, <3>2, <3>3
  <2>4. SubSeq(back, 1, 0) = <<>>
    BY SubSeqEmpty
  <2>. HIDE DEF q
  <2>5. FollowsBranch(q, b)
    BY <1>1, <2>2, <2>3, <2>4 DEF FollowsBranch
  <2>. QED
    BY <1>1, <1>5, <2>1, <2>2, <2>5
<1>6. CASE AtEnd(b, p) /\ p.phase # "forward"
  <2>1. Departing(b, p) = NewPacket
    BY <1>6 DEF Departing
  <2>. QED
    BY <1>1, <1>2, <1>6, <2>1, NewPacketFollows
<1>. QED
  BY <1>4, <1>5, <1>6

LEMMA ForwardedFollows ==
  ASSUME NEW b \in Routes, NEW p \in LongPackets, FollowsBranch(p, b), p.cursor < Len(b)
  PROVE  /\ Forwarded(b, p) \in LongPackets /\ FollowsBranch(Forwarded(b, p), b)
         /\ Forwarded(b, p).cursor = p.cursor + 1
<1>. DEFINE hop == Hop(b, p)
            hops == HopsOf(b, p.phase)
            c == p.cursor
            q == Forwarded(b, p)
<1>1. c \in Nat /\ p.phase \in Phases /\ p.forward \in Seq(Hops) /\ p.reverse \in Seq(Hops)
  BY DEF LongPackets
<1>2. /\ hops \in Seq(Hops) /\ Len(hops) = Len(b) /\ Len(b) \in Nat
      /\ \A i \in 1..Len(b) :
           hops[i] = <<Path(b, p.phase)[i], Path(b, p.phase)[i + 1]>>
  <2>1. b \in Seq(Drones)
    BY DEF Routes
  <2>. QED
    BY <1>1, <2>1, RouteFacts, HopsFacts
<1>3. c + 1 \in 1..Len(b) /\ c + 1 \in 1..Len(hops) /\ c + 1 <= Len(hops)
  BY <1>1, <1>2
<1>4. hop = hops[c + 1]
  <2>1. c + 1 + 1 = c + 2
    BY <1>1
  <2>. QED
    BY <1>2, <1>3, <2>1 DEF Hop
<1>5. hop \in Hops
  <2>. HIDE DEF hops, hop
  <2>. QED
    BY <1>2, <1>3, <1>4
<1>6. SubSeq(hops, 1, c + 1) = Append(SubSeq(hops, 1, c), hop)
  <2>. HIDE DEF hops, c
  <2>1. c + 1 - 1 = c
    BY <1>1
  <2>. QED
    BY <1>1, <1>2, <1>3, <1>4, <2>1, SubSeqRecursiveSecond
<1>7. /\ q.phase = p.phase /\ q.cursor = c + 1 /\ c + 1 \in Nat
      /\ p.phase = "forward" => q.forward = Append(p.forward, hop) /\ q.reverse = p.reverse
      /\ p.phase = "reverse" => q.forward = p.forward /\ q.reverse = Append(p.reverse, hop)
      /\ q \in LongPackets
  <2>. HIDE DEF hop
  <2>1. q = [p EXCEPT !.cursor = p.cursor + 1, ![p.phase] = Append(@, hop)]
    BY DEF Forwarded, hop
  <2>2. CASE p.phase = "forward"
    <3>. DEFINE trace == Append(p.forward, hop)
    <3>1. q = [p EXCEPT !.cursor = c + 1, !.forward = trace]
      BY <2>1, <2>2 DEF LongPackets
    <3>2. trace \in Seq(Hops) /\ c + 1 \in Nat
      BY <1>1, <1>5
    <3>. DEFINE next == c + 1
    <3>. HIDE DEF q, trace, next
    <3>3. /\ q.phase = p.phase /\ q.cursor = next /\ q \in LongPackets
          /\ q.forward = trace /\ q.reverse = p.reverse
      BY <3>1, <3>2 DEF LongPackets, next
    <3>. QED
      BY <2>2, <3>2, <3>3 DEF trace, next
  <2>3. CASE p.phase = "reverse"
    <3>. DEFINE trace == Append(p.reverse, hop)
    <3>1. q = [p EXCEPT !.cursor = c + 1, !.reverse = trace]
      BY <2>1, <2>3 DEF LongPackets
    <3>2. trace \in Seq(Hops) /\ c + 1 \in Nat
      BY <1>1, <1>5
    <3>. DEFINE next == c + 1
    <3>. HIDE DEF q, trace, next
    <3>3. /\ q.phase = p.phase /\ q.cursor = next /\ q \in LongPackets
          /\ q.reverse = trace /\ q.forward = p.forward
      BY <3>1, <3>2 DEF LongPackets, next
    <3>. QED
      BY <2>3, <3>2, <3>3 DEF trace, next
  <2>. QED
    BY <1>1, <2>2, <2>3 DEF Phases
<1>. HIDE DEF q, hop, c
<1>8. ASSUME p.phase = "forward" PROVE FollowsBranch(q, b)
  <2>1. hops = HopsOf(b, "forward")
    BY <1>8
  <2>. HIDE DEF hops
  <2>2. p.forward = SubSeq(hops, 1, c) /\ p.reverse = <<>>
    BY <1>8, <2>1 DEF FollowsBranch, c
  <2>3. /\ q.phase = "forward" /\ q.cursor = c + 1 /\ c + 1 <= Len(hops)
        /\ q.forward = SubSeq(hops, 1, c + 1) /\ q.reverse = <<>>
    BY <1>3, <1>6, <1>7, <1>8, <2>2
  <2>. QED
    BY <2>1, <2>3 DEF FollowsBranch
<1>9. ASSUME p.phase = "reverse" PROVE FollowsBranch(q, b)
  <2>1. hops = HopsOf(b, "reverse")
    BY <1>9
  <2>. HIDE DEF hops
  <2>2. p.forward = HopsOf(b, "forward") /\ p.reverse = SubSeq(hops, 1, c)
    BY <1>9, <2>1 DEF FollowsBranch, c
  <2>3. /\ q.phase = "reverse" /\ q.cursor = c + 1 /\ c + 1 <= Len(hops)
        /\ q.forward = HopsOf(b, "forward") /\ q.reverse = SubSeq(hops, 1, c + 1)
    BY <1>3, <1>6, <1>7, <1>9, <2>2
  <2>. QED
    BY <2>1, <2>3 DEF FollowsBranch
<1>. QED
  BY <1>1, <1>7, <1>8, <1>9 DEF Phases, q, c


-----------------------------------------------------------------------------
(* Traffic.                                                                  *)

Flows ==
  {f \in [branch : Routes, packet : LongPackets, paused : BOOLEAN] :
     FollowsBranch(f.packet, f.branch)}

Traffics ==
  [packet : Packets, branchIndex : 0..MaxDrones, paused : BOOLEAN, flows : Seq(Flows)]

\* Outside parallel operation the packet follows the branch it is on.
ChainFollows(s, t) ==
  ~Parallel(s) /\ Branches(s) # <<>> =>
    FollowsBranch(t.packet, Branches(s)[(t.branchIndex % Len(Branches(s))) + 1])

\* A paused flow is on a branch of the present topology.
PausedCurrent(s, flows) ==
  \A k \in DOMAIN flows :
    flows[k].paused => k \in DOMAIN Branches(s) /\ flows[k].branch = Branches(s)[k]

\* A flow that moves does so on a branch of the present topology.
MovesOnBranches(s, before, after) ==
  \A k \in DOMAIN after :
    k \in DOMAIN before /\ after[k].packet # before[k].packet =>
      k \in DOMAIN Branches(s) /\ after[k].branch = Branches(s)[k]

PausedRetained(before, after) ==
  \A k \in DOMAIN before : before[k].paused => k \in DOMAIN after /\ after[k] = before[k]

\* What becomes of traffic t in a swarm s.
Continues(s, t, u) ==
  /\ u \in Traffics /\ ChainFollows(s, u) /\ PausedCurrent(s, u.flows)
  /\ MovesOnBranches(s, t.flows, u.flows)
  /\ Branches(s) = <<>> => u.packet = t.packet

\* What becomes of it while the topology stays the same.
Retains(s, t, u) ==
  /\ PausedRetained(t.flows, u.flows)
  /\ t.paused /\ ~Parallel(s) => u.paused /\ u.packet = t.packet

LEMMA FlowFacts ==
  ASSUME NEW f \in Flows
  PROVE  /\ f.branch \in Routes /\ f.packet \in LongPackets /\ f.paused \in BOOLEAN
         /\ FollowsBranch(f.packet, f.branch) /\ f.packet \in Packets
BY FollowsTyped DEF Flows

LEMMA NewFlowFacts ==
  ASSUME NEW b \in Routes
  PROVE  NewFlow(b) \in Flows /\ NewFlow(b).branch = b /\ NewFlow(b).packet = NewPacket
         /\ NewFlow(b).paused = FALSE
BY NewPacketFollows DEF NewFlow, Flows

LEMMA NewPacketTyped == NewPacket \in Packets
<1>1. NewPacket \in LongPackets /\ NewPacket.cursor = 0
  BY DEF NewPacket, LongPackets, Phases, Hops
<1>2. Len(NewPacket.forward) = 0 /\ Len(NewPacket.reverse) = 0
  BY DEF NewPacket
<1>. QED
  BY <1>1, <1>2, MaxDronesAssumption DEF Packets

LEMMA ReroutedTraffic ==
  ASSUME NEW s \in Inventories, NEW t \in Traffics
  PROVE  /\ Rerouted(t) \in Traffics
         /\ ChainFollows(s, Rerouted(t)) /\ PausedCurrent(s, Rerouted(t).flows)
         /\ Rerouted(t).packet = NewPacket
         /\ DOMAIN Rerouted(t).flows = DOMAIN t.flows
         /\ \A k \in DOMAIN t.flows : /\ Rerouted(t).flows[k].packet = t.flows[k].packet
                                      /\ ~Rerouted(t).flows[k].paused
<1>. DEFINE u == Rerouted(t)
            released == [k \in DOMAIN t.flows |-> [t.flows[k] EXCEPT !.paused = FALSE]]
<1>1. u = [packet |-> NewPacket, branchIndex |-> 0, paused |-> FALSE, flows |-> released]
  BY DEF Rerouted
<1>2. t.flows \in Seq(Flows) /\ DOMAIN t.flows = 1..Len(t.flows) /\ Len(t.flows) \in Nat
  BY DEF Traffics
<1>3. \A k \in DOMAIN t.flows : /\ released[k] \in Flows
                                /\ released[k].packet = t.flows[k].packet
                                /\ ~released[k].paused
  <2>. SUFFICES ASSUME NEW f \in Flows
                PROVE  /\ [f EXCEPT !.paused = FALSE] \in Flows
                       /\ [f EXCEPT !.paused = FALSE].packet = f.packet
                       /\ ~[f EXCEPT !.paused = FALSE].paused
    BY <1>2
  <2>. QED
    BY DEF Flows
<1>4. released \in Seq(Flows) /\ DOMAIN released = DOMAIN t.flows
  <2>1. DOMAIN released = 1..Len(t.flows) /\ \A k \in 1..Len(t.flows) : released[k] \in Flows
    BY <1>2, <1>3
  <2>2. released = [k \in 1..Len(t.flows) |-> released[k]]
    BY <1>2
  <2>. HIDE DEF released
  <2>3. released \in [1..Len(t.flows) -> Flows]
    BY <2>1, <2>2
  <2>. QED
    BY <1>2, <2>3, IsSequence
<1>. HIDE DEF u, released
<1>5. u \in Traffics
  BY <1>1, <1>4, NewPacketTyped, MaxDronesAssumption DEF Traffics
<1>6. ChainFollows(s, u)
  <2>. DEFINE all == Branches(s)
              k == (u.branchIndex % Len(all)) + 1
  <2>. SUFFICES ASSUME all # <<>> PROVE FollowsBranch(u.packet, all[k])
    BY DEF ChainFollows
  <2>1. all \in Seq(Routes) /\ Len(all) \in Nat /\ Len(all) # 0
    BY BranchesFacts
  <2>2. k = 1
    <3>. HIDE DEF all
    <3>. QED
      BY <1>1, <2>1
  <2>. HIDE DEF all, k
  <2>3. all[1] \in Routes
    BY <2>1
  <2>. QED
    BY <1>1, <2>2, <2>3, NewPacketFollows
<1>7. PausedCurrent(s, u.flows)
  BY <1>1, <1>3, <1>4 DEF PausedCurrent
<1>. QED
  BY <1>1, <1>3, <1>4, <1>5, <1>6, <1>7 DEF u

LEMMA SyncedTraffic ==
  ASSUME NEW s \in Inventories, NEW flows \in Seq(Flows), PausedCurrent(s, flows)
  PROVE  /\ SyncedFlows(flows, s) \in Seq(Flows)
         /\ DOMAIN SyncedFlows(flows, s) = DOMAIN Branches(s)
         /\ DOMAIN Branches(s) = 1..Len(SyncedFlows(flows, s))
         /\ \A k \in DOMAIN Branches(s) : SyncedFlows(flows, s)[k].branch = Branches(s)[k]
         /\ PausedRetained(flows, SyncedFlows(flows, s))
         /\ PausedCurrent(s, SyncedFlows(flows, s))
         /\ MovesOnBranches(s, flows, SyncedFlows(flows, s))
<1>. DEFINE all == Branches(s)
            u == SyncedFlows(flows, s)
<1>1. all \in Seq(Routes) /\ DOMAIN all = 1..Len(all) /\ Len(all) \in Nat
  BY BranchesFacts
<1>2. u = [k \in DOMAIN all |->
             IF k \in DOMAIN flows /\ flows[k].branch = all[k] THEN flows[k] ELSE NewFlow(all[k])]
  BY DEF SyncedFlows
<1>. HIDE DEF all, u
<1>3. ASSUME NEW k \in DOMAIN all
      PROVE  /\ u[k] \in Flows /\ u[k].branch = all[k]
             /\ k \in DOMAIN flows /\ flows[k].branch = all[k] => u[k] = flows[k]
  <2>1. all[k] \in Routes
    BY <1>1
  <2>2. k \in DOMAIN flows => flows[k] \in Flows
    OBVIOUS
  <2>3. u[k] = IF k \in DOMAIN flows /\ flows[k].branch = all[k] THEN flows[k] ELSE NewFlow(all[k])
    BY <1>2
  <2>. QED
    BY <2>1, <2>2, <2>3, NewFlowFacts
<1>4. u \in Seq(Flows) /\ DOMAIN u = DOMAIN all /\ Len(u) = Len(all)
  <2>1. u \in [1..Len(all) -> Flows]
    BY <1>1, <1>2, <1>3
  <2>. QED
    BY <1>1, <2>1, IsSequence
<1>5. PausedRetained(flows, u)
  <2>. SUFFICES ASSUME NEW k \in DOMAIN flows, flows[k].paused
                PROVE  k \in DOMAIN u /\ u[k] = flows[k]
    BY DEF PausedRetained
  <2>1. k \in DOMAIN all /\ flows[k].branch = all[k]
    BY DEF PausedCurrent, all
  <2>. QED
    BY <1>3, <1>4, <2>1
<1>6. PausedCurrent(s, u) /\ MovesOnBranches(s, flows, u)
  BY <1>3, <1>4 DEF PausedCurrent, MovesOnBranches, all
<1>. QED
  BY <1>1, <1>3, <1>4, <1>5, <1>6 DEF all, u

LEMMA FlowStepFacts ==
  ASSUME NEW f \in Flows, NEW refused \in BOOLEAN
  PROVE  /\ FlowStep(f, refused) \in Flows
         /\ FlowStep(f, refused).branch = f.branch
         /\ ~refused => FlowStep(f, refused).packet.cursor >= 1
<1>. DEFINE b == f.branch
            p == Departing(b, f.packet)
            q == Forwarded(b, p)
<1>1. b \in Routes /\ f.packet \in LongPackets /\ FollowsBranch(f.packet, b)
  BY DEF Flows
<1>. HIDE DEF b
<1>2. p \in LongPackets /\ FollowsBranch(p, b) /\ p.cursor < Len(b)
  BY <1>1, DepartingFollows
<1>3. FlowStep(f, refused) = IF refused THEN [f EXCEPT !.packet = p, !.paused = TRUE]
                                        ELSE [f EXCEPT !.packet = q]
  BY DEF FlowStep, b
<1>. HIDE DEF p
<1>4. q \in LongPackets /\ FollowsBranch(q, b) /\ q.cursor = p.cursor + 1 /\ p.cursor \in Nat
  BY <1>1, <1>2, ForwardedFollows DEF LongPackets
<1>. HIDE DEF q
<1>5. CASE refused
  BY <1>1, <1>2, <1>3, <1>5 DEF Flows, b
<1>6. CASE ~refused
  <2>1. FlowStep(f, refused) = [f EXCEPT !.packet = q]
    BY <1>3, <1>6
  <2>2. q.cursor >= 1
    BY <1>4
  <2>. QED
    BY <1>1, <1>4, <1>6, <2>1, <2>2 DEF Flows, b
<1>. QED
  BY <1>5, <1>6


LEMMA MaxFacts ==
  ASSUME NEW n \in Nat, NEW S \in SUBSET (1..n), S # {}
  PROVE  Max(S) \in S
<1>. DEFINE T == {n - x : x \in S}
<1>1. T \in SUBSET Nat /\ T # {}
  <2>1. \A x \in S : x \in 1..n /\ n - x \in Nat
    OBVIOUS
  <2>. QED
    BY <2>1
<1>2. \E i \in T : \A j \in T : i <= j
  <2>. HIDE DEF T
  <2>. QED
    BY <1>1, LeastExists
<1>3. PICK x \in S : \A y \in S : n - x <= n - y
  BY <1>2
<1>4. \A y \in S : x >= y
  BY <1>3
<1>. QED
  BY <1>4 DEF Max

LEMMA ParallelTraffic ==
  ASSUME NEW s \in Inventories, Parallel(s), NEW t \in Traffics, PausedCurrent(s, t.flows),
         NEW refused
  PROVE  Continues(s, t, ParallelStep(s, t, refused)) /\ Retains(s, t, ParallelStep(s, t, refused))
<1>. DEFINE all   == Branches(s)
            flows == SyncedFlows(t.flows, s)
            runs  == {k \in DOMAIN flows : ~flows[k].paused}
            step(k) == IF k \in runs THEN FlowStep(flows[k], k \in refused) ELSE flows[k]
            next  == [k \in DOMAIN flows |-> step(k)]
            last  == Max(runs)
            shown == [next[last].packet EXCEPT !.cursor = IF last \in refused THEN @ ELSE @ - 1]
            u     == ParallelStep(s, t, refused)
<1>1. u = [flows       |-> next,
           paused      |-> runs \subseteq refused,
           packet      |-> IF runs = {} THEN t.packet ELSE shown,
           branchIndex |-> IF runs = {} THEN t.branchIndex ELSE last - 1]
  BY DEF ParallelStep
<1>2. /\ all \in Seq(Routes) /\ Len(all) \in 0..MaxDrones /\ DOMAIN all = 1..Len(all)
      /\ all # <<>> /\ MaxDrones \in Nat
  <2>1. Len(all) > 1
    BY DEF Parallel
  <2>. QED
    BY <2>1, BranchesFacts, MaxDronesAssumption
<1>3. t.flows \in Seq(Flows) /\ t.packet \in Packets /\ t.branchIndex \in 0..MaxDrones
  BY DEF Traffics
<1>4. /\ flows \in Seq(Flows) /\ DOMAIN flows = DOMAIN all
      /\ \A k \in DOMAIN all : flows[k].branch = all[k]
      /\ PausedRetained(t.flows, flows)
  BY <1>3, SyncedTraffic
<1>. HIDE DEF all, flows
<1>5. ASSUME NEW k \in DOMAIN all
      PROVE  /\ next[k] \in Flows /\ next[k].branch = all[k]
             /\ flows[k].paused => next[k] = flows[k]
             /\ k \in runs /\ k \notin refused => next[k].packet.cursor >= 1
  <2>. DEFINE r == k \in refused
  <2>1. flows[k] \in Flows /\ flows[k].branch = all[k]
    BY <1>4
  <2>2. next[k] = IF k \in runs THEN FlowStep(flows[k], r) ELSE flows[k]
    BY <1>4
  <2>3. (k \in runs) <=> ~flows[k].paused
    BY <1>4
  <2>4. r \in BOOLEAN /\ (r <=> k \in refused)
    OBVIOUS
  <2>. HIDE DEF r, next, runs
  <2>. QED
    BY <2>1, <2>2, <2>3, <2>4, FlowStepFacts
<1>6. next \in Seq(Flows) /\ DOMAIN next = DOMAIN all
  <2>1. next = [k \in 1..Len(all) |-> next[k]]
    BY <1>2, <1>4
  <2>. HIDE DEF next
  <2>2. next \in [1..Len(all) -> Flows]
    BY <1>2, <1>5, <2>1
  <2>. QED
    BY <1>2, <2>2, IsSequence
<1>7. runs # {} => last \in runs /\ last \in 1..MaxDrones
  <2>1. runs \in SUBSET (1..MaxDrones)
    BY <1>2, <1>4
  <2>. HIDE DEF runs
  <2>. QED
    BY <1>2, <2>1, MaxFacts
<1>8. runs # {} => shown \in Packets
  <2>. SUFFICES ASSUME runs # {} PROVE shown \in Packets
    OBVIOUS
  <2>. DEFINE p == next[last].packet
  <2>1. last \in DOMAIN all
    BY <1>4, <1>7
  <2>2. next[last] \in Flows /\ (last \notin refused => p.cursor >= 1)
    BY <1>5, <1>7, <2>1
  <2>3. p \in Packets
    <3>. HIDE DEF next, last
    <3>. QED
      BY <2>2, FlowFacts
  <2>4. shown = [p EXCEPT !.cursor = IF last \in refused THEN p.cursor ELSE p.cursor - 1]
    OBVIOUS
  <2>. HIDE DEF p, last, shown
  <2>5. CASE last \in refused
    BY <2>3, <2>4, <2>5 DEF Packets, LongPackets
  <2>6. CASE last \notin refused
    <3>1. p.cursor - 1 \in Nat /\ p.cursor - 1 <= MaxDrones
      BY <1>2, <2>2, <2>3, <2>6 DEF Packets, LongPackets
    <3>. DEFINE c == p.cursor - 1
    <3>2. shown = [p EXCEPT !.cursor = c]
      BY <2>4, <2>6
    <3>. HIDE DEF c
    <3>. QED
      BY <2>3, <3>1, <3>2 DEF Packets, LongPackets, c
  <2>. QED
    BY <2>5, <2>6
<1>. HIDE DEF next, runs, last, shown
<1>9. u \in Traffics
  <2>1. runs = {} \/ last - 1 \in 0..MaxDrones
    BY <1>2, <1>7
  <2>2. (runs \subseteq refused) \in BOOLEAN
    OBVIOUS
  <2>. DEFINE allRefused == runs \subseteq refused
  <2>3. allRefused \in BOOLEAN
    OBVIOUS
  <2>4. u.packet \in Packets /\ u.branchIndex \in 0..MaxDrones
    BY <1>1, <1>3, <1>8, <2>1
  <2>5. u = [flows |-> next, paused |-> allRefused, packet |-> u.packet, branchIndex |-> u.branchIndex]
    BY <1>1
  <2>. HIDE DEF allRefused, u
  <2>. QED
    BY <1>6, <2>3, <2>4, <2>5 DEF Traffics
<1>10. u.flows = next
  BY <1>1
<1>. HIDE DEF u
<1>11. ChainFollows(s, u)
  BY DEF ChainFollows
<1>12. PausedCurrent(s, u.flows) /\ MovesOnBranches(s, t.flows, u.flows)
  BY <1>5, <1>6, <1>10 DEF PausedCurrent, MovesOnBranches, all
<1>13. PausedRetained(t.flows, u.flows)
  BY <1>4, <1>5, <1>6, <1>10 DEF PausedRetained
<1>. QED
  BY <1>2, <1>9, <1>11, <1>12, <1>13 DEF Continues, Retains, u, all

LEMMA ChainTraffic ==
  ASSUME NEW s \in Inventories, ~Parallel(s), NEW t \in Traffics,
         PausedCurrent(s, t.flows), ChainFollows(s, t), NEW refused
  PROVE  Continues(s, t, ChainStep(s, t, refused)) /\ Retains(s, t, ChainStep(s, t, refused))
<1>. DEFINE all     == Branches(s)
            n       == Len(all)
            current == all[(t.branchIndex % n) + 1]
            home    == AtEnd(current, t.packet) /\ t.packet.phase = "reverse"
            index   == (t.branchIndex + (IF home THEN 1 ELSE 0)) % n
            branch  == all[index + 1]
            p       == Departing(current, t.packet)
            q       == Forwarded(branch, p)
            u       == ChainStep(s, t, refused)
<1>1. /\ t.paused \/ all = <<>> => u = t
      /\ ~(t.paused \/ all = <<>>) /\ 1 \in refused =>
           u = [t EXCEPT !.packet = p, !.branchIndex = index, !.paused = TRUE]
      /\ ~(t.paused \/ all = <<>>) /\ 1 \notin refused =>
           u = [t EXCEPT !.packet = q, !.branchIndex = index]
  BY DEF ChainStep
<1>2. t.flows \in Seq(Flows) /\ t.packet \in Packets /\ t.branchIndex \in 0..MaxDrones
  BY DEF Traffics
<1>. HIDE DEF u
<1>3. ASSUME t.paused \/ all = <<>> PROVE Continues(s, t, u) /\ Retains(s, t, u)
  <2>1. u = t
    BY <1>1, <1>3
  <2>. QED
    BY <2>1 DEF Continues, Retains, MovesOnBranches, PausedRetained
<1>4. ASSUME ~(t.paused \/ all = <<>>) PROVE Continues(s, t, u) /\ Retains(s, t, u)
  <2>1. /\ all \in Seq(Routes) /\ n \in Nat /\ n >= 1 /\ n <= MaxDrones /\ MaxDrones \in Nat
        /\ DOMAIN all = 1..n
    BY <1>4, BranchesFacts, MaxDronesAssumption
  <2>2. FollowsBranch(t.packet, current) /\ t.packet \in LongPackets
    BY <1>2, <1>4 DEF ChainFollows, Packets
  <2>. DEFINE here == t.branchIndex % n
  <2>. HIDE DEF all, n
  <2>3. here \in 0..(n - 1) /\ index \in 0..(n - 1) /\ index % n = index
        /\ (~home => index = here)
    <3>1. t.branchIndex \in Nat /\ t.branchIndex + 1 \in Nat
      BY <1>2, <2>1
    <3>2. \A x \in Nat : x % n \in 0..(n - 1)
      BY <2>1
    <3>3. \A x \in 0..(n - 1) : x % n = x
      BY <2>1
    <3>. HIDE DEF home
    <3>4. CASE home
      BY <3>1, <3>2, <3>3, <3>4
    <3>5. CASE ~home
      BY <3>1, <3>2, <3>3, <3>5
    <3>. QED
      BY <3>4, <3>5
  <2>4. current \in Routes /\ branch \in Routes
    <3>. HIDE DEF index
    <3>. QED
      BY <2>1, <2>3
  <2>5. /\ p \in LongPackets /\ FollowsBranch(p, branch) /\ p.cursor < Len(branch)
    <3>. DEFINE c == current
    <3>1. c \in Routes /\ FollowsBranch(t.packet, c)
      BY <2>2, <2>4
    <3>2. (home <=> AtEnd(c, t.packet) /\ t.packet.phase = "reverse") /\ p = Departing(c, t.packet)
      OBVIOUS
    <3>3. ~home => branch = c
      <4>. HIDE DEF home, index
      <4>. QED
        BY <2>3
    <3>. HIDE DEF c, home, index, p
    <3>4. CASE home
      <4>1. p = NewPacket
        BY <2>2, <3>1, <3>2, <3>4, DepartingFollows
      <4>2. Len(branch) \in Nat /\ Len(branch) >= 1
        BY <2>4, RouteFacts DEF Phases
      <4>. QED
        BY <2>4, <4>1, <4>2, NewPacketFollows
    <3>5. CASE ~home
      BY <2>2, <3>1, <3>2, <3>3, <3>5, DepartingFollows
    <3>. QED
      BY <3>4, <3>5
  <2>. HIDE DEF p
  <2>6. q \in LongPackets /\ FollowsBranch(q, branch)
    <3>. HIDE DEF branch
    <3>. QED
      BY <2>4, <2>5, ForwardedFollows
  <2>. HIDE DEF q
  <2>7. p \in Packets /\ q \in Packets
    <3>. HIDE DEF branch
    <3>. QED
      BY <2>4, <2>5, <2>6, FollowsTyped
  <2>8. index \in 0..MaxDrones
    <3>. HIDE DEF index
    <3>. QED
      BY <2>1, <2>3
  <2>9. /\ u \in Traffics /\ u.flows = t.flows /\ u.branchIndex = index
        /\ FollowsBranch(u.packet, branch)
    <3>. HIDE DEF branch, index
    <3>1. CASE 1 \in refused
      <4>1. u = [t EXCEPT !.packet = p, !.branchIndex = index, !.paused = TRUE]
        BY <1>1, <1>4, <3>1
      <4>. QED
        BY <2>5, <2>7, <2>8, <4>1 DEF Traffics
    <3>2. CASE 1 \notin refused
      <4>1. u = [t EXCEPT !.packet = q, !.branchIndex = index]
        BY <1>1, <1>4, <3>2
      <4>. QED
        BY <2>6, <2>7, <2>8, <4>1 DEF Traffics
    <3>. QED
      BY <3>1, <3>2
  <2>10. ChainFollows(s, u)
    <3>1. (u.branchIndex % n) + 1 = index + 1
      <4>. HIDE DEF index
      <4>. QED
        BY <2>3, <2>9
    <3>2. FollowsBranch(u.packet, all[(u.branchIndex % n) + 1])
      <4>. HIDE DEF index
      <4>. QED
        BY <2>9, <3>1
    <3>. QED
      BY <3>2 DEF ChainFollows, n, all
  <2>11. PausedCurrent(s, u.flows) /\ MovesOnBranches(s, t.flows, u.flows)
         /\ PausedRetained(t.flows, u.flows)
    <3>1. u.flows = t.flows
      BY <2>9
    <3>. QED
      BY <3>1 DEF MovesOnBranches, PausedRetained
  <2>. QED
    BY <1>4, <2>9, <2>10, <2>11 DEF Continues, Retains, all
<1>. QED
  BY <1>3, <1>4 DEF u


LEMMA SameTraffic ==
  ASSUME NEW s, NEW t \in Traffics, ChainFollows(s, t), PausedCurrent(s, t.flows)
  PROVE  Continues(s, t, t) /\ Retains(s, t, t)
BY DEF Continues, Retains, MovesOnBranches, PausedRetained

\* Traffic that carries on from what it was in another topology: the packet keeps
\* going on a branch of this one, or starts over.
Proceeds(s, t, u) ==
  /\ u \in Traffics /\ ChainFollows(s, u) /\ PausedCurrent(s, u.flows)
  /\ MovesOnBranches(s, t.flows, u.flows)
  /\ Branches(s) = <<>> => u.packet \in {t.packet, NewPacket}

LEMMA ReroutedProceeds ==
  ASSUME NEW s \in Inventories, NEW t \in Traffics
  PROVE  Proceeds(s, t, Rerouted(t))
BY ReroutedTraffic DEF Proceeds, MovesOnBranches

\* A tick: perhaps the topology is recomputed, and then every packet that may takes
\* its hop.
LEMMA TickTraffic ==
  ASSUME NEW s \in Inventories, NEW t \in Traffics, NEW rerouted \in BOOLEAN,
         ~rerouted => ChainFollows(s, t) /\ PausedCurrent(s, t.flows),
         NEW paused \in BOOLEAN, NEW refused, NEW v, NEW u,
         v = IF rerouted THEN Rerouted(t) ELSE t,
         u = IF paused THEN v ELSE Transmitted(s, v, refused)
  PROVE  /\ Proceeds(s, t, u)
         /\ ~rerouted => Retains(s, t, u) /\ (paused => u.packet = t.packet)
<1>1. /\ v \in Traffics /\ ChainFollows(s, v) /\ PausedCurrent(s, v.flows)
      /\ DOMAIN v.flows = DOMAIN t.flows
      /\ \A k \in DOMAIN t.flows : v.flows[k].packet = t.flows[k].packet
      /\ v.packet \in {t.packet, NewPacket}
      /\ ~rerouted => v = t
  <2>1. CASE rerouted
    BY <2>1, ReroutedTraffic
  <2>2. CASE ~rerouted
    BY <2>2
  <2>. QED
    BY <2>1, <2>2
<1>2. Continues(s, v, u) /\ Retains(s, v, u)
  <2>1. CASE paused
    BY <1>1, <2>1, SameTraffic
  <2>2. CASE ~paused /\ Parallel(s)
    <3>1. u = ParallelStep(s, v, refused)
      BY <2>2 DEF Transmitted
    <3>. QED
      BY <1>1, <2>2, <3>1, ParallelTraffic
  <2>3. CASE ~paused /\ ~Parallel(s)
    <3>1. u = ChainStep(s, v, refused)
      BY <2>3 DEF Transmitted
    <3>. QED
      BY <1>1, <2>3, <3>1, ChainTraffic
  <2>. QED
    BY <2>1, <2>2, <2>3
<1>3. Proceeds(s, t, u)
  BY <1>1, <1>2 DEF Continues, Proceeds, MovesOnBranches
<1>4. ~rerouted => Retains(s, t, u) /\ (paused => u.packet = t.packet)
  BY <1>1, <1>2
<1>. QED
  BY <1>3, <1>4

-----------------------------------------------------------------------------
(* The inductive invariant, and what a step does.                            *)

IInv ==
  /\ swarm \in Inventories
  /\ pending \in 0..swarm.count
  /\ traffic \in Traffics
  /\ ChainFollows(swarm, traffic)
  /\ PausedCurrent(swarm, traffic.flows)
  /\ operatorPaused \in BOOLEAN
  /\ version \in Nat \ {0}
  /\ commands \in 0..MaxCommands
  /\ injected \subseteq Drones

\* What every step does to the traffic; a step that leaves the version alone also
\* leaves the topology as it was.
Advance ==
  /\ IInv'
  /\ Proceeds(swarm', traffic, traffic')
  /\ version' = version => /\ Retains(swarm, traffic, traffic')
                           /\ operatorPaused => traffic'.packet = traffic.packet

LEMMA InitIInv == Init => IInv
<1>. SUFFICES ASSUME Init PROVE IInv
  OBVIOUS
<1>1. swarm \in Inventories /\ swarm.count \in Nat
  BY ConfiguredInventory, MaxDronesAssumption DEF Init, Inventories, Drones
<1>2. traffic = [packet |-> NewPacket, branchIndex |-> 0, paused |-> FALSE, flows |-> <<>>]
  BY DEF Init
<1>3. <<>> \in Seq(Flows) /\ 0 \in 0..MaxDrones
  BY MaxDronesAssumption
<1>4. traffic \in Traffics
  BY <1>2, <1>3, NewPacketTyped DEF Traffics
<1>5. ChainFollows(swarm, traffic) /\ PausedCurrent(swarm, traffic.flows)
  <2>1. Rerouted(traffic).packet = traffic.packet /\ Rerouted(traffic).branchIndex = traffic.branchIndex
    BY <1>2 DEF Rerouted
  <2>2. ChainFollows(swarm, Rerouted(traffic))
    BY <1>1, <1>4, ReroutedTraffic
  <2>3. DOMAIN traffic.flows = {}
    BY <1>2
  <2>. QED
    BY <2>1, <2>2, <2>3 DEF ChainFollows, PausedCurrent
<1>6. pending = 0 /\ operatorPaused = FALSE /\ version = 1 /\ commands = 0 /\ injected = {}
  BY DEF Init, NoDrone
<1>7. /\ pending \in 0..swarm.count /\ commands \in 0..MaxCommands /\ version \in Nat \ {0}
      /\ injected \subseteq Drones
  BY <1>1, <1>6, RelayChainAssumption
<1>8. operatorPaused \in BOOLEAN
  BY <1>6
<1>. QED
  BY <1>1, <1>4, <1>5, <1>7, <1>8 DEF IInv

LEMMA CommandStep ==
  ASSUME IInv, Command
  PROVE  commands' \in 0..MaxCommands
BY RelayChainAssumption DEF IInv, Command

\* A command that recomputes the topology.
LEMMA RecomputeStep ==
  ASSUME IInv, Recompute, swarm' \in Inventories, pending' \in 0..swarm'.count,
         operatorPaused' \in BOOLEAN, commands' \in 0..MaxCommands, injected' \subseteq Drones
  PROVE  Advance
<1>1. traffic' = Rerouted(traffic) /\ version' = version + 1 /\ version \in Nat /\ traffic \in Traffics
  BY DEF Recompute, IInv
<1>2. version' \in Nat \ {0} /\ version' # version
  BY <1>1
<1>3. Proceeds(swarm', traffic, traffic')
  BY <1>1, ReroutedProceeds
<1>. QED
  BY <1>2, <1>3 DEF Advance, IInv, Proceeds, ChainFollows, PausedCurrent

\* A step that leaves the topology alone.
LEMMA QuietStep ==
  ASSUME IInv, swarm' = swarm, version' = version, pending' \in 0..swarm.count,
         traffic' = traffic, operatorPaused' \in BOOLEAN, commands' \in 0..MaxCommands,
         injected' \subseteq Drones
  PROVE  Advance
<1>1. Continues(swarm, traffic, traffic) /\ Retains(swarm, traffic, traffic)
  BY SameTraffic DEF IInv
<1>2. Proceeds(swarm, traffic, traffic)
  BY <1>1 DEF Continues, Proceeds
<1>3. Proceeds(swarm', traffic, traffic') /\ Retains(swarm, traffic, traffic')
  BY <1>1, <1>2
<1>. QED
  BY <1>3 DEF Advance, IInv, Proceeds


LEMMA TickStep ==
  ASSUME IInv, NEW due \in BOOLEAN, NEW refused, Tick(due, refused)
  PROVE  Advance
<1>. DEFINE failing == due /\ pending <= swarm.count
<1>1. /\ swarm \in Inventories /\ pending \in 0..swarm.count /\ swarm.count \in Nat
      /\ traffic \in Traffics /\ ChainFollows(swarm, traffic)
      /\ PausedCurrent(swarm, traffic.flows)
      /\ operatorPaused \in BOOLEAN /\ version \in Nat \ {0}
  BY MaxDronesAssumption DEF IInv, Inventories, Drones
<1>2. PICK replacement \in (IF failing THEN Replacements(swarm, pending) ELSE {{}}) :
        LET s1 == IF failing THEN FailedOver(swarm, pending, replacement) ELSE swarm IN
        \E near \in (IF Active(s1) = {} THEN {{}} ELSE SUBSET Standby(s1)) :
          LET s2 == Joined(s1, near)
              rerouted == failing \/ near # {}
              t == IF rerouted THEN Rerouted(traffic) ELSE traffic
          IN /\ swarm' = s2
             /\ traffic' = IF operatorPaused THEN t ELSE Transmitted(s2, t, refused)
             /\ version' = version + (IF failing THEN 1 ELSE 0) + (IF near # {} THEN 1 ELSE 0)
  BY DEF Tick
<1>. DEFINE s1 == IF failing THEN FailedOver(swarm, pending, replacement) ELSE swarm
<1>3. PICK near \in (IF Active(s1) = {} THEN {{}} ELSE SUBSET Standby(s1)) :
        /\ swarm' = Joined(s1, near)
        /\ traffic' = IF operatorPaused
                        THEN IF failing \/ near # {} THEN Rerouted(traffic) ELSE traffic
                        ELSE Transmitted(Joined(s1, near),
                               IF failing \/ near # {} THEN Rerouted(traffic) ELSE traffic, refused)
        /\ version' = version + (IF failing THEN 1 ELSE 0) + (IF near # {} THEN 1 ELSE 0)
  BY <1>2
<1>. DEFINE rerouted == failing \/ near # {}
            v == IF rerouted THEN Rerouted(traffic) ELSE traffic
<1>4. traffic' = IF operatorPaused THEN v ELSE Transmitted(swarm', v, refused)
  BY <1>3
<1>5. failing => pending \in 1..swarm.count /\ replacement \subseteq 1..swarm.count
  <2>. SUFFICES ASSUME failing
                PROVE  pending \in 1..swarm.count /\ replacement \subseteq 1..swarm.count
    OBVIOUS
  <2>1. pending # 0
    BY DEF Tick, NoDrone
  <2>2. replacement \in Replacements(swarm, pending)
    BY <1>2
  <2>. DEFINE candidates == Standby([swarm EXCEPT !.failed = @ \union {pending}])
  <2>3. candidates \subseteq 1..swarm.count
    BY <1>1 DEF Standby, Inventories
  <2>4. replacement = {} \/ \E c \in candidates : replacement = {c}
    <3>. HIDE DEF candidates
    <3>1. replacement \in IF candidates = {} THEN {{}} ELSE {{c} : c \in candidates}
      BY <2>2 DEF Replacements, candidates
    <3>. QED
      BY <3>1
  <2>. HIDE DEF candidates
  <2>. QED
    BY <1>1, <2>1, <2>3, <2>4
<1>6. s1 \in Inventories /\ s1.count = swarm.count
  <2>1. CASE failing
    <3>1. s1 = FailedOver(swarm, pending, replacement)
      BY <2>1
    <3>. HIDE DEF s1, failing
    <3>. QED
      BY <1>1, <1>5, <2>1, <3>1, FailedOverInventory
  <2>2. CASE ~failing
    BY <1>1, <2>2
  <2>. QED
    BY <2>1, <2>2
<1>7. near \subseteq 1..s1.count
  <2>1. near = {} \/ near \subseteq Standby(s1)
    BY <1>3
  <2>. HIDE DEF s1
  <2>. QED
    BY <2>1 DEF Standby
<1>8. swarm' \in Inventories /\ swarm'.count = swarm.count
  <2>. HIDE DEF s1
  <2>. QED
    BY <1>3, <1>6, <1>7, JoinedInventory
<1>9. ~rerouted => swarm' = swarm
  <2>1. ~rerouted => near = {} /\ s1 = swarm
    OBVIOUS
  <2>. HIDE DEF s1, rerouted
  <2>. QED
    BY <1>1, <1>3, <2>1, NobodyJoined
<1>10. version' \in Nat \ {0} /\ (rerouted => version' # version)
  <2>. DEFINE a == IF failing THEN 1 ELSE 0
              b == IF near # {} THEN 1 ELSE 0
  <2>1. a \in Nat /\ b \in Nat /\ (rerouted => a + b # 0) /\ version' = version + a + b
    BY <1>3
  <2>. HIDE DEF a, b, rerouted
  <2>. QED
    BY <1>1, <2>1
<1>11. /\ pending' \in 0..swarm.count
       /\ operatorPaused' = operatorPaused /\ commands' = commands /\ injected' = injected
  BY <1>1 DEF Tick, NoDrone
<1>12. /\ Proceeds(swarm', traffic, traffic')
       /\ ~rerouted => Retains(swarm', traffic, traffic')
                       /\ (operatorPaused => traffic'.packet = traffic.packet)
  <2>. DEFINE s == swarm'
              u == traffic'
  <2>1. rerouted \in BOOLEAN
    OBVIOUS
  <2>2. s \in Inventories /\ (~rerouted => ChainFollows(s, traffic) /\ PausedCurrent(s, traffic.flows))
    BY <1>1, <1>8, <1>9
  <2>3. u = IF operatorPaused THEN v ELSE Transmitted(s, v, refused)
    BY <1>4
  <2>4. v = IF rerouted THEN Rerouted(traffic) ELSE traffic
    OBVIOUS
  <2>. HIDE DEF rerouted, v, s, u
  <2>5. /\ Proceeds(s, traffic, u)
        /\ ~rerouted => Retains(s, traffic, u) /\ (operatorPaused => u.packet = traffic.packet)
    BY <1>1, <2>1, <2>2, <2>3, <2>4, TickTraffic
  <2>. QED
    BY <2>5 DEF s, u
<1>. HIDE DEF rerouted
<1>13. IInv'
  BY <1>8, <1>10, <1>11, <1>12 DEF IInv, Proceeds
<1>. QED
  BY <1>9, <1>10, <1>12, <1>13 DEF Advance

LEMMA PublishStep ==
  ASSUME IInv, PublishStatus
  PROVE  Advance
<1>1. /\ swarm \in Inventories /\ traffic \in Traffics /\ ChainFollows(swarm, traffic)
      /\ PausedCurrent(swarm, traffic.flows) /\ traffic.flows \in Seq(Flows)
  BY DEF IInv, Traffics
<1>. DEFINE synced == SyncedFlows(traffic.flows, swarm)
            u == traffic'
<1>2. u = [traffic EXCEPT !.flows = synced]
  BY DEF PublishStatus
<1>3. /\ synced \in Seq(Flows) /\ PausedRetained(traffic.flows, synced)
      /\ PausedCurrent(swarm, synced) /\ MovesOnBranches(swarm, traffic.flows, synced)
  BY <1>1, SyncedTraffic
<1>. HIDE DEF synced, u
<1>4. /\ u \in Traffics /\ u.flows = synced /\ u.packet = traffic.packet
      /\ u.branchIndex = traffic.branchIndex /\ u.paused = traffic.paused
  BY <1>1, <1>2, <1>3 DEF Traffics
<1>5. Proceeds(swarm, traffic, u) /\ Retains(swarm, traffic, u)
  BY <1>1, <1>3, <1>4 DEF Proceeds, Retains, ChainFollows
<1>6. swarm' = swarm /\ pending' = pending /\ operatorPaused' = operatorPaused
      /\ version' = version /\ commands' = commands /\ injected' = injected
  BY DEF PublishStatus
<1>7. Proceeds(swarm', traffic, traffic') /\ Retains(swarm, traffic, traffic')
      /\ traffic'.packet = traffic.packet
  BY <1>4, <1>5, <1>6 DEF u
<1>. QED
  BY <1>6, <1>7 DEF Advance, IInv, Proceeds

\* The commands about one drone.
LEMMA DroneStep ==
  ASSUME IInv, NEW d \in Drones, FailDrone(d) \/ HealDrone(d) \/ StandbyDrone(d)
  PROVE  Advance
<1>1. /\ swarm \in Inventories /\ swarm.count \in Nat /\ pending \in 0..swarm.count
      /\ operatorPaused \in BOOLEAN /\ injected \subseteq Drones
      /\ d \in Nat /\ d >= 1
  BY MaxDronesAssumption DEF IInv, Inventories, Drones
<1>2. commands' \in 0..MaxCommands /\ d <= swarm.count
  BY CommandStep DEF FailDrone, HealDrone, StandbyDrone
<1>3. d \in 1..swarm.count
  BY <1>1, <1>2
<1>4. CASE FailDrone(d)
  <2>1. /\ swarm' = swarm /\ version' = version /\ traffic' = traffic /\ pending' = d
        /\ operatorPaused' = operatorPaused /\ injected' = injected \union {d}
    BY <1>4 DEF FailDrone
  <2>2. pending' \in 0..swarm.count /\ injected' \subseteq Drones
    BY <1>1, <1>3, <2>1
  <2>. QED
    BY <1>1, <1>2, <2>1, <2>2, QuietStep
<1>5. CASE HealDrone(d)
  <2>. DEFINE F == swarm.failed \ {d}
              S == swarm.standby \ {d}
              I == swarm.integrated \union {d}
  <2>1. swarm' = [swarm EXCEPT !.failed = F, !.standby = S, !.integrated = I]
    BY <1>1, <1>5 DEF HealDrone, Inventories
  <2>2. /\ F \subseteq 1..swarm.count /\ S \subseteq 1..swarm.count /\ I \subseteq 1..swarm.count
        /\ F \subseteq Drones /\ S \subseteq Drones /\ I \subseteq Drones
    BY <1>1, <1>3 DEF Inventories
  <2>3. /\ Recompute /\ pending' = 0 /\ operatorPaused' = operatorPaused
        /\ injected' = injected \ {d}
    BY <1>5 DEF HealDrone, NoDrone
  <2>. HIDE DEF F, S, I
  <2>4. swarm' \in Inventories /\ swarm'.count = swarm.count
    BY <1>1, <2>1, <2>2 DEF Inventories
  <2>5. pending' \in 0..swarm'.count /\ injected' \subseteq Drones
    BY <1>1, <2>3, <2>4
  <2>. QED
    BY <1>1, <1>2, <2>3, <2>4, <2>5, RecomputeStep
<1>6. CASE StandbyDrone(d)
  <2>. DEFINE S == swarm.standby \union {d}
              I == swarm.integrated \ {d}
  <2>1. swarm' = [swarm EXCEPT !.standby = S, !.integrated = I]
    BY <1>1, <1>6 DEF StandbyDrone, Inventories
  <2>2. /\ S \subseteq 1..swarm.count /\ I \subseteq 1..swarm.count
        /\ S \subseteq Drones /\ I \subseteq Drones
    BY <1>1, <1>3 DEF Inventories
  <2>3. /\ Recompute /\ pending' = pending /\ operatorPaused' = operatorPaused
        /\ injected' = injected
    BY <1>6 DEF StandbyDrone
  <2>. HIDE DEF S, I
  <2>4. swarm' \in Inventories /\ swarm'.count = swarm.count
    BY <1>1, <2>1, <2>2 DEF Inventories
  <2>5. pending' \in 0..swarm'.count
    BY <1>1, <2>3, <2>4
  <2>. QED
    BY <1>1, <1>2, <2>3, <2>4, <2>5, RecomputeStep
<1>. QED
  BY <1>4, <1>5, <1>6

LEMMA ConfigStep ==
  ASSUME IInv, NEW c \in Configs, UpdateConfig(c)
  PROVE  Advance
<1>1. /\ swarm' = Configured(c) /\ Recompute /\ injected' = {} /\ Command
      /\ operatorPaused' = operatorPaused
      /\ pending' = IF pending > c.count THEN NoDrone ELSE pending
  BY DEF UpdateConfig
<1>2. swarm' \in Inventories /\ swarm'.count = c.count
  BY <1>1, ConfiguredInventory DEF Configured
<1>3. pending \in Nat /\ c.count \in Nat
  <2>1. swarm.count \in Nat
    BY MaxDronesAssumption DEF IInv, Inventories, Drones
  <2>. QED
    BY <2>1, RelayChainAssumption, MaxDronesAssumption DEF IInv
<1>4. pending' \in 0..swarm'.count
  BY <1>1, <1>2, <1>3 DEF NoDrone
<1>5. commands' \in 0..MaxCommands /\ operatorPaused' \in BOOLEAN /\ injected' \subseteq Drones
  BY <1>1, CommandStep DEF IInv
<1>. QED
  BY <1>1, <1>2, <1>4, <1>5, RecomputeStep

LEMMA ResetStep ==
  ASSUME IInv, ResetChain
  PROVE  Advance
<1>1. swarm \in Inventories /\ swarm.count \in Drones /\ swarm.count \in Nat
  BY MaxDronesAssumption DEF IInv, Inventories, Drones
<1>. DEFINE I == swarm.integrated \union ((1..swarm.count) \ swarm.standby)
<1>2. swarm' = [swarm EXCEPT !.failed = {}, !.integrated = I]
  BY <1>1 DEF ResetChain, Inventories
<1>3. I \subseteq 1..swarm.count /\ I \subseteq Drones
  BY <1>1, MaxDronesAssumption DEF Inventories, Drones
<1>4. /\ Recompute /\ pending' = 0 /\ operatorPaused' = operatorPaused /\ injected' = {}
      /\ commands' \in 0..MaxCommands
  BY CommandStep DEF ResetChain, NoDrone
<1>. HIDE DEF I
<1>5. swarm' \in Inventories /\ swarm'.count = swarm.count
  BY <1>1, <1>2, <1>3 DEF Inventories
<1>6. pending' \in 0..swarm'.count /\ operatorPaused' \in BOOLEAN /\ injected' \subseteq Drones
  BY <1>1, <1>4, <1>5 DEF IInv
<1>. QED
  BY <1>4, <1>5, <1>6, RecomputeStep

LEMMA NextStep ==
  ASSUME IInv, [Next]_vars
  PROVE  Advance
<1>1. CASE \E due \in BOOLEAN : Ticks(due)
  BY <1>1, TickStep DEF Ticks
<1>2. CASE PublishStatus
  BY <1>2, PublishStep
<1>3. CASE \E d \in Drones : FailDrone(d) \/ HealDrone(d) \/ StandbyDrone(d)
  BY <1>3, DroneStep
<1>4. CASE \E c \in Configs : UpdateConfig(c)
  BY <1>4, ConfigStep
<1>5. CASE ResetChain
  BY <1>5, ResetStep
<1>6. CASE ResumeMission \/ PauseMission
  <2>1. /\ Command /\ swarm' = swarm /\ version' = version /\ pending' = pending
        /\ traffic' = traffic /\ operatorPaused' \in BOOLEAN /\ injected' = injected
    BY <1>6 DEF ResumeMission, PauseMission
  <2>2. pending' \in 0..swarm.count /\ commands' \in 0..MaxCommands /\ injected' \subseteq Drones
    BY <2>1, CommandStep DEF IInv
  <2>. QED
    BY <2>1, <2>2, QuietStep
<1>7. CASE UNCHANGED vars
  <2>1. /\ swarm' = swarm /\ version' = version /\ pending' = pending /\ traffic' = traffic
        /\ operatorPaused' = operatorPaused /\ injected' = injected /\ commands' = commands
    BY <1>7 DEF vars
  <2>2. /\ pending' \in 0..swarm.count /\ commands' \in 0..MaxCommands /\ injected' \subseteq Drones
        /\ operatorPaused' \in BOOLEAN
    BY <2>1 DEF IInv
  <2>. QED
    BY <2>1, <2>2, QuietStep
<1>. QED
  BY <1>1, <1>2, <1>3, <1>4, <1>5, <1>6, <1>7 DEF Next


-----------------------------------------------------------------------------
(* The theorems.                                                             *)

LEMMA Inductive == Spec => []IInv
<1>1. IInv /\ [Next]_vars => IInv'
  BY NextStep DEF Advance
<1>. QED
  BY <1>1, InitIInv, PTL DEF Spec

LEMMA PacketTyped ==
  ASSUME NEW p \in Packets
  PROVE  PacketTypeOK(p)
<1>1. /\ p \in LongPackets /\ p.cursor \in 0..MaxDrones /\ p.phase \in Phases
      /\ p.forward \in Seq(Hops) /\ Len(p.forward) <= MaxDrones
      /\ p.reverse \in Seq(Hops) /\ Len(p.reverse) <= MaxDrones
  BY MaxDronesAssumption DEF Packets, LongPackets
<1>2. DOMAIN p = {"phase", "cursor", "forward", "reverse"}
  BY <1>1 DEF LongPackets
<1>3. ASSUME NEW phase \in Phases
      PROVE  Len(p[phase]) <= MaxDrones /\ Range(p[phase]) \subseteq Nodes \X Nodes
  <2>1. p[phase] \in Seq(Hops) /\ Len(p[phase]) <= MaxDrones
    BY <1>1 DEF Phases
  <2>. DEFINE trace == p[phase]
  <2>. HIDE DEF trace
  <2>2. Range(trace) \subseteq Hops
    BY <2>1, RangeOfSeq DEF trace
  <2>. QED
    BY <2>1, <2>2 DEF trace, Hops
<1>. QED
  BY <1>1, <1>2, <1>3 DEF PacketTypeOK

\* Every part of the node's state keeps its type: cursors stay inside the path they
\* index, traces are never longer than the swarm, and a pending failure names a drone
\* of the inventory, whatever configurations replace it.
THEOREM TypeCorrect == Spec => []TypeOK
<1>1. IInv => TypeOK
  <2>. SUFFICES ASSUME IInv PROVE TypeOK
    OBVIOUS
  <2>1. /\ swarm.count \in Drones /\ swarm.branchCount \in Nat \ {0}
        /\ \A part \in {"failed", "standby", "integrated"} : swarm[part] \subseteq 1..swarm.count
    BY DEF IInv, Inventories
  <2>2. /\ traffic.packet \in Packets /\ traffic.branchIndex \in 0..MaxDrones
        /\ traffic.paused \in BOOLEAN /\ traffic.flows \in Seq(Flows)
    BY DEF IInv, Traffics
  <2>3. ASSUME NEW k \in DOMAIN traffic.flows
        PROVE  /\ Range(traffic.flows[k].branch) \subseteq Drones
               /\ PacketTypeOK(traffic.flows[k].packet)
               /\ traffic.flows[k].paused \in BOOLEAN
    <3>1. traffic.flows[k] \in Flows
      BY <2>2
    <3>. DEFINE f == traffic.flows[k]
    <3>. HIDE DEF f
    <3>2. f.branch \in Seq(Drones) /\ f.packet \in Packets /\ f.paused \in BOOLEAN
      BY <3>1, FlowFacts DEF f, Routes
    <3>3. Range(f.branch) \subseteq Drones
      BY <3>2, RangeOfSeq
    <3>. QED
      BY <3>2, <3>3, PacketTyped DEF f
  <2>4. PacketTypeOK(traffic.packet)
    BY <2>2, PacketTyped
  <2>. QED
    BY <2>1, <2>2, <2>3, <2>4 DEF TypeOK, IInv
<1>. QED
  BY <1>1, Inductive, PTL

\* Whatever fails, heals, joins or is reconfigured while packets are under way, the
\* hops a packet has taken are those of the branch that is active now, in order, up to
\* its cursor; so the hop it takes next is one of that branch as well.
THEOREM PacketsFollowTheirBranches == Spec => []PacketFollowsItsBranch
<1>1. IInv => PacketFollowsItsBranch
  <2>. SUFFICES ASSUME IInv PROVE PacketFollowsItsBranch
    OBVIOUS
  <2>1. traffic.flows \in Seq(Flows)
    BY DEF IInv, Traffics
  <2>2. \A k \in DOMAIN traffic.flows :
          FollowsBranch(traffic.flows[k].packet, traffic.flows[k].branch)
    <3>1. \A k \in DOMAIN traffic.flows : traffic.flows[k] \in Flows
      BY <2>1
    <3>. QED
      BY <3>1, FlowFacts
  <2>. QED
    BY <2>2 DEF IInv, ChainFollows, PacketFollowsItsBranch
<1>. QED
  BY <1>1, Inductive, PTL

\* An outage keeps a packet where it is until the topology is recomputed: no command,
\* status report or tick of another branch moves or releases it, and an operator pause
\* stops the packet as well.
THEOREM OutagesRetainTheCursor == Spec => OutageRetainsCursor
<1>. DEFINE Retained == version' = version =>
       /\ traffic.paused /\ ~Parallel(swarm) => traffic'.paused
       /\ operatorPaused \/ (traffic.paused /\ ~Parallel(swarm)) =>
            traffic'.packet = traffic.packet
       /\ \A k \in DOMAIN traffic.flows : traffic.flows[k].paused =>
            k \in DOMAIN traffic'.flows /\ traffic'.flows[k] = traffic.flows[k]
<1>1. IInv /\ [Next]_vars => Retained
  BY NextStep DEF Advance, Retains, PausedRetained
<1>2. [][Retained]_vars => OutageRetainsCursor
  BY PTL DEF OutageRetainsCursor
<1>3. IInv /\ [Next]_vars => [Retained]_vars
  BY <1>1
<1>. HIDE DEF Retained
<1>. QED
  BY <1>2, <1>3, Inductive, PTL DEF Spec

\* The drones of the last hop of a packet that follows a branch are on that branch.
LEMMA LastHopOnBranch ==
  ASSUME NEW s \in Inventories, NEW k \in DOMAIN Branches(s), NEW p \in LongPackets,
         FollowsBranch(p, Branches(s)[k]), p.cursor > 0
  PROVE  Range(Last(p[p.phase])) \subseteq Active(s) \union {Station}
<1>. DEFINE b == Branches(s)[k]
            T == {Station} \union Active(s)
            hops == HopsOf(b, p.phase)
            c == p.cursor
<1>1. b \in Routes /\ Range(b) \subseteq Active(s)
  BY BranchesFacts
<1>2. b \in Seq(Active(s))
  <2>. HIDE DEF b
  <2>1. b \in Seq(Drones)
    BY <1>1 DEF Routes
  <2>2. b \in Seq(Range(b))
    BY <2>1, SeqOfRange
  <2>. QED
    BY <1>1, <2>2, SeqMonotonic
<1>3. c \in Nat /\ c > 0 /\ p.phase \in Phases
  BY DEF LongPackets
<1>. HIDE DEF b
<1>4. hops \in Seq(T \X T) /\ Len(hops) = Len(b) /\ Len(b) \in Nat
  BY <1>1, <1>2, <1>3, HopsFacts, RouteFacts
<1>5. c <= Len(b)
  BY <1>1, FollowsTyped DEF b
<1>6. p[p.phase] = SubSeq(hops, 1, c)
  <2>1. CASE p.phase = "forward"
    BY <2>1 DEF FollowsBranch, b
  <2>2. CASE p.phase = "reverse"
    BY <2>2 DEF FollowsBranch, b
  <2>. QED
    BY <1>3, <2>1, <2>2 DEF Phases
<1>. DEFINE trace == SubSeq(hops, 1, c)
<1>. HIDE DEF hops, c, T
<1>7. Len(trace) = c /\ trace[c] = hops[c] /\ hops[c] \in T \X T
  BY <1>3, <1>4, <1>5
<1>8. Last(p[p.phase]) \in T \X T
  BY <1>6, <1>7 DEF Last
<1>9. ASSUME NEW hop \in T \X T
      PROVE  Range(hop) \subseteq T
  BY DEF Range
<1>. QED
  BY <1>8, <1>9 DEF T

\* A packet is never handed to or taken from a drone that has failed, is on standby or
\* has left the inventory, even when that happens in the same tick.
THEOREM HopsJoinActiveDrones == Spec => ForwardsOverActiveDrones
<1>. DEFINE OverActiveDrones ==
       /\ ~Parallel(swarm') /\ traffic'.packet # traffic.packet => LastHopActive(traffic.packet)'
       /\ \A k \in DOMAIN traffic'.flows :
            k \in DOMAIN traffic.flows /\ traffic'.flows[k].packet # traffic.flows[k].packet
              => LastHopActive(traffic.flows[k].packet)'
<1>1. ASSUME IInv, [Next]_vars
      PROVE  OverActiveDrones
  <2>. DEFINE s == swarm'
              t == traffic
              u == traffic'
              all == Branches(s)
              Fits(p) == p.cursor > 0 => Range(Last(p[p.phase])) \subseteq Active(s) \union {Station}
  <2>1. IInv' /\ Proceeds(s, t, u)
    BY <1>1, NextStep DEF Advance
  <2>2. s \in Inventories /\ u \in Traffics /\ u.packet \in LongPackets /\ u.branchIndex \in Nat
    BY <2>1, MaxDronesAssumption DEF IInv, Traffics, Packets
  <2>. HIDE DEF s, t, u
  <2>3. all \in Seq(Routes) /\ Len(all) \in Nat /\ DOMAIN all = 1..Len(all)
    BY <2>2, BranchesFacts
  <2>4. ASSUME ~Parallel(s), u.packet # t.packet
        PROVE  Fits(u.packet)
    <3>1. CASE all = <<>>
      <4>1. u.packet = NewPacket
        BY <2>1, <2>4, <3>1 DEF Proceeds
      <4>2. ~(u.packet.cursor > 0)
        BY <4>1 DEF NewPacket
      <4>. QED
        BY <4>2
    <3>2. CASE all # <<>>
      <4>. DEFINE k == (u.branchIndex % Len(all)) + 1
      <4>1. FollowsBranch(u.packet, all[k])
        BY <2>1, <2>4, <3>2 DEF Proceeds, ChainFollows
      <4>2. k \in DOMAIN all
        <5>1. Len(all) # 0
          BY <2>3, <3>2
        <5>. HIDE DEF all
        <5>. QED
          BY <2>2, <2>3, <5>1
      <4>. HIDE DEF k
      <4>. QED
        BY <2>2, <4>1, <4>2, LastHopOnBranch
    <3>. QED
      BY <3>1, <3>2
  <2>5. ASSUME NEW k \in DOMAIN u.flows, k \in DOMAIN t.flows,
               u.flows[k].packet # t.flows[k].packet
        PROVE  Fits(u.flows[k].packet)
    <3>. DEFINE f == u.flows[k]
    <3>1. k \in DOMAIN all /\ f.branch = all[k]
      BY <2>1, <2>5 DEF Proceeds, MovesOnBranches
    <3>2. f \in Flows
      <4>1. u.flows \in Seq(Flows)
        BY <2>2 DEF Traffics
      <4>. QED
        BY <4>1
    <3>. HIDE DEF f
    <3>3. f.packet \in LongPackets /\ FollowsBranch(f.packet, all[k])
      BY <3>1, <3>2, FlowFacts
    <3>4. Fits(f.packet)
      BY <2>2, <3>1, <3>3, LastHopOnBranch
    <3>. QED
      BY <3>4 DEF f
  <2>6. /\ LastHopActive(traffic.packet)' <=> Fits(u.packet)
        /\ \A k \in DOMAIN u.flows : LastHopActive(traffic.flows[k].packet)' <=> Fits(u.flows[k].packet)
    BY DEF LastHopActive, u, s
  <2>. HIDE DEF Fits
  <2>. QED
    BY <2>4, <2>5, <2>6 DEF u, s, t
<1>2. IInv /\ [Next]_vars => [OverActiveDrones]_vars
  BY <1>1
<1>3. [][OverActiveDrones]_vars => ForwardsOverActiveDrones
  BY PTL DEF ForwardsOverActiveDrones
<1>. HIDE DEF OverActiveDrones
<1>. QED
  BY <1>2, <1>3, Inductive, PTL DEF Spec
=============================================================================
