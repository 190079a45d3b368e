------------------------------ MODULE Topology ------------------------------
(***************************************************************************)
(* Relay topologies (netlab/topology.py): branches and edges, the          *)
(* validation of a proposed graph, and the graph analytics Mission Control *)
(* shows with it.                                                          *)
(*                                                                         *)
(* Nodes are numbers: the source is 0, relays count from 1.  Neighbours    *)
(* are Python sets of strings, whose iteration order changes from process  *)
(* to process, so every traversal takes the order as an argument: a        *)
(* sequence of all nodes.                                                  *)
(***************************************************************************)
EXTENDS Selection, Sequences, SequencesExt, FiniteSetsExt, Functions

Source == 0
Modes == {"chain", "parallel", "forest", "manual"}

Ranked(S, order) == SelectSeq(order, LAMBDA n : n \in S)

\* The element of a set that an iteration over it meets first.
First(S, order) ==
  order[CHOOSE i \in DOMAIN order :
          order[i] \in S /\ \A j \in DOMAIN order : order[j] \in S => i <= j]

\* The state of a loop after n rounds; body takes a state to the next one.
Loop(body, start, n) ==
  LET run[i \in 0..n] == IF i = 0 THEN start ELSE body[run[i - 1]] IN run[n]

-----------------------------------------------------------------------------
(* Branches and edges.                                                       *)

\* sanitize_branches: unknown indices and repetitions are dropped, then empty rows.
SanitizedBranch(branch, count) ==
  Kept(branch, {i \in DOMAIN branch :
                  branch[i] \in 1..count /\ \A j \in 1..(i - 1) : branch[j] # branch[i]})

SanitizeBranches(branches, count) ==
  LET clean == [k \in DOMAIN branches |-> SanitizedBranch(branches[k], count)]
  IN Kept(clean, {k \in DOMAIN branches : clean[k] # <<>>})

\* The edges of branches, each at its branch and its place on it.
BranchesToEdges(branches) ==
  [at \in UNION {{k} \X DOMAIN branches[k] : k \in DOMAIN branches} |->
     <<IF at[2] = 1 THEN Source ELSE branches[at[1]][at[2] - 1], branches[at[1]][at[2]]>>]

\* The k-th of n hands dealt from a sequence in turn.
Hand(seq, k, n) == [i \in 1..((Len(seq) - k) \div n + 1) |-> seq[(i - 1) * n + k]]

GenerateBranches(relays, wanted, mode) ==
  LET count == Max({1, Min({wanted, relays})})
      all == [i \in 1..relays |-> i]
      roots == Min({count, Max({1, relays \div 3})})
      rest == [i \in 1..(relays - roots) |-> roots + i]
  IN CASE mode = "parallel" -> [k \in 1..count |-> Hand(all, k, count)]
       [] mode = "forest" /\ relays = 1 -> << <<1>> >>
       [] mode = "forest" -> [k \in 1..count |-> <<1 + ((k - 1) % roots)>> \o Hand(rest, k, count)]
       [] OTHER -> <<all>>

-----------------------------------------------------------------------------
(* Traversals.  An adjacency is a function from nodes to sets of nodes.      *)

Ends(edges) == UNION {{edges[i][1], edges[i][2]} : i \in DOMAIN edges}

Adjacency(nodes, edges, directed) ==
  [n \in nodes \union Ends(edges) |->
     {m \in nodes \union Ends(edges) :
        \E i \in DOMAIN edges : edges[i] = <<n, m>> \/ (~directed /\ edges[i] = <<m, n>>)}]

\* One round of the loop of reachable.  The queue is the set of nodes that wait in
\* it: one that is met twice is visited once, and their order does not change what
\* is reached.
Visit(graph, order, s) ==
  LET node == First(s.queue, order)
  IN IF s.queue = {} THEN s
     ELSE [queue |-> (s.queue \union graph[node]) \ (s.seen \union {node}),
           seen |-> s.seen \union {node}]

Reached(graph, order, source) ==
  LET body == [s \in [queue : SUBSET DOMAIN graph, seen : SUBSET DOMAIN graph] |->
                 Visit(graph, order, s)]
  IN Loop(body, [queue |-> {source}, seen |-> {}], Cardinality(DOMAIN graph)).seen

PeelComponents(graph, order) ==
  LET peel[remaining \in SUBSET DOMAIN graph] ==
        IF remaining = {} THEN {}
        ELSE LET component == Reached(graph, order, First(remaining, order))
             IN {component} \union peel[remaining \ component]
  IN peel[DOMAIN graph]

ConnectedComponents(nodes, edges, order) ==
  PeelComponents(Adjacency(nodes, edges, FALSE), order)

\* Breadth first search over paths; <<>> stands for None.
ShortestPath(graph, order, source, target) ==
  LET N == DOMAIN graph
      search[queue \in Seq(Seq(N)), seen \in SUBSET N] ==
        IF queue = <<>> THEN <<>>
        ELSE LET path == Head(queue)
                 fresh == Ranked(graph[Last(path)] \ seen, order)
             IN IF Last(path) = target THEN path
                ELSE search[Tail(queue) \o [i \in DOMAIN fresh |-> Append(path, fresh[i])],
                            seen \union Range(fresh)]
  IN search[<< <<source>> >>, {source}]

(* has_cycle: depth first search with white, gray and black nodes.  stack     *)
(* holds the calls of visit that have not returned, and rest the neighbours   *)
(* the loop of a node has still to look at.                                   *)

Entered(s, node) ==
  [s EXCEPT !.white = @ \ {node}, !.gray = @ \union {node}, !.stack = Append(@, node)]

\* Mutant of Finished: the node stays gray.
FinishedGray(s, node) == [s EXCEPT !.stack = Front(@)]

Finished(s, node) ==
  [s EXCEPT !.gray = @ \ {node}, !.black = @ \union {node}, !.stack = Front(@)]

\* The loop of visit looks at its next neighbour.
Looked(s, node, next) ==
  LET t == [s EXCEPT !.rest[node] = @ \ {next}]
  IN IF next \in s.gray THEN [t EXCEPT !.cycle = TRUE]
     ELSE IF next \in s.white THEN Entered(t, next)
     ELSE t

\* One round of the search: a call of visit, a turn of its loop, or its return.
VisitForCycle(order, s) ==
  IF s.cycle \/ (s.stack = <<>> /\ s.white = {}) THEN s
  ELSE IF s.stack = <<>> THEN Entered(s, First(s.white, order))
  ELSE LET node == Last(s.stack)
       IN IF s.rest[node] = {} THEN Finished(s, node)
          ELSE Looked(s, node, First(s.rest[node], order))

ColourStates(N) ==
  [white : SUBSET N, gray : SUBSET N, black : SUBSET N, stack : Seq(N),
   rest : [N -> SUBSET N], cycle : BOOLEAN]

\* Every node is entered and left once, every edge looked at once.
HasCycle(graph, order) ==
  LET N == DOMAIN graph
      body == [s \in ColourStates(N) |-> VisitForCycle(order, s)]
      start == [white |-> N, gray |-> {}, black |-> {}, stack |-> <<>>, rest |-> graph,
                cycle |-> FALSE]
  IN Loop(body, start, Cardinality(N) * (Cardinality(N) + 2)).cycle

-----------------------------------------------------------------------------
(* Cut vertices and bridges, by the low-link search both functions share.    *)

\* Mutant of IsCut: the comparison is strict.
IsStrictCut(parent, children, low, discovery) ==
  IF parent = -1 THEN children > 1 ELSE low > discovery

\* Does the child with this low-link make its parent node a cut vertex?
IsCut(parent, children, low, discovery) ==
  IF parent = -1 THEN children > 1 ELSE low >= discovery

\* dfs of articulation_points and bridge_edges.  The parent of a root is -1, an
\* undiscovered node has discovery number 0; r counts the children of node.
LowLinkStates(N) ==
  [counter : Nat, disc : [N -> Nat], low : [N -> Nat], points : SUBSET N,
   bridges : SUBSET SUBSET N]

LowLink(graph, order, root, start) ==
  LET N == DOMAIN graph
      dfs[node \in N, parent \in N \union {-1}, s \in LowLinkStates(N)] ==
        LET entered == [s EXCEPT !.disc[node] = s.counter + 1, !.low[node] = s.counter + 1,
                                 !.counter = @ + 1]
            Child(r, next) ==
              LET below == dfs[next, node, r[1]]
                  low == Min({below.low[node], below.low[next]})
                  cut == IsCut(parent, r[2] + 1, below.low[next], below.disc[node])
                  bridge == below.low[next] > below.disc[node]
              IN <<[below EXCEPT !.low[node] = low,
                                 !.points = @ \union (IF cut THEN {node} ELSE {}),
                                 !.bridges = @ \union (IF bridge THEN {{node, next}} ELSE {})],
                   r[2] + 1>>
            Step(r, next) ==
              IF r[1].disc[next] = 0 THEN Child(r, next)
              ELSE IF next # parent
                   THEN <<[r[1] EXCEPT !.low[node] = Min({@, r[1].disc[next]})], r[2]>>
              ELSE r
        IN FoldLeft(Step, <<entered, 0>>, Ranked(graph[node], order))[1]
  IN dfs[root, -1, start]

\* The loop over the roots of articulation_points and of bridge_edges.
LowLinkSearch(nodes, edges, order) ==
  LET graph == Adjacency(nodes, edges, FALSE)
      zero == [n \in DOMAIN graph |-> 0]
      Step(s, node) == IF s.disc[node] = 0 THEN LowLink(graph, order, node, s) ELSE s
  IN FoldLeft(Step, [counter |-> 0, disc |-> zero, low |-> zero, points |-> {}, bridges |-> {}],
              Ranked(DOMAIN graph, order))

ArticulationPoints(nodes, edges, order) == LowLinkSearch(nodes, edges, order).points
BridgeEdges(nodes, edges, order) == LowLinkSearch(nodes, edges, order).bridges

-----------------------------------------------------------------------------
(* Distances.                                                                *)

\* farthest: the first node met at the greatest distance.
Farthest(graph, order, start) ==
  LET N == DOMAIN graph
      sweep[queue \in Seq(N \X Nat), seen \in SUBSET N, far \in N \X Nat] ==
        IF queue = <<>> THEN [node |-> far[1], distance |-> far[2], reached |-> Cardinality(seen)]
        ELSE LET head == Head(queue)
                 fresh == Ranked(graph[head[1]] \ seen, order)
             IN sweep[Tail(queue) \o [i \in DOMAIN fresh |-> <<fresh[i], head[2] + 1>>],
                      seen \union Range(fresh),
                      IF head[2] > far[2] THEN head ELSE far]
  IN sweep[<< <<start, 0>> >>, {start}, <<start, 0>>]

UndirectedEdges(edges) == {{edges[i][1], edges[i][2]} : i \in {j \in DOMAIN edges : edges[j][1] # edges[j][2]}}

\* Mutant of IsTree: a graph with one more edge is taken for a tree.
IsNearlyTree(nodes, edges) == Cardinality(UndirectedEdges(edges)) <= Cardinality(nodes)

IsTree(nodes, edges) == Cardinality(UndirectedEdges(edges)) = Cardinality(nodes) - 1

\* _all_pairs_diameter: two sweeps of a tree, else a sweep from every node.  -1
\* stands for None, the diameter of a graph that is not connected.
Diameter(nodes, edges, order) ==
  LET graph == Adjacency(nodes, edges, FALSE)
      first == Farthest(graph, order, Source)
  IN IF first.reached # Cardinality(nodes) THEN -1
     ELSE IF IsTree(nodes, edges) THEN Farthest(graph, order, first.node).distance
     ELSE Max({Farthest(graph, order, n).distance : n \in nodes})

-----------------------------------------------------------------------------
(* Disjoint paths, by augmenting flows (_max_flow).                          *)

\* The search for an augmenting path: the parent of every node it meets, NoNode
\* for the others.
NoNode == -1

FlowSearch(residual, order, source, sink) ==
  LET N == DOMAIN residual
      search[queue \in Seq(N), parent \in [N -> N \union {NoNode}]] ==
        IF queue = <<>> \/ parent[sink] # NoNode THEN parent
        ELSE LET node == Head(queue)
                 open == {m \in N : residual[node][m] > 0 /\ parent[m] = NoNode}
             IN search[Tail(queue) \o Ranked(open, order),
                       [m \in N |-> IF m \in open THEN node ELSE parent[m]]]
  IN search[<<source>>, [m \in N |-> IF m = source THEN source ELSE NoNode]]

\* The edges from the source to a node by the parents.
PathTo(parent, source, target) ==
  LET path[node \in DOMAIN parent] ==
        IF node = source THEN <<>> ELSE Append(path[parent[node]], <<parent[node], node>>)
  IN path[target]

\* Mutant of Augmented: no flow can be taken back.
AugmentedForward(residual, path, increment) ==
  [m \in DOMAIN residual |-> [n \in DOMAIN residual |->
     residual[m][n] - (IF <<m, n>> \in Range(path) THEN increment ELSE 0)]]

Augmented(residual, path, increment) ==
  [m \in DOMAIN residual |-> [n \in DOMAIN residual |->
     residual[m][n] - (IF <<m, n>> \in Range(path) THEN increment ELSE 0)
                    + (IF <<n, m>> \in Range(path) THEN increment ELSE 0)]]

MaxFlow(capacity, order, source, sink) ==
  LET N == DOMAIN capacity
      flow[residual \in [N -> [N -> Nat]]] ==
        LET parent == FlowSearch(residual, order, source, sink)
            path == PathTo(parent, source, sink)
            increment == Min({residual[path[i][1]][path[i][2]] : i \in DOMAIN path})
        IN IF parent[sink] = NoNode THEN 0
           ELSE increment + flow[Augmented(residual, path, increment)]
  IN flow[capacity]

EdgeDisjointCount(nodes, edges, order, sink) ==
  MaxFlow([m \in nodes |-> [n \in nodes |->
             Cardinality({i \in DOMAIN edges : edges[i] = <<m, n>>})]],
          order, Source, sink)

\* Every node is split; a relay lets one path through.  The out half of node n is
\* Split + n.
NodeDisjointCount(nodes, edges, order, sink) ==
  LET split == Max(nodes) + 1
      halves == nodes \union {n + split : n \in nodes}
      limit == Max({1, Cardinality(nodes)})
      Room(m, n) ==
        IF m \in nodes /\ n = m + split THEN (IF m \in {Source, sink} THEN limit ELSE 1)
        ELSE IF m - split \in nodes /\ n \in nodes /\ <<m - split, n>> \in Range(edges) THEN 1
        ELSE 0
  IN MaxFlow([m \in halves |-> [n \in halves |-> Room(m, n)]],
             order \o [i \in DOMAIN order |-> order[i] + split],
             Source, sink + split)

\* _simple_path_count, below its limit.
SimplePathCount(graph, source, sink) ==
  LET count[node \in DOMAIN graph, seen \in SUBSET DOMAIN graph] ==
        IF node = sink THEN 1
        ELSE MapThenSumSet(LAMBDA m : count[m, seen \union {m}], graph[node] \ seen)
  IN count[source, {source}]

-----------------------------------------------------------------------------
(* Betweenness (_brandes_betweenness, exact below 256 nodes), in units of    *)
(* 1/Unit and before the scaling that depends on the number of nodes only.   *)

Unit == 12

Distance(graph, order, m, n) == Len(ShortestPath(graph, order, m, n)) - 1

Predecessors(graph, order, source, node) ==
  {m \in DOMAIN graph :
     /\ node \in graph[m]
     /\ Distance(graph, order, source, m) >= 0
     /\ Distance(graph, order, source, node) = Distance(graph, order, source, m) + 1}

\* sigma: the number of shortest paths from source.
Sigma(graph, order, source) ==
  LET sigma[node \in DOMAIN graph] ==
        IF node = source THEN 1
        ELSE MapThenSumSet(LAMBDA m : sigma[m], Predecessors(graph, order, source, node))
  IN sigma

\* delta: the stack is unwound from the farthest nodes to the source.
Dependency(graph, order, source, target) ==
  LET sigma == Sigma(graph, order, source)
      delta[node \in DOMAIN graph] ==
        MapThenSumSet(LAMBDA m : (sigma[node] * (Unit + delta[m])) \div sigma[m],
                      {m \in graph[node] : node \in Predecessors(graph, order, source, m)})
  IN delta[target]

\* Mutant of Betweenness: the paths that start at the node count too.
BetweennessWithEnds(nodes, edges, order, node) ==
  LET graph == Adjacency(nodes, edges, FALSE)
  IN MapThenSumSet(LAMBDA s : Dependency(graph, order, s, node), nodes)

Betweenness(nodes, edges, order, node) ==
  LET graph == Adjacency(nodes, edges, FALSE)
  IN MapThenSumSet(LAMBDA s : Dependency(graph, order, s, node), nodes \ {node})

-----------------------------------------------------------------------------
\* topology_metrics, without the averages and the eigenvalue.
TopologyMetrics(nodes, proposed, sinks, order) ==
  LET edges == SelectSeq(proposed, LAMBDA e : {e[1], e[2]} \subseteq nodes)
      graph == Adjacency(nodes, edges, TRUE)
      edgeDisjoint == [s \in sinks |-> EdgeDisjointCount(nodes, edges, order, s)]
      nodeDisjoint == [s \in sinks |-> NodeDisjointCount(nodes, edges, order, s)]
      diversity == [s \in sinks |-> SimplePathCount(graph, Source, s)]
  IN [components |-> ConnectedComponents(nodes, edges, order),
      diameter |-> Diameter(nodes, edges, order),
      paths |-> [s \in sinks |-> ShortestPath(graph, order, Source, s)],
      points |-> ArticulationPoints(nodes, edges, order),
      bridges |-> BridgeEdges(nodes, edges, order),
      betweenness |-> [n \in nodes |-> Betweenness(nodes, edges, order, n)],
      edgeDisjoint |-> edgeDisjoint,
      nodeDisjoint |-> nodeDisjoint,
      connectivity |-> Min(Range(edgeDisjoint) \union Range(nodeDisjoint)),
      redundancy |-> Min(Range(diversity))]
=============================================================================
