--------------------------- MODULE DijkstraProofs ---------------------------
(***************************************************************************)
(* Dijkstra() is correct on every LS table, for any number of nodes: the   *)
(* invariant of its main loop, and what it says when the loop ends.        *)
(***************************************************************************)
EXTENDS LSTables, Foundations

Tables == [Nodes -> LSTableEntry \cup {NoEntry}]

Routes == [nextHop : Nodes \cup {NoNode}, interface : Nodes \cup {NoNode}, cost : Nat]

LoopStates == [rt : [Nodes -> Routes], found : SUBSET Nodes, stray : BOOLEAN]

Graph(t) == [x \in Nodes |-> GetNeighbors(t, x)]

(* M_INF is a number that no cost reaches.                                 *)
LEMMA Infinity == INF \in Nat /\ 1 < INF
BY SMT DEF INF

(* What is read past the end of leastCostFound is whatever the loop wrote  *)
(* there last; nodes without an entry have no edges.                       *)
LEMMA UnknownHaveNoEdges ==
  ASSUME NEW t \in Tables
  PROVE  /\ Graph(t) \in GraphsOn(Nodes)
         /\ \A x \in Nodes : x \notin Known(t) => Graph(t)[x] = {}
         /\ NoNode \notin Known(t)
<1>1. Graph(t) \in GraphsOn(Nodes)
  BY DEF Graph, GraphsOn, GetNeighbors
<1>2. ASSUME NEW x \in Nodes, x \notin Known(t) PROVE Graph(t)[x] = {}
  <2>1. t[x].neighborCosts = [m \in Nodes |-> 0]
    BY <1>2 DEF Known, NoEntry
  <2> QED BY <2>1 DEF Graph, GetNeighbors
<1>3. NoNode \notin Known(t)
  BY NodesAssumption DEF Known, NoNode
<1> QED BY <1>1, <1>2, <1>3

-----------------------------------------------------------------------------
(***************************************************************************)
(* The operations of the loop.                                             *)
(***************************************************************************)
LEMMA MinCostNode ==
  ASSUME NEW t \in Tables, NEW st \in LoopStates
  PROVE  /\ Open(st, t) = {} => GetMinCostNode(st, t) = NoNode
         /\ Open(st, t) # {} =>
              /\ GetMinCostNode(st, t) \in Open(st, t)
              /\ \A e \in Open(st, t) :
                   st.rt[GetMinCostNode(st, t)].cost <= st.rt[e].cost
<1> DEFINE open == Open(st, t)
           best == {d \in open : \A e \in open : st.rt[d].cost <= st.rt[e].cost}
           costs == {st.rt[d].cost : d \in open}
<1>1. open \subseteq Nodes
  BY DEF Open
<1>2. GetMinCostNode(st, t) = IF best = {} THEN NoNode
                              ELSE CHOOSE d \in best : \A e \in best : d <= e
  BY DEF GetMinCostNode
<1>3. \A d \in open : st.rt[d].cost \in Nat
  BY <1>1 DEF LoopStates, Routes
<1> HIDE DEF open
<1>4. CASE open = {}
  BY <1>2, <1>4 DEF open
<1>5. CASE open # {}
  <2>1. costs \subseteq Nat /\ costs # {}
    BY <1>3, <1>5
  <2>2. PICK c \in costs : \A e \in costs : c <= e
    BY <2>1, LeastNatural
  <2>3. best # {}
    BY <2>2
  <2>4. best \subseteq Nat
    BY <1>1, NodesAssumption
  <2> HIDE DEF best
  <2>5. \E d \in best : \A e \in best : d <= e
    BY <2>3, <2>4, LeastNatural
  <2>6. GetMinCostNode(st, t) \in best
    BY <1>2, <2>3, <2>5, Zenon
  <2> QED BY <1>5, <2>6 DEF best, open
<1> QED BY <1>4, <1>5

(* A round either finds nothing open and changes no route, or marks a      *)
(* cheapest open node and improves the routes to its neighbours.           *)
LEMMA Round ==
  ASSUME NEW t \in Tables, NEW st \in LoopStates, NEW nbrs \in SUBSET Nodes
  PROVE  LET c == GetMinCostNode(st, t)
             new == Relax(st, t, nbrs)
             better == {d \in Graph(t)[c] : st.rt[c].cost + 1 < st.rt[d].cost}
         IN  /\ new \in LoopStates
             /\ c = NoNode => new.rt = st.rt /\ new.found = st.found
             /\ c # NoNode =>
                  /\ c \in Nodes
                  /\ new.found = IF c \in Known(t) THEN st.found \cup {c} ELSE st.found
                  /\ \A d \in Nodes \ better : new.rt[d] = st.rt[d]
                  /\ \A d \in better :
                       /\ new.rt[d].nextHop = st.rt[c].nextHop
                       /\ new.rt[d].cost = st.rt[c].cost + 1
<1> DEFINE c == GetMinCostNode(st, t)
           marked == MarkFound(st, t, c)
           better == {d \in GetNeighbors(t, c) : st.rt[c].cost + 1 < st.rt[d].cost}
           route == [nextHop   |-> st.rt[c].nextHop,
                     interface |-> InterfaceTo(nbrs, st.rt[c].nextHop),
                     cost      |-> st.rt[c].cost + 1]
           rt == [d \in Nodes |-> IF d \in better THEN route ELSE st.rt[d]]
<1>1. c = NoNode \/ c \in Nodes
  BY MinCostNode DEF Open
<1>2. /\ marked \in LoopStates
      /\ marked.rt = st.rt
      /\ marked.found = IF c \in Known(t) THEN st.found \cup {c} ELSE st.found
  <2> HIDE DEF c
  <2> QED BY DEF MarkFound, LoopStates, Known
<1>3. Relax(st, t, nbrs) = IF c = NoNode THEN marked ELSE [marked EXCEPT !.rt = rt]
  <2>1. marked.rt = st.rt
    BY <1>2
  <2> QED BY <2>1 DEF Relax, FirstHop
<1>4. NoNode \notin Nodes /\ NoNode \notin Known(t)
  BY NodesAssumption DEF NoNode, Known
<1>5. CASE c = NoNode
  <2> HIDE DEF c, marked
  <2> QED BY <1>2, <1>3, <1>4, <1>5 DEF c
<1>6. CASE c # NoNode
  <2>1. c \in Nodes /\ better = {d \in Graph(t)[c] : st.rt[c].cost + 1 < st.rt[d].cost}
    BY <1>1, <1>6 DEF Graph
  <2> HIDE DEF c
  <2>2. route \in Routes
    BY <2>1 DEF LoopStates, Routes, InterfaceTo
  <2>3. route.nextHop = st.rt[c].nextHop /\ route.cost = st.rt[c].cost + 1
    OBVIOUS
  <2> HIDE DEF route, marked, better
  <2>4. rt \in [Nodes -> Routes]
    BY <2>2 DEF LoopStates
  <2>5. [marked EXCEPT !.rt = rt] \in LoopStates
    <3> HIDE DEF rt
    <3> QED BY <1>2, <2>4 DEF LoopStates
  <2>6. better \subseteq Nodes
    BY DEF better, GetNeighbors
  <2>7. /\ [marked EXCEPT !.rt = rt].rt = rt
        /\ [marked EXCEPT !.rt = rt].found = marked.found
    <3> HIDE DEF rt
    <3> QED BY <1>2 DEF LoopStates
  <2> QED BY <1>2, <1>3, <1>6, <2>1, <2>3, <2>5, <2>6, <2>7 DEF c
<1> QED BY <1>5, <1>6
(* The main loop as a sequence of states; Dijkstra() is the routing table  *)
(* after the last round.                                                   *)
LEMMA LoopEquations ==
  ASSUME NEW t \in Tables, NEW n \in Known(t), NEW nbrs \in SUBSET Nodes,
         NEW stray \in BOOLEAN
  PROVE  \E g \in [Nat -> LoopStates] :
           /\ g[0] = [rt |-> InitialRoutes(n, t, nbrs), found |-> {n}, stray |-> stray]
           /\ \A k \in Nat : g[k + 1] = Relax(g[k], t, nbrs)
           /\ Dijkstra(n, t, nbrs, stray) = g[Cardinality(Known(t)) - 1].rt
<1> DEFINE blank == [rt |-> InitialRoutes(n, t, nbrs), found |-> {}, stray |-> stray]
           start == MarkFound(blank, t, n)
           first == [rt |-> InitialRoutes(n, t, nbrs), found |-> {n}, stray |-> stray]
           F == [st \in LoopStates |-> Relax(st, t, nbrs)]
           Body(f) == [k \in Nat |->
                         IF k = 0 THEN start ELSE Relax(f[k - 1], t, nbrs)]
           loop == CHOOSE f : f = Body(f)
           size == Cardinality(Known(t))
<1>1. start = first
  BY DEF MarkFound
<1>2. first \in LoopStates
  <2>1. InitialRoutes(n, t, nbrs) \in [Nodes -> Routes]
    BY Infinity DEF InitialRoutes, Routes, InterfaceTo, GetNeighbors, NoRoute, Known
  <2> QED BY <2>1 DEF LoopStates, Known
<1>3. F \in [LoopStates -> LoopStates]
  BY Round
<1>4. PICK g \in [Nat -> LoopStates] :
        g[0] = first /\ \A k \in Nat : g[k + 1] = F[g[k]]
  <2> HIDE DEF F, first
  <2> QED BY <1>2, <1>3, LoopExists
<1> HIDE DEF start, first
<1>5. g = Body(g)
  <2> SUFFICES ASSUME NEW k \in Nat PROVE g[k] = Body(g)[k]
    BY <1>4
  <2>1. CASE k = 0
    BY <2>1, <1>1, <1>4
  <2>2. CASE k # 0
    <3>1. k - 1 \in Nat /\ k = (k - 1) + 1 /\ g[k - 1] \in LoopStates
      BY <2>2
    <3> QED BY <2>2, <3>1, <1>4
  <2> QED BY <2>1, <2>2
<1>6. loop = Body(loop)
  BY <1>5
<1>7. Dijkstra(n, t, nbrs, stray) =
        loop[IF size = 0 THEN Cardinality(Nodes) ELSE size - 1].rt
  BY DEF Dijkstra, start
<1> HIDE DEF loop
<1>8. \A k \in Nat : loop[k] = g[k]
  <2> DEFINE T == {k \in Nat : loop[k] = g[k]}
  <2>1. 0 \in T
    BY <1>5, <1>6
  <2>2. ASSUME NEW k \in Nat, k \in T PROVE k + 1 \in T
    <3>1. k + 1 \in Nat /\ k + 1 # 0 /\ (k + 1) - 1 = k
      OBVIOUS
    <3>2. loop[k + 1] = Body(loop)[k + 1] /\ g[k + 1] = Body(g)[k + 1]
      BY <1>5, <1>6
    <3> QED BY <2>2, <3>1, <3>2
  <2> HIDE DEF T
  <2>3. \A k \in Nat : k \in T
    BY <2>1, <2>2, SetInduction
  <2> QED BY <2>3 DEF T
<1>9. size \in Nat \ {0}
  <2>1. IsFiniteSet(Known(t))
    BY FS_Subset, NodesAssumption DEF Known
  <2> QED BY <2>1, FS_CardinalityType, FS_EmptySet
<1>10. Dijkstra(n, t, nbrs, stray) = g[size - 1].rt
  BY <1>7, <1>8, <1>9
<1>11. \A k \in Nat : g[k + 1] = Relax(g[k], t, nbrs)
  BY <1>4
<1> QED BY <1>4, <1>10, <1>11 DEF first

-----------------------------------------------------------------------------
(***************************************************************************)
(* The invariant of the main loop after k rounds.                          *)
(***************************************************************************)
(* Every route is a path: its next hop is a neighbour and the destination  *)
(* is cost - 1 edges away from it.                                         *)
PathsExist(st, n, t, k) ==
  \A d \in Nodes \ {n} :
    st.rt[d] # NoRoute =>
      /\ st.rt[d].cost \in 1 .. k + 1
      /\ st.rt[d].nextHop \in Graph(t)[n]
      /\ d \in Ball(Graph(t), st.rt[d].nextHop)[st.rt[d].cost - 1]

(* The edges of the nodes found so far have been used.                     *)
EdgesUsed(st, t) ==
  \A x \in st.found : \A y \in Graph(t)[x] :
    st.rt[y] # NoRoute /\ st.rt[y].cost <= st.rt[x].cost + 1

(* No route is more than one edge longer than one that is still open.      *)
Frontier(st, t) ==
  \A o \in Known(t) \ st.found : \A d \in Nodes :
    st.rt[o] # NoRoute /\ st.rt[d] # NoRoute => st.rt[d].cost <= st.rt[o].cost + 1

(* Every node that n can reach has an entry.                               *)
Complete(n, t) == \A d \in Nodes : Distance(Graph(t), n, d) # INF => d \in Known(t)

(* No round is wasted on a node without an entry: each one finds a node    *)
(* until nothing is open.                                                  *)
RoundsUsed(st, n, t, k) ==
  Complete(n, t) =>
    \/ \A o \in Known(t) \ st.found : st.rt[o] = NoRoute
    \/ Cardinality(st.found) >= k + 1

Progress(st, n, t, k) ==
  /\ st \in LoopStates
  /\ n \in st.found /\ st.found \subseteq Known(t)
  /\ st.rt[n] # NoRoute /\ st.rt[n].cost = 0
  /\ \A x \in st.found : st.rt[x] # NoRoute
  /\ PathsExist(st, n, t, k)
  /\ EdgesUsed(st, t)
  /\ Frontier(st, t)
  /\ RoundsUsed(st, n, t, k)

LEMMA ProgressInit ==
  ASSUME NEW t \in Tables, NEW n \in Known(t), NEW nbrs \in SUBSET Nodes,
         NEW stray \in BOOLEAN, NEW st \in LoopStates,
         st = [rt |-> InitialRoutes(n, t, nbrs), found |-> {n}, stray |-> stray]
  PROVE  Progress(st, n, t, 0)
<1>1. n \in Nodes
  BY DEF Known
<1>2. /\ st.found = {n}
      /\ st.rt[n].cost = 0
      /\ \A d \in Nodes \ {n} :
           IF d \in Graph(t)[n]
           THEN st.rt[d].nextHop = d /\ st.rt[d].cost = 1
           ELSE st.rt[d] = NoRoute
  BY <1>1 DEF InitialRoutes, Graph
<1>3. \A d \in Nodes : st.rt[d].cost < INF => st.rt[d] # NoRoute
  BY Infinity DEF NoRoute
<1>4. Graph(t) \in GraphsOn(Nodes)
  BY UnknownHaveNoEdges
<1>5. PathsExist(st, n, t, 0)
  <2> SUFFICES ASSUME NEW d \in Nodes \ {n}, st.rt[d] # NoRoute
               PROVE  /\ st.rt[d].cost \in 1 .. 0 + 1
                      /\ st.rt[d].nextHop \in Graph(t)[n]
                      /\ d \in Ball(Graph(t), st.rt[d].nextHop)[st.rt[d].cost - 1]
    BY DEF PathsExist
  <2>1. d \in Graph(t)[n] /\ st.rt[d].nextHop = d /\ st.rt[d].cost = 1
    BY <1>2
  <2>2. d \in Ball(Graph(t), d)[0]
    BY <1>4, BallEquations
  <2> QED BY <2>1, <2>2
<1>6. EdgesUsed(st, t)
  <2> SUFFICES ASSUME NEW y \in Graph(t)[n]
               PROVE  st.rt[y] # NoRoute /\ st.rt[y].cost <= 0 + 1
    BY <1>2 DEF EdgesUsed
  <2>1. y \in Nodes
    BY <1>1, <1>4 DEF GraphsOn
  <2> QED BY <1>2, <1>3, <2>1, Infinity
<1>7. Frontier(st, t)
  BY <1>2, UnknownHaveNoEdges DEF Frontier, Known
<1>8. RoundsUsed(st, n, t, 0)
  <2>1. Cardinality({n}) = 1
    BY FS_Singleton
  <2> QED BY <1>2, <2>1 DEF RoundsUsed
<1> QED BY <1>1, <1>2, <1>3, <1>5, <1>6, <1>7, <1>8, Infinity DEF Progress
(* A round that finds nothing open leaves the routes as they are.          *)
LEMMA ProgressIdle ==
  ASSUME NEW t \in Tables, NEW n \in Known(t), NEW k \in Nat,
         NEW st, NEW new \in LoopStates, Progress(st, n, t, k),
         new.rt = st.rt, new.found = st.found,
         \A o \in Known(t) \ st.found : st.rt[o] = NoRoute
  PROVE  Progress(new, n, t, k + 1)
<1>1. PathsExist(new, n, t, k + 1)
  BY DEF Progress, PathsExist
<1>2. EdgesUsed(new, t) /\ Frontier(new, t)
  BY DEF Progress, EdgesUsed, Frontier
<1>3. RoundsUsed(new, n, t, k + 1)
  BY DEF RoundsUsed
<1> QED BY <1>1, <1>2, <1>3 DEF Progress

(* When nothing known is open below j, every node at most j edges away has *)
(* a route that is no longer than that.                                    *)
LEMMA NoShorterPath ==
  ASSUME NEW t \in Tables, NEW n \in Known(t), NEW k \in Nat, NEW st,
         Progress(st, n, t, k), NEW j \in Nat,
         \A o \in Known(t) \ st.found : st.rt[o] # NoRoute => j <= st.rt[o].cost
  PROVE  \A y \in Ball(Graph(t), n)[j] : st.rt[y] # NoRoute /\ st.rt[y].cost <= j
<1> DEFINE G == Graph(t)
           T == {i \in Nat : i <= j =>
                   \A y \in Ball(G, n)[i] : st.rt[y] # NoRoute /\ st.rt[y].cost <= i}
<1>1. /\ G \in GraphsOn(Nodes) /\ n \in Nodes
      /\ \A x \in Nodes : x \notin Known(t) => G[x] = {}
  BY UnknownHaveNoEdges DEF Known
<1>2. \A d \in Nodes : st.rt[d].cost \in Nat
  BY DEF Progress, LoopStates, Routes
<1>3. /\ Ball(G, n) \in [Nat -> SUBSET Nodes] /\ Ball(G, n)[0] = {n}
      /\ \A i \in Nat : Ball(G, n)[i + 1] =
           Ball(G, n)[i] \cup UNION {G[x] : x \in Ball(G, n)[i]}
  <2> HIDE DEF G, T
  <2>1. Unfolds(Ball(G, n), G, n)
    BY <1>1, BallUnfolds
  <2>2. Ball(G, n) \in [Nat -> SUBSET Nodes]
    BY <1>1, BallEquations
  <2> QED BY <2>1, <2>2 DEF Unfolds
<1>4. 0 \in T
  <2>1. Ball(G, n)[0] = {n}
    BY <1>3
  <2> QED BY <2>1 DEF Progress
<1>5. ASSUME NEW i \in Nat, i \in T PROVE i + 1 \in T
  <2> SUFFICES ASSUME i + 1 <= j, NEW y \in Ball(G, n)[i + 1]
               PROVE  st.rt[y] # NoRoute /\ st.rt[y].cost <= i + 1
    OBVIOUS
  <2>1. \A x \in Ball(G, n)[i] : st.rt[x] # NoRoute /\ st.rt[x].cost <= i
    BY <1>5
  <2>2. /\ Ball(G, n)[i + 1] = Ball(G, n)[i] \cup UNION {G[x] : x \in Ball(G, n)[i]}
        /\ Ball(G, n)[i] \subseteq Nodes
    <3> HIDE DEF G, T
    <3> QED BY <1>3
  <2>3. CASE y \in Ball(G, n)[i]
    BY <1>2, <2>1, <2>2, <2>3
  <2>4. CASE y \notin Ball(G, n)[i]
    <3>1. PICK x \in Ball(G, n)[i] : y \in G[x]
      BY <2>2, <2>4
    <3>2. x \in Nodes /\ st.rt[x] # NoRoute /\ st.rt[x].cost <= i
      BY <2>1, <2>2, <3>1
    <3>3. x \in Known(t)
      BY <1>1, <3>1, <3>2
    <3>4. x \in st.found
      BY <1>2, <3>2, <3>3
    <3>5. st.rt[y] # NoRoute /\ st.rt[y].cost <= st.rt[x].cost + 1
      BY <3>1, <3>4 DEF Progress, EdgesUsed
    <3>6. y \in Nodes
      BY <1>1, <3>1, <3>2 DEF GraphsOn
    <3> QED BY <1>2, <3>2, <3>5, <3>6
  <2> QED BY <2>3, <2>4
<1> HIDE DEF T
<1>6. j \in T
  BY <1>4, <1>5, SetInduction
<1> QED BY <1>6 DEF T

(* Every route is a shortest path, after any round.                        *)
LEMMA RoutesAreShortest ==
  ASSUME NEW t \in Tables, NEW n \in Known(t), NEW k \in Nat,
         k + 1 <= Cardinality(Nodes), NEW st, Progress(st, n, t, k),
         NEW d \in Nodes \ {n}, st.rt[d] # NoRoute
  PROVE  /\ st.rt[d].cost = Distance(Graph(t), n, d)
         /\ st.rt[d].nextHop \in Graph(t)[n]
         /\ Distance(Graph(t), st.rt[d].nextHop, d) = st.rt[d].cost - 1
<1> DEFINE G == Graph(t)
           c == st.rt[d].cost
           h == st.rt[d].nextHop
<1>1. G \in GraphsOn(Nodes) /\ n \in Nodes /\ IsFiniteSet(Nodes)
  BY UnknownHaveNoEdges, NodesAssumption DEF Known
<1>2. c \in 1 .. k + 1 /\ h \in G[n] /\ d \in Ball(G, h)[c - 1]
  BY DEF Progress, PathsExist
<1>3. c \in 1 .. Cardinality(Nodes)
  BY <1>1, <1>2, FS_CardinalityType
<1>4. ASSUME NEW j \in 0 .. c - 1 PROVE d \notin Ball(G, n)[j]
  <2>1. ASSUME NEW o \in Known(t) \ st.found, st.rt[o] # NoRoute
        PROVE  j <= st.rt[o].cost
    <3>1. c <= st.rt[o].cost + 1
      BY <2>1 DEF Progress, Frontier
    <3>2. st.rt[o].cost \in Nat
      BY DEF Progress, LoopStates, Routes, Known
    <3> QED BY <1>2, <3>1, <3>2
  <2>2. j \in Nat
    BY <1>2
  <2>3. \A y \in Ball(G, n)[j] : st.rt[y].cost <= j
    BY <2>1, <2>2, NoShorterPath
  <2> QED BY <1>2, <2>3
<1> HIDE DEF G, c, h
<1>5. Distance(G, n, d) = c /\ Distance(G, h, d) = c - 1
  BY <1>1, <1>2, <1>3, <1>4, FirstEdge
<1> QED BY <1>2, <1>5 DEF G, c, h

(* A round that marks c keeps the invariant.                               *)
LEMMA ProgressStep ==
  ASSUME NEW t \in Tables, NEW n \in Known(t), NEW nbrs \in SUBSET Nodes,
         NEW k \in Nat, k + 1 < Cardinality(Nodes), NEW st, Progress(st, n, t, k)
  PROVE  Progress(Relax(st, t, nbrs), n, t, k + 1)
<1> DEFINE c == GetMinCostNode(st, t)
           new == Relax(st, t, nbrs)
           G == Graph(t)
           better == {d \in G[c] : st.rt[c].cost + 1 < st.rt[d].cost}
<1>1. st \in LoopStates
  BY DEF Progress
<1>2. /\ new \in LoopStates
      /\ c = NoNode => new.rt = st.rt /\ new.found = st.found
      /\ c # NoNode =>
           /\ c \in Nodes
           /\ new.found = IF c \in Known(t) THEN st.found \cup {c} ELSE st.found
           /\ \A d \in Nodes \ better : new.rt[d] = st.rt[d]
           /\ \A d \in better :
                /\ new.rt[d].nextHop = st.rt[c].nextHop
                /\ new.rt[d].cost = st.rt[c].cost + 1
  BY <1>1, Round
<1>3. /\ Open(st, t) = {} => c = NoNode
      /\ Open(st, t) # {} =>
           c \in Open(st, t) /\ \A e \in Open(st, t) : st.rt[c].cost <= st.rt[e].cost
  BY <1>1, MinCostNode
<1>4. /\ G \in GraphsOn(Nodes)
      /\ \A x \in Nodes : x \notin Known(t) => G[x] = {}
      /\ NoNode \notin Nodes
      /\ Known(t) \subseteq Nodes
  BY UnknownHaveNoEdges, NodesAssumption DEF NoNode, Known
<1> HIDE DEF c, new, G
<1>5. CASE c = NoNode
  <2>1. Open(st, t) = {}
    BY <1>3, <1>4, <1>5 DEF Open
  <2>2. \A o \in Known(t) \ st.found : st.rt[o] = NoRoute
    BY <1>4, <2>1 DEF Open
  <2> QED BY <1>2, <1>5, <2>2, ProgressIdle DEF new
<1>6. CASE c # NoNode /\ c \notin Known(t)
  <2>1. G[c] = {}
    BY <1>2, <1>4, <1>6
  <2>2. new.found = st.found /\ \A d \in Nodes : new.rt[d] = st.rt[d]
    BY <1>2, <1>6, <2>1
  <2>3. new.rt = st.rt
    BY <1>1, <1>2, <2>2 DEF LoopStates
  <2>4. PathsExist(new, n, t, k + 1)
    BY <2>3 DEF Progress, PathsExist
  <2>5. EdgesUsed(new, t) /\ Frontier(new, t)
    BY <2>2, <2>3 DEF Progress, EdgesUsed, Frontier
  <2>6. RoundsUsed(new, n, t, k + 1)
    <3> SUFFICES ASSUME Complete(n, t) PROVE FALSE
      BY DEF RoundsUsed
    <3>1. c \in Nodes \ {n} /\ st.rt[c] # NoRoute
      BY <1>2, <1>3, <1>6 DEF Open
    <3>2. st.rt[c].cost \in 1 .. k + 1
      BY <3>1 DEF Progress, PathsExist
    <3>3. k + 1 <= Cardinality(Nodes)
      BY NodesAssumption, FS_CardinalityType
    <3>4. Distance(G, n, c) = st.rt[c].cost
      BY <3>1, <3>3, RoutesAreShortest DEF G
    <3>5. k + 1 < INF
      BY NodesAssumption, FS_CardinalityType, Infinity
    <3> QED BY <1>6, <3>1, <3>2, <3>4, <3>5, Infinity DEF Complete, G
  <2> QED BY <1>2, <2>2, <2>3, <2>4, <2>5, <2>6 DEF Progress, new
<1>7. CASE c \in Known(t)
  <2>1. /\ c \in Nodes /\ c \in Open(st, t)
        /\ c \notin st.found /\ st.rt[c] # NoRoute /\ c # n
    BY <1>2, <1>3, <1>4, <1>7 DEF Open, Progress
  <2>2. st.rt[c].cost \in 1 .. k + 1
    BY <2>1 DEF Progress, PathsExist
  <2>3. new.found = st.found \cup {c}
    BY <1>2, <1>4, <1>7
  <2>4. Cardinality(Nodes) \in Nat /\ Cardinality(Nodes) < INF /\ INF \in Nat
    BY NodesAssumption, FS_CardinalityType, Infinity
  <2>5. \A d \in Nodes : st.rt[d].cost \in Nat /\ new.rt[d].cost \in Nat
    BY <1>1, <1>2 DEF LoopStates, Routes
  <2>6. better \subseteq Nodes
    BY <1>4, <2>1 DEF GraphsOn
  (* routed nodes have small costs, and are no farther than one beyond c *)
  <2>7. \A d \in Nodes : st.rt[d] # NoRoute =>
          st.rt[d].cost <= k + 1 /\ st.rt[d].cost <= st.rt[c].cost + 1
    <3> SUFFICES ASSUME NEW d \in Nodes, st.rt[d] # NoRoute
                 PROVE  st.rt[d].cost <= k + 1 /\ st.rt[d].cost <= st.rt[c].cost + 1
      OBVIOUS
    <3>1. st.rt[d].cost <= k + 1
      BY <2>5 DEF Progress, PathsExist
    <3>2. st.rt[d].cost <= st.rt[c].cost + 1
      BY <1>7, <2>1 DEF Progress, Frontier
    <3> QED BY <3>1, <3>2
  <2>8. \A d \in better : st.rt[d] = NoRoute /\ new.rt[d] # NoRoute
    <3> SUFFICES ASSUME NEW d \in better PROVE st.rt[d] = NoRoute /\ new.rt[d] # NoRoute
      OBVIOUS
    <3>1. st.rt[d] = NoRoute
      BY <2>2, <2>5, <2>6, <2>7
    <3>2. new.rt[d].cost = st.rt[c].cost + 1
      BY <1>2, <1>4, <1>7
    <3>3. new.rt[d].cost < INF
      BY <2>2, <2>4, <3>2
    <3>4. new.rt[d] # NoRoute
      BY <2>4, <3>3 DEF NoRoute
    <3> QED BY <3>1, <3>4
  <2>9. /\ \A d \in Nodes \ better : new.rt[d] = st.rt[d]
        /\ \A d \in better : /\ new.rt[d].nextHop = st.rt[c].nextHop
                             /\ new.rt[d].cost = st.rt[c].cost + 1
    BY <1>2, <1>4, <1>7
  <2>10. \A d \in G[c] \ better : st.rt[d] # NoRoute
    <3> SUFFICES ASSUME NEW d \in G[c] \ better, st.rt[d] = NoRoute PROVE FALSE
      OBVIOUS
    <3>1. d \in Nodes
      BY <1>4, <2>1 DEF GraphsOn
    <3>2. ~(st.rt[c].cost + 1 < st.rt[d].cost)
      OBVIOUS
    <3>3. st.rt[d].cost = INF
      BY DEF NoRoute
    <3> QED BY <2>2, <2>4, <3>2, <3>3
  <2>11. PathsExist(new, n, t, k + 1)
    <3> SUFFICES ASSUME NEW d \in Nodes \ {n}, new.rt[d] # NoRoute
                 PROVE  /\ new.rt[d].cost \in 1 .. (k + 1) + 1
                        /\ new.rt[d].nextHop \in G[n]
                        /\ d \in Ball(G, new.rt[d].nextHop)[new.rt[d].cost - 1]
      BY DEF PathsExist, G
    <3>1. CASE d \notin better
      <4>1. new.rt[d] = st.rt[d] /\ st.rt[d] # NoRoute
        BY <2>9, <3>1
      <4> HIDE DEF better
      <4> QED BY <4>1 DEF Progress, PathsExist, G
    <3>2. CASE d \in better
      <4> DEFINE h == st.rt[c].nextHop
                 v == st.rt[c].cost
      <4>1. new.rt[d].nextHop = h /\ new.rt[d].cost = v + 1
        BY <2>9, <3>2
      <4>2. h \in G[n] /\ c \in Ball(G, h)[v - 1]
        BY <2>1 DEF Progress, PathsExist, G
      <4>3. d \in G[c]
        BY <3>2
      <4> HIDE DEF better, h, v
      <4>4. v \in 1 .. k + 1
        BY <2>2 DEF v
      <4>5. h \in Nodes
        BY <1>4, <4>2 DEF GraphsOn
      <4>6. v - 1 \in Nat /\ (v - 1) + 1 = v /\ (v + 1) - 1 = v
        BY <4>4
      <4>7. Ball(G, h)[(v - 1) + 1] =
              Ball(G, h)[v - 1] \cup UNION {G[x] : x \in Ball(G, h)[v - 1]}
        BY <1>4, <4>5, <4>6, BallEquations
      <4>8. d \in Ball(G, h)[v]
        BY <4>2, <4>3, <4>6, <4>7
      <4> QED BY <4>1, <4>2, <4>4, <4>6, <4>8
    <3> QED BY <3>1, <3>2
  <2>12. EdgesUsed(new, t)
    <3> SUFFICES ASSUME NEW x \in new.found, NEW y \in G[x]
                 PROVE  new.rt[y] # NoRoute /\ new.rt[y].cost <= new.rt[x].cost + 1
      BY DEF EdgesUsed, G
    <3>1. x \in Nodes /\ st.rt[x] # NoRoute
      BY <1>4, <2>1, <2>3 DEF Progress
    <3>2. x \notin better /\ new.rt[x] = st.rt[x]
      BY <2>8, <2>9, <3>1
    <3>3. y \in Nodes
      BY <1>4, <3>1 DEF GraphsOn
    <3>4. CASE y \in better
      <4>1. st.rt[y] = NoRoute /\ new.rt[y] # NoRoute
        BY <2>8, <3>4
      <4>2. x = c
        BY <2>3, <4>1 DEF EdgesUsed, Progress, G
      <4>3. new.rt[y].cost = new.rt[x].cost + 1
        BY <2>9, <3>2, <3>4, <4>2
      <4> QED BY <2>5, <3>1, <4>1, <4>3
    <3>5. CASE y \notin better /\ x = c
      <4>1. st.rt[y] # NoRoute /\ new.rt[y] = st.rt[y]
        BY <2>9, <2>10, <3>3, <3>5
      <4> QED BY <2>7, <3>2, <3>3, <3>5, <4>1
    <3>6. CASE y \notin better /\ x # c
      <4>1. new.rt[y] = st.rt[y] /\ x \in st.found
        BY <2>3, <2>9, <3>3, <3>6
      <4> QED BY <3>2, <4>1 DEF EdgesUsed, Progress, G
    <3> QED BY <3>4, <3>5, <3>6
  <2>13. Frontier(new, t)
    <3> SUFFICES ASSUME NEW o \in Known(t) \ new.found, NEW d \in Nodes,
                        new.rt[o] # NoRoute, new.rt[d] # NoRoute
                 PROVE  new.rt[d].cost <= new.rt[o].cost + 1
      BY DEF Frontier
    <3>1. o \in Nodes /\ o \notin st.found
      BY <1>4, <2>3
    <3>2. st.rt[c].cost <= new.rt[o].cost
      <4>1. CASE o \in better
        BY <2>2, <2>9, <4>1
      <4>2. CASE o \notin better
        <5>1. new.rt[o] = st.rt[o] /\ o \in Open(st, t)
          BY <2>9, <3>1, <4>2 DEF Open
        <5> QED BY <1>3, <5>1
      <4> QED BY <4>1, <4>2
    <3>3. new.rt[d].cost <= st.rt[c].cost + 1
      <4>1. CASE d \in better
        BY <2>2, <2>9, <4>1
      <4>2. CASE d \notin better
        BY <2>7, <2>9, <4>2
      <4> QED BY <4>1, <4>2
    <3> QED BY <2>2, <2>5, <3>1, <3>2, <3>3
  <2>14. RoundsUsed(new, n, t, k + 1)
    <3> SUFFICES ASSUME Complete(n, t) PROVE Cardinality(new.found) >= (k + 1) + 1
      BY DEF RoundsUsed
    <3>1. Cardinality(st.found) >= k + 1
      BY <1>7, <2>1 DEF Progress, RoundsUsed
    <3>2. IsFiniteSet(st.found)
      BY FS_Subset, NodesAssumption, <1>1 DEF LoopStates
    <3>3. Cardinality(st.found \cup {c}) = Cardinality(st.found) + 1
      BY <2>1, <3>2, FS_AddElement
    <3> QED BY <2>3, <3>1, <3>2, <3>3, FS_CardinalityType
  <2>15. /\ \A x \in new.found : new.rt[x] # NoRoute
         /\ n \in new.found /\ new.found \subseteq Known(t)
         /\ new.rt[n] = st.rt[n]
    <3>1. \A x \in new.found : x \in Nodes /\ st.rt[x] # NoRoute
      BY <1>4, <2>1, <2>3 DEF Progress
    <3>2. \A x \in new.found : new.rt[x] = st.rt[x]
      BY <2>8, <2>9, <3>1
    <3>3. n \in new.found /\ new.found \subseteq Known(t)
      BY <1>7, <2>3 DEF Progress
    <3> QED BY <3>1, <3>2, <3>3
  <2> QED BY <1>2, <2>11, <2>12, <2>13, <2>14, <2>15 DEF Progress, new
<1> QED BY <1>5, <1>6, <1>7

(* After the last round of a complete table, what has no route cannot be   *)
(* reached.                                                                *)
LEMMA NothingMissed ==
  ASSUME NEW t \in Tables, NEW n \in Known(t), Complete(n, t), NEW k \in Nat,
         k + 1 = Cardinality(Known(t)), NEW st, Progress(st, n, t, k),
         NEW d \in Nodes, st.rt[d] = NoRoute
  PROVE  st.rt[d].cost = Distance(Graph(t), n, d)
<1>1. Graph(t) \in GraphsOn(Nodes) /\ IsFiniteSet(Nodes) /\ n \in Nodes
  BY UnknownHaveNoEdges, NodesAssumption DEF Known
<1>2. \A o \in Known(t) \ st.found : st.rt[o] = NoRoute
  <2>1. CASE Cardinality(st.found) >= k + 1
    <3>1. IsFiniteSet(Known(t)) /\ Cardinality(Known(t)) \in Nat
      BY <1>1, FS_Subset, FS_CardinalityType DEF Known
    <3>2. st.found \subseteq Known(t) /\ Cardinality(st.found) \in Nat
      BY <3>1, FS_Subset, FS_CardinalityType DEF Progress
    <3>3. st.found = Known(t)
      BY <2>1, <3>1, <3>2, FS_Subset
    <3> QED BY <3>3
  <2> QED BY <2>1 DEF Progress, RoundsUsed
<1>3. \A j \in Nat : \A y \in Ball(Graph(t), n)[j] : st.rt[y] # NoRoute
  BY <1>2, NoShorterPath
<1>4. Distance(Graph(t), n, d) = INF
  BY <1>1, <1>3, DistanceIsInfinite
<1> QED BY <1>4 DEF NoRoute
-----------------------------------------------------------------------------
(* Dijkstra() on any LS table with an entry of its own: each route has the *)
(* length of a shortest path in the graph of the entries and its next hop  *)
(* starts one, and with an entry for every reachable node none of them is  *)
(* left out.  `stray' is the byte past the end of leastCostFound.          *)
THEOREM DijkstraIsCorrect ==
  ASSUME NEW t \in Tables, NEW n \in Known(t), NEW nbrs \in SUBSET Nodes,
         NEW stray \in BOOLEAN, NEW d \in Nodes \ {n}
  PROVE  LET r == Dijkstra(n, t, nbrs, stray)[d]
         IN  /\ r # NoRoute =>
                  /\ r.cost = Distance(Graph(t), n, d)
                  /\ r.nextHop \in Graph(t)[n]
                  /\ Distance(Graph(t), r.nextHop, d) = r.cost - 1
             /\ Complete(n, t) => r.cost = Distance(Graph(t), n, d)
<1>1. PICK g \in [Nat -> LoopStates] :
        /\ g[0] = [rt |-> InitialRoutes(n, t, nbrs), found |-> {n}, stray |-> stray]
        /\ \A k \in Nat : g[k + 1] = Relax(g[k], t, nbrs)
        /\ Dijkstra(n, t, nbrs, stray) = g[Cardinality(Known(t)) - 1].rt
  BY LoopEquations
<1> DEFINE T == {k \in Nat : k + 1 <= Cardinality(Nodes) => Progress(g[k], n, t, k)}
           last == Cardinality(Known(t)) - 1
<1>2. /\ Cardinality(Nodes) \in Nat /\ last \in Nat
      /\ last + 1 = Cardinality(Known(t)) /\ last + 1 <= Cardinality(Nodes)
  <2>1. IsFiniteSet(Nodes) /\ Known(t) \subseteq Nodes
    BY NodesAssumption DEF Known
  <2>2. /\ IsFiniteSet(Known(t)) /\ Cardinality(Known(t)) <= Cardinality(Nodes)
        /\ Cardinality(Nodes) \in Nat /\ Cardinality(Known(t)) \in Nat
    BY <2>1, FS_Subset, FS_CardinalityType
  <2>3. Cardinality(Known(t)) # 0
    BY <2>2, FS_EmptySet
  <2> QED BY <2>2, <2>3
<1>3. 0 \in T
  BY <1>1, ProgressInit
<1>4. ASSUME NEW k \in Nat, k \in T PROVE k + 1 \in T
  <2> SUFFICES ASSUME (k + 1) + 1 <= Cardinality(Nodes)
               PROVE  Progress(g[k + 1], n, t, k + 1)
    OBVIOUS
  <2>1. Progress(g[k], n, t, k) /\ k + 1 < Cardinality(Nodes)
    BY <1>2, <1>4
  <2> QED BY <1>1, <2>1, ProgressStep
<1> HIDE DEF T
<1>5. \A k \in Nat : k \in T
  BY <1>3, <1>4, SetInduction
<1> HIDE DEF last
<1>6. Progress(g[last], n, t, last)
  BY <1>2, <1>5 DEF T
<1>7. Dijkstra(n, t, nbrs, stray) = g[last].rt
  BY <1>1 DEF last
<1> DEFINE r == g[last].rt[d]
<1>8. r # NoRoute =>
        /\ r.cost = Distance(Graph(t), n, d)
        /\ r.nextHop \in Graph(t)[n]
        /\ Distance(Graph(t), r.nextHop, d) = r.cost - 1
  BY <1>2, <1>6, RoutesAreShortest
<1>9. ASSUME Complete(n, t) PROVE r.cost = Distance(Graph(t), n, d)
  <2>1. CASE r = NoRoute
    BY <1>2, <1>6, <1>9, <2>1, NothingMissed
  <2> QED BY <1>8, <2>1
<1> QED BY <1>7, <1>8, <1>9
=============================================================================
