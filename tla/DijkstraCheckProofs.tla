------------------------- MODULE DijkstraCheckProofs -------------------------
(***************************************************************************)
(* The properties of DijkstraCheck, for any number of nodes: every table   *)
(* it starts with is one that DijkstraIsCorrect speaks of.                 *)
(***************************************************************************)
EXTENDS DijkstraCheck, DijkstraProofs

(* The inductive invariant of DijkstraCheck: the table has an entry of     *)
(* this node, and routes has not been computed or is what Dijkstra() made  *)
(* of that table.                                                          *)
CheckInv ==
  /\ table \in Tables
  /\ Self \in Known(table)
  /\ \/ routes = [d \in Nodes |-> NoRoute]
     \/ \E stray \in BOOLEAN :
          routes = Dijkstra(Self, table, GetNeighbors(table, Self), stray)

LEMMA CheckInvHolds == Spec => []CheckInv
<1>1. Init => CheckInv
  <2> SUFFICES ASSUME Init PROVE CheckInv
    OBVIOUS
  <2>1. PICK others \in SUBSET (Nodes \ {Self}) :
          \E edges \in SUBSET EdgesOf(others \cup {Self}) :
            table = [n \in Nodes |->
              IF n \in others \cup {Self}
              THEN EntryFor({m \in Nodes : <<n, m>> \in edges}) ELSE NoEntry]
    BY Zenon DEF Init
  <2>2. \A nbrs : EntryFor(nbrs) \in LSTableEntry /\ EntryFor(nbrs) # NoEntry
    BY SeqLimitAssumption
       DEF EntryFor, CostsOf, LSTableEntry, SeqNums, NoEntry, NoNode
  <2>3. table \in Tables
    BY <2>1, <2>2 DEF Tables
  <2>4. table[Self] # NoEntry
    BY <2>1, <2>2, SelfAssumption
  <2> QED BY <2>3, <2>4, SelfAssumption DEF Init, CheckInv, Known
<1>2. CheckInv /\ [Compute]_vars => CheckInv'
  <2> SUFFICES ASSUME CheckInv, [Compute]_vars PROVE CheckInv'
    OBVIOUS
  <2>1. CASE Compute
    <3>1. PICK stray \in BOOLEAN :
            /\ routes' = Dijkstra(Self, table, GetNeighbors(table, Self), stray)
            /\ table' = table
      BY <2>1, Zenon DEF Compute
    <3> QED BY <3>1 DEF CheckInv
  <2>2. CASE UNCHANGED vars
    BY <2>2 DEF CheckInv, vars
  <2> QED BY <2>1, <2>2
<1> QED BY <1>1, <1>2, PTL DEF Spec

LEMMA Computation ==
  ASSUME CheckInv, Computed
  PROVE  \E stray \in BOOLEAN :
           routes = Dijkstra(Self, table, GetNeighbors(table, Self), stray)
BY SelfAssumption DEF CheckInv, Computed

(* Whatever entries are missing and whatever the reads past the end of     *)
(* leastCostFound return, the routes of Dijkstra() are shortest paths.     *)
THEOREM Soundness == Spec => []SoundWhenPartial
<1>1. CheckInv => SoundWhenPartial
  <2> SUFFICES ASSUME CheckInv, Computed, NEW d \in Nodes \ {Self}, routes[d] # NoRoute
               PROVE  /\ routes[d].cost = Distance(Edges, Self, d)
                      /\ routes[d].nextHop \in Edges[Self]
                      /\ Distance(Edges, routes[d].nextHop, d) = routes[d].cost - 1
    BY DEF SoundWhenPartial
  <2>1. PICK stray \in BOOLEAN :
          routes = Dijkstra(Self, table, GetNeighbors(table, Self), stray)
    BY Computation
  <2>2. table \in Tables /\ Self \in Known(table)
    BY DEF CheckInv
  <2>3. GetNeighbors(table, Self) \in SUBSET Nodes /\ Edges = Graph(table)
    BY DEF GetNeighbors, Edges, Graph
  <2> QED BY <2>1, <2>2, <2>3, DijkstraIsCorrect
<1> QED BY <1>1, CheckInvHolds, PTL

(* With an entry for every reachable node, Dijkstra() finds exactly those, *)
(* at the length of a shortest path.                                       *)
THEOREM Completeness == Spec => []ShortestWhenComplete
<1>1. CheckInv => ShortestWhenComplete
  <2> SUFFICES ASSUME CheckInv, Computed,
                      \A e \in Nodes : Distance(Edges, Self, e) # INF => e \in Known(table),
                      NEW d \in Nodes \ {Self}
               PROVE  /\ routes[d].cost = Distance(Edges, Self, d)
                      /\ routes[d] # NoRoute =>
                           /\ routes[d].nextHop \in Edges[Self]
                           /\ Distance(Edges, routes[d].nextHop, d) = routes[d].cost - 1
    BY DEF ShortestWhenComplete
  <2>1. PICK stray \in BOOLEAN :
          routes = Dijkstra(Self, table, GetNeighbors(table, Self), stray)
    BY Computation
  <2>2. table \in Tables /\ Self \in Known(table)
    BY DEF CheckInv
  <2>3. GetNeighbors(table, Self) \in SUBSET Nodes /\ Edges = Graph(table)
    BY DEF GetNeighbors, Edges, Graph
  <2>4. Complete(Self, table)
    BY <2>3 DEF Complete
  <2> QED BY <2>1, <2>2, <2>3, <2>4, DijkstraIsCorrect
<1> QED BY <1>1, CheckInvHolds, PTL
=============================================================================
