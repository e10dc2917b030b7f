--------------------------- MODULE DijkstraCheck ---------------------------
(***************************************************************************)
(* Dijkstra() of ls-routing-protocol.cc on every LS table: the table of a  *)
(* node is chosen freely, link by link, and the routing table computed     *)
(* from it is compared with the graph it describes.  The two directions of *)
(* a link are chosen independently, as messages about them may differ in   *)
(* age.                                                                    *)
(***************************************************************************)
EXTENDS LSTables

CONSTANT Self  \* the node that runs Dijkstra()

ASSUME SelfAssumption == Self \in Nodes

VARIABLES table, routes

vars == <<table, routes>>

EntryFor(nbrs) == [neighborCosts |-> CostsOf(nbrs), sequenceNumber |-> 0]

(* The directed edges that entries of the given nodes may hold.            *)
EdgesOf(origins) == {e \in origins \X Nodes : e[2] \in Adjacent(e[1])}

(* This node has an entry of its own; any other node may have sent one.    *)
Init ==
  /\ \E others \in SUBSET (Nodes \ {Self}) :
       \E edges \in SUBSET EdgesOf(others \cup {Self}) :
         table = [n \in Nodes |->
           IF n \in others \cup {Self}
           THEN EntryFor({m \in Nodes : <<n, m>> \in edges}) ELSE NoEntry]
  /\ routes = [d \in Nodes |-> NoRoute]

Compute ==
  \E stray \in BOOLEAN :
    /\ routes' = Dijkstra(Self, table, GetNeighbors(table, Self), stray)
    /\ UNCHANGED table

Spec == Init /\ [][Compute]_vars

Edges == [x \in Nodes |-> GetNeighbors(table, x)]

Computed == routes[Self] # NoRoute

(* With an entry for every node that is reachable over the entries,        *)
(* Dijkstra() finds exactly those nodes, at the length of a shortest path  *)
(* in the directed graph of the entries, and its next hop starts such a    *)
(* path.                                                                   *)
ShortestWhenComplete ==
  Computed /\ (\A d \in Nodes : Distance(Edges, Self, d) # INF => d \in Known(table)) =>
    \A d \in Nodes \ {Self} :
      /\ routes[d].cost = Distance(Edges, Self, d)
      /\ routes[d] # NoRoute =>
           /\ routes[d].nextHop \in Edges[Self]
           /\ Distance(Edges, routes[d].nextHop, d) = routes[d].cost - 1

(* Whatever entries are missing, and whatever the reads past the end of    *)
(* leastCostFound return, Dijkstra() may miss a node but never installs a  *)
(* wrong route: each one has the length of a shortest path and starts it.  *)
SoundWhenPartial ==
  Computed =>
    \A d \in Nodes \ {Self} :
      routes[d] # NoRoute =>
        /\ routes[d].cost = Distance(Edges, Self, d)
        /\ routes[d].nextHop \in Edges[Self]
        /\ Distance(Edges, routes[d].nextHop, d) = routes[d].cost - 1

(* Two paths of different lengths from 6 to 3, and a node behind 3: the    *)
(* order in which nodes are found matters.                                 *)
Fork ==
  {{6, 1}, {1, 2}, {2, 3}, {3, 5}, {5, 6}, {3, 4}, {1, 5}}
=============================================================================
