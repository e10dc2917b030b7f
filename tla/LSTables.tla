------------------------------ MODULE LSTables ------------------------------
(***************************************************************************)
(* The tables of ls-routing-protocol.cc and the pure operations on them:   *)
(* the LS table, its links, and Dijkstra(), which turns it into a routing  *)
(* table.                                                                  *)
(*                                                                         *)
(* Names stand for addresses (ReverseLookup is a bijection between main    *)
(* addresses and node names), and the interface to a neighbour is named by *)
(* the neighbour: the topologies have at most one link between two nodes.  *)
(* All costs are 1, as in the code.                                        *)
(***************************************************************************)
EXTENDS Topology

CONSTANT SeqLimit  \* sequence numbers are taken modulo this, 2^32 in the code

ASSUME SeqLimitAssumption == SeqLimit \in Nat \ {0}

(***************************************************************************)
(* Data.  neighborCosts is a vector that may hold a neighbour twice; its   *)
(* order is never observable, so it is kept as the number of occurrences   *)
(* of each neighbour.                                                      *)
(***************************************************************************)
SeqNums == 0 .. SeqLimit - 1

LSTableEntry == [neighborCosts : [Nodes -> Nat], sequenceNumber : SeqNums]
NoEntry == [neighborCosts |-> [m \in Nodes |-> 0], sequenceNumber |-> NoNode]

RoutingTableEntry ==
  [nextHop : Nodes, interface : Nodes \cup {NoNode}, cost : 0 .. Cardinality(Nodes)]
NoRoute == [nextHop |-> NoNode, interface |-> NoNode, cost |-> INF]

(***************************************************************************)
(* Operations on the LS table.                                             *)
(***************************************************************************)
GetNeighbors(table, node) ==
  {m \in Nodes : table[node].neighborCosts[m] > 0}

push_back(costs, m) == [costs EXCEPT ![m] = @ + 1]

(* Wrong variant: removeLSTableLink_old erased from a copy of the vector.  *)
removeLSTableLink_old(costs, gone) == costs

(* Only the first occurrence is erased.                                    *)
removeLSTableLink(costs, gone) ==
  [m \in Nodes |-> IF m \in gone /\ costs[m] > 0 THEN costs[m] - 1 ELSE costs[m]]

CostsOf(nbrs) == [m \in Nodes |-> IF m \in nbrs THEN 1 ELSE 0]

(***************************************************************************)
(* Dijkstra().  leastCostFound only has the nodes of m_lsTable as keys.    *)
(* For any other node, and for the empty name that GetMinCostNode returns  *)
(* when nothing is left, find() is end() and the code reads and writes     *)
(* one byte past the map: `stray', whose first value is arbitrary.         *)
(***************************************************************************)
Known(table) == {m \in Nodes : table[m] # NoEntry}

(* m_neighborTable.find(..) is end() for a node that is not a neighbour:   *)
(* the interface address read there is garbage.                            *)
InterfaceTo(nbrs, node) == IF node \in nbrs THEN node ELSE NoNode

MarkFound(st, table, node) ==
  IF node \in Known(table) THEN [st EXCEPT !.found = @ \cup {node}]
                           ELSE [st EXCEPT !.stray = TRUE]

InitialRoutes(n, table, nbrs) ==
  [d \in Nodes |->
     IF d = n THEN [nextHop |-> n, interface |-> n, cost |-> 0]
     ELSE IF d \in GetNeighbors(table, n)
          THEN [nextHop |-> d, interface |-> InterfaceTo(nbrs, d), cost |-> 1]
          ELSE NoRoute]

(* Routes whose node does not count as found yet.                          *)
Open(st, table) ==
  {d \in Nodes :
     /\ st.rt[d] # NoRoute
     /\ IF d \in Known(table) THEN d \notin st.found ELSE ~st.stray}

(* Wrong variant: the first open route in map order, whatever it costs.    *)
FirstOpenNode(st, table) ==
  IF Open(st, table) = {} THEN NoNode
  ELSE CHOOSE d \in Open(st, table) : \A e \in Open(st, table) : d <= e

(* The first in map order among the cheapest open routes.                  *)
GetMinCostNode(st, table) ==
  LET best == {d \in Open(st, table) :
                 \A e \in Open(st, table) : st.rt[d].cost <= st.rt[e].cost}
  IN  IF best = {} THEN NoNode
      ELSE CHOOSE d \in best : \A e \in best : d <= e

(* Wrong variant: the last node before the destination, not the first hop. *)
Predecessor(current, via) == current

(* A node reached through current is routed as current itself is.          *)
FirstHop(current, via) == via.nextHop

Relax(st, table, nbrs) ==
  LET current == GetMinCostNode(st, table)
      marked  == MarkFound(st, table, current)
      via     == st.rt[current]
      relaxed == {d \in GetNeighbors(table, current) : via.cost + 1 < st.rt[d].cost}
  IN  IF current = NoNode THEN marked
      ELSE [marked EXCEPT !.rt =
              [d \in Nodes |->
                 IF d \in relaxed
                 THEN [nextHop   |-> FirstHop(current, via),
                       interface |-> InterfaceTo(nbrs, FirstHop(current, via)),
                       cost      |-> via.cost + 1]
                 ELSE @[d]]]

(* The main loop runs m_lsTable.size()-1 times.  For an empty table that   *)
(* bound wraps around and the loop does not end; Cardinality(Nodes) rounds *)
(* then stand for it, after which nothing changes any more.                *)
Dijkstra(n, table, nbrs, stray) ==
  LET start == MarkFound([rt    |-> InitialRoutes(n, table, nbrs),
                          found |-> {},
                          stray |-> stray], table, n)
      loop[k \in Nat] == IF k = 0 THEN start ELSE Relax(loop[k - 1], table, nbrs)
      size == Cardinality(Known(table))
  IN  loop[IF size = 0 THEN Cardinality(Nodes) ELSE size - 1].rt
=============================================================================
