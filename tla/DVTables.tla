------------------------------ MODULE DVTables ------------------------------
(***************************************************************************)
(* The tables of dv-routing-protocol.cc and the pure operations on them:   *)
(* distance vectors, poisoned entries, and BellmanFord(), which turns the  *)
(* vectors of the neighbours into an own vector and a routing table.       *)
(*                                                                         *)
(* Names stand for addresses and the interface to a neighbour is named by  *)
(* the neighbour, as in LSTables.  Every link costs 1, as in the code, so  *)
(* m_costs is the set of its keys.                                         *)
(***************************************************************************)
EXTENDS Topology

CONSTANT Limit  \* the largest cost of a usable vector entry, 16 in the code

ASSUME LimitAssumption == Limit \in 1 .. 16

(* A distanceVector is a map: a node that is not among its keys has NoCost.*)
NoCost == -1
VectorCosts == 0 .. Limit \cup {INF, NoCost}
EmptyVector == [d \in Nodes |-> NoCost]

NoRoute == [nextHop |-> NoNode, cost |-> INF]
Routes == [nextHop : Nodes, cost : 0 .. Limit] \cup {NoRoute}

(* SendDVTableMessage replaces the entry for the very neighbour that the   *)
(* copy is for, when the route to it is direct; no other entry.            *)
Poisoned(rt) == {i \in Nodes : rt[i].nextHop = i}
CopyFor(i, dv, poisoned) == IF i \in poisoned THEN [dv EXCEPT ![i] = INF] ELSE dv

(***************************************************************************)
(* BellmanFord().  The costs are unsigned, so the sum is guarded against   *)
(* passing M_INF.                                                          *)
(***************************************************************************)
Extended(cost) == IF cost < INF - 1 THEN cost + 1 ELSE cost

(* Neighbours whose vector has an entry for d.                             *)
Offering(costs, vectors, d) == {j \in costs : vectors[j][d] # NoCost}

MinCost(costs, vectors, d) ==
  LET offers == {Extended(vectors[j][d]) : j \in Offering(costs, vectors, d)}
  IN  CHOOSE c \in offers \cup {INF} : \A o \in offers \cup {INF} : c <= o

(* Wrong variant: the last neighbour that offers d at all.                 *)
LastOffering(costs, vectors, d) ==
  CHOOSE j \in Offering(costs, vectors, d) :
    \A k \in Offering(costs, vectors, d) : k <= j

(* The first neighbour in map order that attains the minimum.              *)
NextHop(costs, vectors, d) ==
  LET best == {j \in Offering(costs, vectors, d) :
                 Extended(vectors[j][d]) = MinCost(costs, vectors, d)}
  IN  CHOOSE j \in best : \A k \in best : j <= k

(* Wrong variants: any change is accepted, whatever it costs; only changes *)
(* for the better are.                                                     *)
ChangedBeyondLimit(n, known, costs, vectors) ==
  {d \in Nodes \ {n} :
     /\ known[d] # NoCost
     /\ Offering(costs, vectors, d) # {}
     /\ MinCost(costs, vectors, d) # known[d]}
ImprovedOnly(n, known, costs, vectors) ==
  {d \in Nodes \ {n} : known[d] # NoCost /\ MinCost(costs, vectors, d) < known[d]}

(* Destinations whose entry of m_dv changes.                               *)
Changed(n, known, costs, vectors) ==
  {d \in Nodes \ {n} :
     /\ known[d] # NoCost
     /\ Offering(costs, vectors, d) # {}
     /\ MinCost(costs, vectors, d) # known[d]
     /\ MinCost(costs, vectors, d) <= Limit}

BellmanFord(n, dv, costs, vectors, ndv) ==
  LET known   == [d \in Nodes |->
                    IF dv[d] = NoCost /\ ndv[d] # NoCost THEN INF ELSE dv[d]]
      changed == Changed(n, known, costs, vectors)
  IN  [dv   |-> [d \in Nodes |->
                   IF d \in changed THEN MinCost(costs, vectors, d) ELSE known[d]],
       rt   |-> [d \in Nodes |->
                   IF known[d] = NoCost THEN NoRoute
                   ELSE IF d = n THEN [nextHop |-> n, cost |-> 0]
                   ELSE IF MinCost(costs, vectors, d) < Limit
                   THEN [nextHop |-> NextHop(costs, vectors, d),
                         cost    |-> MinCost(costs, vectors, d)]
                   ELSE NoRoute],
       sendDV |-> changed # {}]
=============================================================================
