------------------------------ MODULE Topology ------------------------------
(***************************************************************************)
(* The topology file that simulator-main.cc loads: numbered nodes and the  *)
(* point-to-point links between them.  There are fewer nodes than M_INF,   *)
(* the greatest cost that the tables can hold.                             *)
(***************************************************************************)
EXTENDS Distances

CONSTANTS
  Nodes,  \* node numbers; their order is the order of the maps' keys
  Links   \* the links, each a set of two nodes

ASSUME NodesAssumption ==
  Nodes \subseteq Nat /\ IsFiniteSet(Nodes) /\ Cardinality(Nodes) < INF
ASSUME LinksAssumption == Links \subseteq {{a, b} : a, b \in Nodes}

(* "No such node": end() iterators, empty names, garbage addresses.        *)
NoNode == -1

Adjacent(n) == {m \in Nodes \ {n} : {n, m} \in Links}
=============================================================================
