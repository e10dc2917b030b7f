----------------------------- MODULE Distances -----------------------------
(***************************************************************************)
(* The distances of graph theory that routing tables are compared with.    *)
(* A graph is the function `next' from each node to the set of nodes that  *)
(* an edge leads to.                                                       *)
(***************************************************************************)
EXTENDS Integers, FiniteSets

(* std::numeric_limits<int>::max(), the cost of an unreachable node.       *)
INF == 2147483647

(* Ball(next, n)[k]: the nodes at most k edges away from n.                *)
Ball(next, n) ==
  LET ball[k \in Nat] ==
        IF k = 0 THEN {n}
        ELSE LET inner == ball[k - 1]
             IN  inner \cup UNION {next[x] : x \in inner}
  IN  ball

(* The number of edges of a shortest path from n to d, INF when there is   *)
(* none; no shortest path has more edges than the graph has nodes.         *)
Distance(next, n, d) ==
  LET radii == {k \in 0 .. Cardinality(DOMAIN next) : d \in Ball(next, n)[k]}
  IN  IF radii = {} THEN INF ELSE CHOOSE k \in radii : \A j \in radii : k <= j
=============================================================================
