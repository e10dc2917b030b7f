----------------------------- MODULE Forwarding -----------------------------
(***************************************************************************)
(* What happens to a packet of the test application on its way:            *)
(* RouteOutput at its source and RouteInput at every other node, which are *)
(* the same code in both protocols, and what ns-3 does around them.  Both  *)
(* ends of a packet are main addresses.  The module is instantiated with   *)
(* the routing tables of a protocol; it never changes them.                *)
(***************************************************************************)
EXTENDS Topology

CONSTANTS
  MainLink,  \* MainLink[n]: the node at the other end of n's main interface
  TTL        \* of the IP header, 64 in ns-3

VARIABLES
  up,        \* up[n]: the neighbours that n's working interfaces face
  device,    \* device[n][d]: where n's routing table sends packets to d
  packet     \* the packet

Idle == [status |-> "none"]
InTransit == packet.status = "transit"

(* SearchTable: the entry for a destination; NoNode when there is none.    *)
SearchTable(n, d) == device[n][d]

(* m_staticRouting only knows the networks of interfaces that are up.      *)
StaticRoute(n, d) == IF MainLink[d] = n /\ d \in up[n] THEN d ELSE NoNode

(* The static route that RouteOutput falls back to is assigned to a        *)
(* variable of the inner block and lost.                                   *)
RouteOutput(n, d) == SearchTable(n, d)

(* Wrong variant: packets are forwarded without the routing table.         *)
StaticOnly(n, d) == StaticRoute(n, d)

RouteInput(n, d) ==
  IF SearchTable(n, d) # NoNode THEN SearchTable(n, d) ELSE StaticRoute(n, d)

(* Ipv4L3Protocol drops a packet without a route or with an output         *)
(* interface that is down.                                                 *)
Transmit(p, n, hop) ==
  IF hop \in up[n]
  THEN [p EXCEPT !.from = n, !.at = hop, !.ttl = @ - 1, !.hops = @ + 1]
  ELSE [p EXCEPT !.status = "dropped"]

Send(s, d, settled) ==
  /\ packet = Idle
  /\ packet' = Transmit([status |-> "transit", src |-> s, dst |-> d, from |-> s, at |-> s,
                         ttl |-> TTL, hops |-> 0, settled |-> settled],
                        s, RouteOutput(s, d))

(* Ipv4L3Protocol asks whether the interface is up, Ipv4ListRouting        *)
(* delivers what is for this node, RouteInput drops what comes from it.    *)
Receive ==
  LET p == packet
      r == p.at
  IN  /\ InTransit
      /\ packet' =
           IF p.from \notin up[r] THEN [p EXCEPT !.status = "dropped"]
           ELSE IF r = p.dst THEN [p EXCEPT !.status = "delivered"]
           ELSE IF r = p.src \/ p.ttl = 0 THEN [p EXCEPT !.status = "dropped"]
           ELSE Transmit(p, r, RouteInput(r, p.dst))

(* The packet no longer travels in the network it was sent in.             *)
Unsettled == [packet EXCEPT !.settled = FALSE]

LiveLinks == [n \in Nodes |-> {m \in Nodes : n \in up[m] /\ m \in up[n]}]

(* A packet sent when the routing tables had settled reaches its           *)
(* destination over a shortest path, and is dropped only if there is none. *)
SettledDelivery ==
  (packet # Idle /\ packet.settled) =>
    LET distance == Distance(LiveLinks, packet.src, packet.dst)
    IN  /\ packet.status = "delivered" => packet.hops = distance
        /\ packet.status = "dropped" => distance = INF
=============================================================================
