---------------------------- MODULE DVForwarding ----------------------------
(***************************************************************************)
(* The distance-vector protocol with a packet that travels through the     *)
(* network while the protocol runs.                                        *)
(***************************************************************************)
EXTENDS DVRouting

CONSTANTS MainLink, TTL

VARIABLE packet

Data == INSTANCE Forwarding
  WITH device <- [n \in Nodes |-> [d \in Nodes |-> routingTable[n][d].nextHop]]

(* Packets are sent between a round of messages and the next hello         *)
(* instant, also when a link has failed and nobody has noticed yet.        *)
SendPacket ==
  /\ ~crashed /\ due = {} /\ calm
  /\ \E s, d \in Nodes : s # d /\ Data!Send(s, d, Idle /\ age = Drain)
  /\ UNCHANGED vars

ReceivePacket == ~crashed /\ due = {} /\ Data!Receive /\ UNCHANGED vars

(* A packet has left the network when the next timers expire.              *)
ProtocolStep ==
  /\ Next
  /\ Data!InTransit => due' = {}
  /\ packet' = IF ~Data!InTransit THEN Data!Idle
               ELSE IF up' = up THEN packet
               ELSE Data!Unsettled

DataNext == SendPacket \/ ReceivePacket \/ ProtocolStep

DataSpec == Init /\ packet = Data!Idle /\ [][DataNext]_<<vars, packet>>

(* Packets arrive, as every event that the simulator has queued.           *)
FairDataSpec == DataSpec /\ Fairness /\ WF_<<vars, packet>>(ReceivePacket)

(* End to end: with the routing tables of the distance-vector protocol,    *)
(* packets sent once the network has settled reach their destination over  *)
(* a shortest path whenever there is one.                                  *)
PacketsDelivered == Data!SettledDelivery
=============================================================================
