------------------------------ MODULE DVRouting ------------------------------
(***************************************************************************)
(* The distance-vector protocol of dv-routing-protocol.cc: neighbour       *)
(* discovery with hellos, DV_TABLE_MSGs to the neighbours, and the vector  *)
(* and routing table that BellmanFord() computes from theirs.              *)
(*                                                                         *)
(* The sequence numbers and the TTL of DV messages are never read, so they *)
(* are left out.                                                           *)
(***************************************************************************)
EXTENDS Simulation, DVTables

VARIABLES
  dv,             \* m_dv
  costs,          \* keys of m_costs
  neighborTable,  \* keys of m_neighborTable
  heard,          \* neighbours whose lastUpdated is after the last instant
  vectors,        \* the dv of each m_neighborTable entry
  routingTable,   \* m_routingTable
  crashed         \* the process has died or hangs

dvVars == <<dv, costs, neighborTable, heard, vectors, routingTable, crashed>>
vars == <<simVars, dvVars>>

(* A burst of DV_TABLE_MSGs: the vector, and the receivers whose copy is   *)
(* poisoned.                                                               *)
DVMessages ==
  [type : {"DV_TABLE_MSG"}, orig : Nodes, dv : [Nodes -> VectorCosts],
   poisoned : SUBSET Nodes]
Messages == [type : {"HELLO_REQ"}, orig : Nodes] \cup DVMessages
Packets == [from : Nodes, to : SUBSET Nodes, msg : Messages]

SendHello(n) == BroadcastPacket(n, [type |-> "HELLO_REQ", orig |-> n])

SendDVTableMessage(n, vector, nbrs, rt) ==
  IF nbrs \cap up[n] = {} THEN <<>>
  ELSE <<[from |-> n, to |-> nbrs \cap up[n],
          msg  |-> [type |-> "DV_TABLE_MSG", orig |-> n, dv |-> vector,
                    poisoned |-> Poisoned(rt)]]>>

(* BellmanFord() on a node whose tables otherwise have their new values,   *)
(* and what it sends.                                                      *)
RunBellmanFord(n, vector, ndv) == BellmanFord(n, vector, costs'[n], vectors'[n], ndv)

Install(n, bf) ==
  /\ dv' = [dv EXCEPT ![n] = bf.dv]
  /\ routingTable' = [routingTable EXCEPT ![n] = bf.rt]

Triggered(n, bf) ==
  IF bf.sendDV THEN SendDVTableMessage(n, bf.dv, costs'[n], bf.rt) ELSE <<>>

(***************************************************************************)
(* Receiving: RecvDVMessage dispatches the packet with index i that        *)
(* arrives at n.                                                           *)
(***************************************************************************)
Receives(n, i, type) ==
  /\ Arrives(i, n)
  /\ net[i].from \in up[n]
  /\ net[i].msg.type = type

RefreshNeighbor(n, i) ==
  /\ Receives(n, i, "HELLO_REQ")
  /\ net[i].msg.orig \in neighborTable[n]
  /\ heard' = [heard EXCEPT ![n] = @ \cup {net[i].msg.orig}]
  /\ net' = InFlightWithout(i, n)
  /\ UNCHANGED <<up, clock, ops, dv, costs, neighborTable, vectors, routingTable, crashed>>

(* insert() leaves an entry of m_dv that is already there as it is.        *)
Inserted(vector, m) == IF vector[m] = NoCost THEN [vector EXCEPT ![m] = 1] ELSE vector

DiscoverNeighbor(n, i) ==
  LET m  == net[i].msg.orig
      bf == RunBellmanFord(n, Inserted(dv[n], m), EmptyVector)
  IN  /\ Receives(n, i, "HELLO_REQ")
      /\ m \notin neighborTable[n]
      /\ neighborTable' = [neighborTable EXCEPT ![n] = @ \cup {m}]
      /\ heard' = [heard EXCEPT ![n] = @ \cup {m}]
      /\ vectors' = [vectors EXCEPT ![n][m] = EmptyVector]
      /\ costs' = [costs EXCEPT ![n] = @ \cup {m}]
      /\ Install(n, bf)
      /\ net' = InFlightWithout(i, n) \o Triggered(n, bf)
                  \o SendDVTableMessage(n, bf.dv, costs'[n], bf.rt)
      /\ UNCHANGED <<up, clock, ops, crashed>>

ProcessHelloReq(n, i) == RefreshNeighbor(n, i) \/ DiscoverNeighbor(n, i)

(* A sender that is not in m_neighborTable is added to it, but not to      *)
(* m_costs; the lastUpdated of a known one stays as it is.                 *)
ProcessDVTableMessage(n, i) ==
  LET m     == net[i].msg.orig
      newdv == CopyFor(n, net[i].msg.dv, net[i].msg.poisoned)
      bf    == RunBellmanFord(n, dv[n], newdv)
  IN  /\ Receives(n, i, "DV_TABLE_MSG")
      /\ neighborTable' = [neighborTable EXCEPT ![n] = @ \cup {m}]
      /\ heard' = [heard EXCEPT ![n] = IF m \in neighborTable[n] THEN @ ELSE @ \cup {m}]
      /\ vectors' = [vectors EXCEPT ![n][m] = newdv]
      /\ UNCHANGED costs
      /\ Install(n, bf)
      /\ net' = InFlightWithout(i, n) \o Triggered(n, bf)
      /\ UNCHANGED <<up, clock, ops, crashed>>

(***************************************************************************)
(* The hello timer.  A neighbour not heard since the previous instant has  *)
(* expired.  For one without a cost, m_costs.erase(end()) frees the map's  *)
(* own header: the process dies, or loops for ever if the map was empty.   *)
(***************************************************************************)
(* Wrong variant: nothing ever expires.                                    *)
ExpiredNone(n) == {}

Expired(n) == neighborTable[n] \ heard[n]

(* Wrong variant: the cost of an expired neighbour stays in m_costs.       *)
AllCosts(n) == costs[n]

RemainingCosts(n) == costs[n] \ Expired(n)

AuditHellos(n) ==
  LET lost == [d \in Nodes |-> IF d \in Expired(n) THEN INF ELSE dv[n][d]]
      bf   == RunBellmanFord(n, lost, lost)
  IN  /\ FirstDue(n)
      /\ Expired(n) \subseteq costs[n]
      /\ neighborTable' = [neighborTable EXCEPT ![n] = @ \ Expired(n)]
      /\ costs' = [costs EXCEPT ![n] = RemainingCosts(n)]
      /\ vectors' = [vectors EXCEPT ![n] =
           [m \in Nodes |-> IF m \in Expired(n) THEN EmptyVector ELSE @[m]]]
      /\ heard' = [heard EXCEPT ![n] = {}]
      /\ due' = due \ {n}
      /\ \/ /\ Expired(n) # {}
            /\ Install(n, bf)
            /\ net' = net \o SendHello(n) \o Triggered(n, bf)
         \/ /\ Expired(n) = {}
            /\ net' = net \o SendHello(n)
            /\ UNCHANGED <<dv, routingTable>>
      /\ UNCHANGED <<up, calm, round, age, ops, crashed>>

AuditCrash(n) ==
  /\ FirstDue(n)
  /\ ~ (Expired(n) \subseteq costs[n])
  /\ crashed' = TRUE
  /\ UNCHANGED <<simVars, dv, costs, neighborTable, heard, vectors, routingTable>>

(* DoStart() puts this node itself in m_dv.                                *)
Init ==
  /\ SimInit
  /\ dv = [n \in Nodes |-> [EmptyVector EXCEPT ![n] = 0]]
  /\ costs = [n \in Nodes |-> {}]
  /\ neighborTable = [n \in Nodes |-> {}]
  /\ heard = [n \in Nodes |-> {}]
  /\ vectors = [n \in Nodes |-> [m \in Nodes |-> EmptyVector]]
  /\ routingTable = [n \in Nodes |-> [d \in Nodes |-> NoRoute]]
  /\ crashed = FALSE

Receive ==
  \E n \in Nodes, i \in 1 .. Len(net) :
    ~crashed /\ (ProcessHelloReq(n, i) \/ ProcessDVTableMessage(n, i))

Audit == \E n \in Nodes : ~crashed /\ (AuditHellos(n) \/ AuditCrash(n))

Next ==
  \/ Receive
  \/ Audit
  \/ ~crashed /\ SimNext /\ UNCHANGED dvVars

(* As for LSRouting: the simulator runs every event it has queued, until   *)
(* the process dies.                                                       *)
Fairness ==
  /\ WF_vars(Receive)
  /\ WF_vars(Audit)
  /\ WF_vars(~crashed /\ (\E i \in 1 .. Len(net), r \in Nodes : DropPacket(i, r))
                      /\ UNCHANGED dvVars)
  /\ WF_vars(~crashed /\ (Settle \/ HelloInstant) /\ UNCHANGED dvVars)

Spec == Init /\ [][Next]_vars
FairSpec == Spec /\ Fairness

(***************************************************************************)
(* Properties.                                                             *)
(***************************************************************************)
(* Every variable of the protocol stays within its type.  In particular no *)
(* vector and no message ever holds a finite cost above the limit that     *)
(* BellmanFord puts on it: counting to infinity goes no further.           *)
TypeOK ==
  /\ SimTypeOK
  /\ net \in Seq(Packets)
  /\ dv \in [Nodes -> [Nodes -> VectorCosts]]
  /\ costs \in [Nodes -> SUBSET Nodes]
  /\ neighborTable \in [Nodes -> SUBSET Nodes]
  /\ heard \in [Nodes -> SUBSET Nodes]
  /\ vectors \in [Nodes -> [Nodes -> [Nodes -> VectorCosts]]]
  /\ routingTable \in [Nodes -> [Nodes -> Routes]]
  /\ crashed \in BOOLEAN

(* SendDVTableMessage and BellmanFord look up every key of m_costs in      *)
(* m_neighborTable and use the result unchecked: it is always there.       *)
CostsHaveNeighbors == \A n \in Nodes : costs[n] \subseteq neighborTable[n]

(* m_costs has a cost for each neighbour, as its comment says and as       *)
(* AuditHellos assumes when it erases the one of an expired neighbour.     *)
NeighborsHaveCosts == \A n \in Nodes : neighborTable[n] \subseteq costs[n]

(* What a node tells its neighbours about a destination it has a route to  *)
(* is the cost of that route, and the next hop that BellmanFord chose is a *)
(* neighbour that last offered the destination at one less.                *)
RoutesAreAdvertised ==
  \A n \in Nodes : \A d \in Nodes \ {n} :
    LET r == routingTable[n][d]
    IN  r # NoRoute =>
          /\ r.cost = dv[n][d]
          /\ r.nextHop \in costs[n]
          /\ vectors[n][r.nextHop][d] = r.cost - 1

(* Every node routes to exactly the nodes it can reach, at the length of a *)
(* shortest path, through a working link to a node that is one hop closer. *)
ShortestPaths ==
  \A n \in Nodes : \A d \in Nodes \ {n} :
    LET r == routingTable[n][d]
    IN  /\ r.cost = Distance(LiveLinks, n, d)
        /\ r # NoRoute =>
             /\ Live(n, r.nextHop)
             /\ Distance(LiveLinks, r.nextHop, d) = r.cost - 1

(* Once the links have been stable for three hello periods and the network *)
(* is idle, every neighbour table has exactly the nodes at the other ends  *)
(* of working links: AuditHellos has dropped the others by then, whatever  *)
(* hellos were on their way across its instants.                           *)
NeighborsSettled ==
  Idle /\ age = Drain => \A n \in Nodes : neighborTable[n] = LiveLinks[n]

(* m_costs has the working links, and what it goes by for a neighbour is   *)
(* what that neighbour's vector has now; an entry of M_INF says as little  *)
(* as none.                                                                *)
SameCost(c, known) == c = known \/ {c, known} = {INF, NoCost}
Synchronized ==
  \A n \in Nodes :
    /\ costs[n] = LiveLinks[n]
    /\ \A m \in costs[n], d \in Nodes \ {n} : SameCost(dv[m][d], vectors[n][m][d])

(* No two nodes are so far apart that BellmanFord gives up.                *)
WithinLimit ==
  \A n, d \in Nodes : Distance(LiveLinks, n, d) \in 0 .. (Limit - 1) \cup {INF}

(* At any moment: when the nodes agree about each other's vectors, every   *)
(* route is right.  No loop and no forgotten cost of an earlier topology   *)
(* can hold itself up in a network whose nodes agree.                      *)
SynchronizedRoutes == Synchronized /\ WithinLimit => ShortestPaths

(* Once the links have been stable for three hello periods and the network *)
(* is idle, the triggered messages of BellmanFord have brought every       *)
(* routing table to the shortest paths, whatever was advertised before.    *)
RoutesAreShortestPaths == Idle /\ age = Drain => ShortestPaths

(* Counting to the limit ends: after the last command, all routing tables  *)
(* reach the shortest paths and stay there.                                *)
RoutingConverges == <>[]ShortestPaths
=============================================================================
