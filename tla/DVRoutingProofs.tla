--------------------------- MODULE DVRoutingProofs ---------------------------
(***************************************************************************)
(* Safety of DVRouting for every topology and every limit up to 16: which  *)
(* routes it installs at any moment, that they are the shortest paths once *)
(* the network is idle, and what that does for the application's packets.  *)
(***************************************************************************)
EXTENDS DVForwarding, Foundations

(***************************************************************************)
(* The network.                                                            *)
(***************************************************************************)
(* The steps of the simulator itself preserve its type invariant; the only *)
(* thing they do to the network is to drop a copy of a packet.             *)
LEMMA SimNextStep ==
  ASSUME SimTypeOK, SimNext
  PROVE  /\ SimTypeOK'
         /\ \/ net' = net
            \/ \E i \in 1 .. Len(net), r \in Nodes : net' = InFlightWithout(i, r)
<1>1. CASE \E i \in 1 .. Len(net), r \in Nodes : DropPacket(i, r)
  BY <1>1 DEF DropPacket, SimTypeOK, clock
<1>2. ASSUME NEW newUp \in [Nodes -> SUBSET Nodes], SetInterfaces(newUp)
      PROVE  SimTypeOK' /\ net' = net
  BY <1>2, BoundsAssumption DEF SetInterfaces, SimTypeOK, Drain
<1>3. ASSUME NEW a \in Nodes, NEW b \in Nodes, NEW isUp \in BOOLEAN, LinkOperation(a, b, isUp)
      PROVE  SimTypeOK' /\ net' = net
  <2> DEFINE newUp ==
        [x \in Nodes |-> LET ends == {a, b} \ {x}
                         IN  IF x \notin {a, b} THEN up[x]
                             ELSE IF isUp THEN up[x] \cup ends ELSE up[x] \ ends]
  <2>1. newUp \in [Nodes -> SUBSET Nodes]
    BY DEF SimTypeOK
  <2>2. SetInterfaces(newUp)
    BY <1>3 DEF LinkOperation
  <2> QED BY <1>2, <2>1, <2>2
<1>4. ASSUME NEW a \in Nodes, NEW isUp \in BOOLEAN, AllInterfacesOperation(a, isUp)
      PROVE  SimTypeOK' /\ net' = net
  <2> DEFINE newUp == [up EXCEPT ![a] = IF isUp THEN Adjacent(a) ELSE {}]
  <2>1. newUp \in [Nodes -> SUBSET Nodes]
    BY DEF SimTypeOK, Adjacent
  <2>2. SetInterfaces(newUp)
    BY <1>4 DEF AllInterfacesOperation
  <2> QED BY <1>2, <2>1, <2>2
<1>5. CASE Settle
  BY <1>5 DEF Settle, SimTypeOK
<1>6. CASE HelloInstant
  <2>1. net' = net /\ up' = up /\ ops' = ops /\ due' = Nodes /\ calm' = FALSE
    BY <1>6 DEF HelloInstant
  <2>2. round' \in 0 .. MaxRounds /\ age' \in 0 .. Drain
    BY <1>6, BoundsAssumption DEF SimTypeOK, HelloInstant, Drain
  <2> QED BY <2>1, <2>2 DEF SimTypeOK
<1> QED BY <1>1, <1>3, <1>4, <1>5, <1>6 DEF SimNext

(* Taking a copy off the network leaves well-formed packets.               *)
LEMMA InFlightType ==
  ASSUME TypeOK, NEW i \in 1 .. Len(net), NEW n \in Nodes
  PROVE  InFlightWithout(i, n) \in Seq(Packets)
<1>1. net \in Seq(Packets) /\ Packets = PacketsOf(Nodes, Messages)
  BY DEF TypeOK, Packets, PacketsOf
<1>2. \A p \in Packets : \A x : [p EXCEPT !.to = @ \ {x}] \in Packets
  BY DEF Packets
<1>3. Without(net, i, n) \in Seq(Packets)
  BY <1>1, <1>2, WithoutProperties
<1> QED BY <1>3 DEF Without, InFlightWithout

Vectors == [Nodes -> VectorCosts]

(***************************************************************************)
(* BellmanFord().                                                          *)
(***************************************************************************)
(* The minimum that BellmanFord's inner loop computes is M_INF or what     *)
(* some neighbour offers, and no neighbour offers less.                    *)
LEMMA MinCostProperties ==
  ASSUME NEW cs \in SUBSET Nodes, NEW vs \in [Nodes -> Vectors], NEW d \in Nodes
  PROVE  /\ MinCost(cs, vs, d) \in Nat
         /\ MinCost(cs, vs, d) < INF =>
              \E j \in Offering(cs, vs, d) : Extended(vs[j][d]) = MinCost(cs, vs, d)
         /\ \A j \in Offering(cs, vs, d) : MinCost(cs, vs, d) <= Extended(vs[j][d])
<1> DEFINE offers == {Extended(vs[j][d]) : j \in Offering(cs, vs, d)}
           T == offers \cup {INF}
<1>1. T \subseteq Nat
  BY LimitAssumption DEF Offering, Extended, Vectors, VectorCosts, NoCost, INF
<1>2. \E x \in T : \A y \in T : x <= y
  <2> HIDE DEF offers
  <2>1. T # {}
    OBVIOUS
  <2> HIDE DEF T
  <2> QED BY <1>1, <2>1, LeastNatural
<1>3. MinCost(cs, vs, d) = CHOOSE c \in T : \A o \in T : c <= o
  BY DEF MinCost
<1> HIDE DEF T
<1>4. MinCost(cs, vs, d) \in T /\ \A y \in T : MinCost(cs, vs, d) <= y
  BY <1>2, <1>3
<1> QED BY <1>1, <1>4 DEF T, INF

(* The next hop of a finite minimum attains it.                            *)
LEMMA NextHopProperties ==
  ASSUME NEW cs \in SUBSET Nodes, NEW vs \in [Nodes -> Vectors], NEW d \in Nodes,
         MinCost(cs, vs, d) < INF
  PROVE  /\ NextHop(cs, vs, d) \in Offering(cs, vs, d)
         /\ Extended(vs[NextHop(cs, vs, d)][d]) = MinCost(cs, vs, d)
<1> DEFINE best == {j \in Offering(cs, vs, d) :
                      Extended(vs[j][d]) = MinCost(cs, vs, d)}
<1>1. best # {}
  BY MinCostProperties
<1>2. best \subseteq Nat
  BY NodesAssumption DEF Offering
<1>3. NextHop(cs, vs, d) = CHOOSE j \in best : \A k \in best : j <= k
  BY DEF NextHop
<1> HIDE DEF best
<1>4. \E j \in best : \A k \in best : j <= k
  BY <1>1, <1>2, LeastNatural
<1>5. NextHop(cs, vs, d) \in best
  BY <1>3, <1>4
<1> QED BY <1>5 DEF best

(* Every route of rt is advertised by vector at its cost, and leaves       *)
(* through a neighbour of cs that offered the destination at one less.     *)
Advertised(n, vector, cs, vs, rt) ==
  \A d \in Nodes \ {n} :
    rt[d] # NoRoute =>
      /\ rt[d].cost = vector[d]
      /\ rt[d].nextHop \in cs
      /\ vs[rt[d].nextHop][d] = rt[d].cost - 1

(* BellmanFord returns a vector and a routing table of the right types     *)
(* that agree with each other and with what the neighbours offered.        *)
LEMMA BellmanFordProperties ==
  ASSUME NEW n \in Nodes, NEW vector \in Vectors, NEW cs \in SUBSET Nodes,
         NEW vs \in [Nodes -> Vectors], NEW ndv \in Vectors
  PROVE  LET bf == BellmanFord(n, vector, cs, vs, ndv)
         IN  /\ bf.dv \in Vectors
             /\ bf.rt \in [Nodes -> Routes]
             /\ bf.sendDV \in BOOLEAN
             /\ Advertised(n, bf.dv, cs, vs, bf.rt)
<1> DEFINE bf == BellmanFord(n, vector, cs, vs, ndv)
           known == [d \in Nodes |->
                       IF vector[d] = NoCost /\ ndv[d] # NoCost THEN INF ELSE vector[d]]
           changed == Changed(n, known, cs, vs)
           min(d) == MinCost(cs, vs, d)
           rt == [d \in Nodes |->
                    IF known[d] = NoCost THEN NoRoute
                    ELSE IF d = n THEN [nextHop |-> n, cost |-> 0]
                    ELSE IF min(d) < Limit
                    THEN [nextHop |-> NextHop(cs, vs, d), cost |-> min(d)]
                    ELSE NoRoute]
           newdv == [d \in Nodes |-> IF d \in changed THEN min(d) ELSE known[d]]
<1>1. bf = [dv |-> newdv, rt |-> rt, sendDV |-> changed # {}]
  BY DEF BellmanFord
<1>2. known \in Vectors
  BY DEF Vectors, VectorCosts
<1>3. \A d \in Nodes : min(d) \in Nat
  BY MinCostProperties
<1>4. \A d \in changed : d \in Nodes /\ min(d) <= Limit
  BY DEF Changed
<1>5. \A d \in Nodes : min(d) < Limit =>
        /\ NextHop(cs, vs, d) \in Offering(cs, vs, d)
        /\ Extended(vs[NextHop(cs, vs, d)][d]) = min(d)
  BY <1>3, NextHopProperties, LimitAssumption DEF INF
<1> HIDE DEF known
<1>6. \A d \in Nodes \ {n} : known[d] # NoCost /\ min(d) < Limit =>
        d \in changed \/ known[d] = min(d)
  BY <1>3, <1>5, LimitAssumption DEF Changed
<1>7. \A d \in Nodes : min(d) < Limit =>
        /\ NextHop(cs, vs, d) \in cs
        /\ vs[NextHop(cs, vs, d)][d] = min(d) - 1
  <2> SUFFICES ASSUME NEW d \in Nodes, min(d) < Limit
               PROVE  /\ NextHop(cs, vs, d) \in cs
                      /\ vs[NextHop(cs, vs, d)][d] = min(d) - 1
    OBVIOUS
  <2> DEFINE h == NextHop(cs, vs, d)
  <2>1. h \in cs /\ h \in Nodes /\ vs[h][d] # NoCost /\ Extended(vs[h][d]) = min(d)
    BY <1>5 DEF Offering
  <2> HIDE DEF h, min
  <2>2. vs[h][d] \in VectorCosts
    BY <2>1 DEF Vectors
  <2>3. vs[h][d] \in Nat
    BY <2>1, <2>2, LimitAssumption DEF VectorCosts, INF
  <2>4. vs[h][d] = min(d) - 1
    BY <1>3, <2>1, <2>3, LimitAssumption DEF Extended, INF
  <2> QED BY <2>1, <2>4 DEF h
<1> HIDE DEF changed, min
<1>8. newdv \in Vectors
  BY <1>2, <1>3, <1>4 DEF Vectors, VectorCosts
<1>9. rt \in [Nodes -> Routes]
  <2> SUFFICES ASSUME NEW d \in Nodes PROVE rt[d] \in Routes
    OBVIOUS
  <2>1. CASE d # n /\ min(d) < Limit /\ known[d] # NoCost
    <3>1. NextHop(cs, vs, d) \in Nodes /\ min(d) \in 0 .. Limit
      BY <1>3, <1>7, <2>1, LimitAssumption
    <3> QED BY <2>1, <3>1 DEF Routes
  <2>2. CASE d = n /\ known[d] # NoCost
    BY <2>2, LimitAssumption DEF Routes
  <2>3. CASE rt[d] = NoRoute
    BY <2>3 DEF Routes
  <2> QED BY <2>1, <2>2, <2>3
<1>10. Advertised(n, newdv, cs, vs, rt)
  <2> SUFFICES ASSUME NEW d \in Nodes \ {n}, rt[d] # NoRoute
               PROVE  /\ rt[d].cost = newdv[d]
                      /\ rt[d].nextHop \in cs
                      /\ vs[rt[d].nextHop][d] = rt[d].cost - 1
    BY DEF Advertised
  <2>1. known[d] # NoCost /\ min(d) < Limit
    OBVIOUS
  <2>2. rt[d] = [nextHop |-> NextHop(cs, vs, d), cost |-> min(d)]
    BY <2>1
  <2>3. newdv[d] = min(d)
    BY <1>6, <2>1
  <2> HIDE DEF rt, newdv
  <2> QED BY <1>7, <2>1, <2>2, <2>3
<1> HIDE DEF newdv, rt
<1>11. bf.dv = newdv /\ bf.rt = rt /\ bf.sendDV \in BOOLEAN
  BY <1>1
<1> QED BY <1>8, <1>9, <1>10, <1>11

(***************************************************************************)
(* The invariant.  It is inductive as it stands: every step that changes   *)
(* costs, vectors or dv runs BellmanFord, which rebuilds the routes.       *)
(***************************************************************************)
IInv == TypeOK /\ CostsHaveNeighbors /\ RoutesAreAdvertised

(* The vector of a DV_TABLE_MSG as its receiver gets it.                   *)
LEMMA ReceivedMessage ==
  ASSUME TypeOK, NEW i \in 1 .. Len(net), NEW n \in Nodes
  PROVE  /\ net[i].msg.orig \in Nodes
         /\ net[i].msg.type = "DV_TABLE_MSG" =>
              CopyFor(n, net[i].msg.dv, net[i].msg.poisoned) \in Vectors
<1>1. net[i].msg \in Messages
  <2>1. net \in Seq(Packets)
    BY DEF TypeOK
  <2>2. net[i] \in Packets
    BY <2>1
  <2> QED BY <2>2 DEF Packets
<1>2. net[i].msg.orig \in Nodes
  BY <1>1 DEF Messages, DVMessages
<1>3. net[i].msg.type = "DV_TABLE_MSG" => net[i].msg.dv \in Vectors
  BY <1>1 DEF Messages, DVMessages, Vectors
<1> QED BY <1>2, <1>3 DEF CopyFor, Vectors, VectorCosts

(* What SendDVTableMessage adds is well formed.                            *)
LEMMA SentType ==
  ASSUME TypeOK, NEW n \in Nodes, NEW vector \in Vectors,
         NEW nbrs \in SUBSET Nodes, NEW rt
  PROVE  SendDVTableMessage(n, vector, nbrs, rt) \in Seq(Packets)
<1> DEFINE m == [type |-> "DV_TABLE_MSG", orig |-> n, dv |-> vector, poisoned |-> Poisoned(rt)]
<1>1. m \in Messages
  BY DEF Messages, DVMessages, Poisoned, Vectors
<1> HIDE DEF m
<1>2. [from |-> n, to |-> nbrs \cap up[n], msg |-> m] \in Packets
  BY <1>1 DEF Packets
<1> QED BY <1>2 DEF SendDVTableMessage, m

(* A broadcast hello is well formed.                                       *)
LEMMA HelloType ==
  ASSUME TypeOK, NEW n \in Nodes
  PROVE  SendHello(n) \in Seq(Packets)
<1> DEFINE m == [type |-> "HELLO_REQ", orig |-> n]
<1>1. m \in Messages
  BY DEF Messages
<1> HIDE DEF m
<1>2. [from |-> n, to |-> up[n], msg |-> m] \in Packets
  BY <1>1 DEF Packets, TypeOK, SimTypeOK
<1> QED BY <1>2 DEF SendHello, BroadcastPacket, m

(* Installing the result of BellmanFord at n keeps every node's routes in  *)
(* step with its vector, when no other node's tables change.               *)
LEMMA InstallStep ==
  ASSUME IInv, NEW n \in Nodes, NEW vector \in Vectors, NEW ndv \in Vectors,
         costs' \in [Nodes -> SUBSET Nodes], vectors' \in [Nodes -> [Nodes -> Vectors]],
         \A a \in Nodes \ {n} : costs'[a] = costs[a] /\ vectors'[a] = vectors[a],
         Install(n, RunBellmanFord(n, vector, ndv))
  PROVE  /\ dv' \in [Nodes -> Vectors]
         /\ routingTable' \in [Nodes -> [Nodes -> Routes]]
         /\ RoutesAreAdvertised'
         /\ Triggered(n, RunBellmanFord(n, vector, ndv)) \in Seq(Packets)
         /\ SendDVTableMessage(n, RunBellmanFord(n, vector, ndv).dv, costs'[n],
                               RunBellmanFord(n, vector, ndv).rt) \in Seq(Packets)
<1> DEFINE bf == RunBellmanFord(n, vector, ndv)
<1>1. /\ bf.dv \in Vectors /\ bf.rt \in [Nodes -> Routes]
      /\ Advertised(n, bf.dv, costs'[n], vectors'[n], bf.rt)
  BY BellmanFordProperties DEF RunBellmanFord
<1> HIDE DEF bf
<1>2. dv' = [dv EXCEPT ![n] = bf.dv] /\ routingTable' = [routingTable EXCEPT ![n] = bf.rt]
  BY DEF Install, bf
<1>3. dv' \in [Nodes -> Vectors] /\ routingTable' \in [Nodes -> [Nodes -> Routes]]
  BY <1>1, <1>2 DEF IInv, TypeOK, Vectors
<1>4. /\ dv'[n] = bf.dv /\ routingTable'[n] = bf.rt
      /\ \A a \in Nodes \ {n} : dv'[a] = dv[a] /\ routingTable'[a] = routingTable[a]
  BY <1>2 DEF IInv, TypeOK
<1>5. ASSUME NEW a \in Nodes
      PROVE  Advertised(a, dv'[a], costs'[a], vectors'[a], routingTable'[a])
  <2>1. CASE a = n
    BY <1>1, <1>4, <2>1
  <2>2. CASE a # n
    BY <1>4, <2>2 DEF IInv, RoutesAreAdvertised, Advertised
  <2> QED BY <2>1, <2>2
<1>6. RoutesAreAdvertised'
  BY <1>5 DEF RoutesAreAdvertised, Advertised
<1>7. SendDVTableMessage(n, bf.dv, costs'[n], bf.rt) \in Seq(Packets)
  BY <1>1, SentType DEF IInv
<1>8. Triggered(n, bf) \in Seq(Packets)
  BY <1>7 DEF Triggered
<1> QED BY <1>3, <1>6, <1>7, <1>8 DEF bf

(* The initial states satisfy the invariant.                               *)
THEOREM InitIInv == Init => IInv
<1> SUFFICES ASSUME Init PROVE IInv
  OBVIOUS
<1>1. SimTypeOK /\ net \in Seq(Packets)
  BY BoundsAssumption DEF Init, SimInit, SimTypeOK, Adjacent, Drain
<1>2. EmptyVector \in Vectors /\ \A n \in Nodes : [EmptyVector EXCEPT ![n] = 0] \in Vectors
  BY LimitAssumption DEF EmptyVector, Vectors, VectorCosts
<1>3. TypeOK
  BY <1>1, <1>2 DEF Init, TypeOK, Vectors, Routes
<1>4. CostsHaveNeighbors /\ RoutesAreAdvertised
  BY DEF Init, CostsHaveNeighbors, RoutesAreAdvertised
<1> QED BY <1>3, <1>4 DEF IInv

(***************************************************************************)
(* One lemma per action.                                                   *)
(***************************************************************************)
(* ProcessHelloReq from a known neighbour.                                 *)
LEMMA RefreshNeighborStep ==
  ASSUME IInv, NEW n \in Nodes, NEW i \in 1 .. Len(net), RefreshNeighbor(n, i)
  PROVE  IInv'
<1>1. net[i].msg.orig \in Nodes /\ net' \in Seq(Packets)
  BY ReceivedMessage, InFlightType DEF IInv, RefreshNeighbor
<1>2. TypeOK'
  BY <1>1 DEF IInv, TypeOK, SimTypeOK, RefreshNeighbor, clock
<1>3. CostsHaveNeighbors' /\ RoutesAreAdvertised'
  BY DEF IInv, CostsHaveNeighbors, RoutesAreAdvertised, RefreshNeighbor
<1> QED BY <1>2, <1>3 DEF IInv

(* ProcessHelloReq from a new one: BellmanFord runs on an enlarged m_costs.*)
LEMMA DiscoverNeighborStep ==
  ASSUME IInv, NEW n \in Nodes, NEW i \in 1 .. Len(net), DiscoverNeighbor(n, i)
  PROVE  IInv'
<1> DEFINE m == net[i].msg.orig
           bf == RunBellmanFord(n, Inserted(dv[n], m), EmptyVector)
<1>1. m \in Nodes
  BY ReceivedMessage DEF IInv
<1>2. Inserted(dv[n], m) \in Vectors /\ EmptyVector \in Vectors
  BY <1>1, LimitAssumption DEF IInv, TypeOK, Inserted, EmptyVector, Vectors, VectorCosts
<1>3. /\ neighborTable' = [neighborTable EXCEPT ![n] = @ \cup {m}]
      /\ costs' = [costs EXCEPT ![n] = @ \cup {m}]
      /\ heard' = [heard EXCEPT ![n] = @ \cup {m}]
      /\ vectors' = [vectors EXCEPT ![n][m] = EmptyVector]
      /\ Install(n, bf)
      /\ net' = InFlightWithout(i, n) \o Triggered(n, bf)
                  \o SendDVTableMessage(n, bf.dv, costs'[n], bf.rt)
      /\ UNCHANGED <<up, clock, ops, crashed>>
  BY DEF DiscoverNeighbor
<1>4. /\ neighborTable' \in [Nodes -> SUBSET Nodes] /\ heard' \in [Nodes -> SUBSET Nodes]
      /\ costs' \in [Nodes -> SUBSET Nodes] /\ vectors' \in [Nodes -> [Nodes -> Vectors]]
      /\ \A a \in Nodes \ {n} : costs'[a] = costs[a] /\ vectors'[a] = vectors[a]
  BY <1>1, <1>2, <1>3 DEF IInv, TypeOK, Vectors
<1>5. CostsHaveNeighbors'
  BY <1>3 DEF IInv, TypeOK, CostsHaveNeighbors
<1>6. /\ dv' \in [Nodes -> Vectors]
      /\ routingTable' \in [Nodes -> [Nodes -> Routes]]
      /\ RoutesAreAdvertised'
      /\ Triggered(n, bf) \in Seq(Packets)
      /\ SendDVTableMessage(n, bf.dv, costs'[n], bf.rt) \in Seq(Packets)
  BY <1>2, <1>3, <1>4, InstallStep
<1> HIDE DEF bf
<1>7. net' \in Seq(Packets)
  BY <1>3, <1>6, InFlightType DEF IInv
<1>8. TypeOK'
  BY <1>3, <1>4, <1>6, <1>7 DEF IInv, TypeOK, SimTypeOK, clock, Vectors
<1> QED BY <1>5, <1>6, <1>8 DEF IInv

(* ProcessDVTableMessage replaces the sender's vector and runs BellmanFord.*)
LEMMA ProcessDVTableMessageStep ==
  ASSUME IInv, NEW n \in Nodes, NEW i \in 1 .. Len(net), ProcessDVTableMessage(n, i)
  PROVE  IInv'
<1> DEFINE m == net[i].msg.orig
           newdv == CopyFor(n, net[i].msg.dv, net[i].msg.poisoned)
           bf == RunBellmanFord(n, dv[n], newdv)
<1>1. m \in Nodes /\ newdv \in Vectors /\ dv[n] \in Vectors
  BY ReceivedMessage DEF IInv, TypeOK, Vectors, ProcessDVTableMessage, Receives
<1> HIDE DEF newdv
<1>2. /\ neighborTable' = [neighborTable EXCEPT ![n] = @ \cup {m}]
      /\ costs' = costs
      /\ heard' = [heard EXCEPT ![n] = IF m \in neighborTable[n] THEN @ ELSE @ \cup {m}]
      /\ vectors' = [vectors EXCEPT ![n][m] = newdv]
      /\ Install(n, bf)
      /\ net' = InFlightWithout(i, n) \o Triggered(n, bf)
      /\ UNCHANGED <<up, clock, ops, crashed>>
  BY DEF ProcessDVTableMessage, newdv
<1>3. /\ neighborTable' \in [Nodes -> SUBSET Nodes] /\ heard' \in [Nodes -> SUBSET Nodes]
      /\ costs' \in [Nodes -> SUBSET Nodes] /\ vectors' \in [Nodes -> [Nodes -> Vectors]]
      /\ \A a \in Nodes \ {n} : costs'[a] = costs[a] /\ vectors'[a] = vectors[a]
  BY <1>1, <1>2 DEF IInv, TypeOK, Vectors
<1>4. CostsHaveNeighbors'
  BY <1>2 DEF IInv, TypeOK, CostsHaveNeighbors
<1>5. /\ dv' \in [Nodes -> Vectors]
      /\ routingTable' \in [Nodes -> [Nodes -> Routes]]
      /\ RoutesAreAdvertised'
      /\ Triggered(n, bf) \in Seq(Packets)
  BY <1>1, <1>2, <1>3, InstallStep
<1> HIDE DEF bf
<1>6. net' \in Seq(Packets)
  BY <1>2, <1>5, InFlightType DEF IInv
<1>7. TypeOK'
  BY <1>2, <1>3, <1>5, <1>6 DEF IInv, TypeOK, SimTypeOK, clock, Vectors
<1> QED BY <1>4, <1>5, <1>7 DEF IInv

(* AuditHellos takes expired neighbours out of both maps and, when there   *)
(* are any, runs BellmanFord.                                              *)
LEMMA AuditHellosStep ==
  ASSUME IInv, NEW n \in Nodes, AuditHellos(n)
  PROVE  IInv'
<1> DEFINE lost == [d \in Nodes |-> IF d \in Expired(n) THEN INF ELSE dv[n][d]]
           bf == RunBellmanFord(n, lost, lost)
<1>1. lost \in Vectors /\ EmptyVector \in Vectors
  BY DEF IInv, TypeOK, Vectors, VectorCosts, EmptyVector
<1>2. /\ neighborTable' = [neighborTable EXCEPT ![n] = @ \ Expired(n)]
      /\ costs' = [costs EXCEPT ![n] = RemainingCosts(n)]
      /\ heard' = [heard EXCEPT ![n] = {}]
      /\ vectors' = [vectors EXCEPT ![n] =
           [m \in Nodes |-> IF m \in Expired(n) THEN EmptyVector ELSE @[m]]]
      /\ due' = due \ {n}
      /\ UNCHANGED <<up, calm, round, age, ops, crashed>>
  BY DEF AuditHellos
<1>3. /\ neighborTable' \in [Nodes -> SUBSET Nodes] /\ heard' \in [Nodes -> SUBSET Nodes]
      /\ costs' \in [Nodes -> SUBSET Nodes]
      /\ \A a \in Nodes \ {n} : costs'[a] = costs[a] /\ vectors'[a] = vectors[a]
  BY <1>2 DEF IInv, TypeOK, RemainingCosts
<1>4. vectors' \in [Nodes -> [Nodes -> Vectors]]
  BY <1>1, <1>2 DEF IInv, TypeOK, Vectors
<1>5. CostsHaveNeighbors'
  BY <1>2 DEF IInv, TypeOK, CostsHaveNeighbors, RemainingCosts
<1>6. SendHello(n) \in Seq(Packets) /\ net \in Seq(Packets)
  BY HelloType DEF IInv, TypeOK
<1> HIDE DEF lost
<1>7. CASE Expired(n) # {}
  <2>1. Install(n, bf) /\ net' = net \o SendHello(n) \o Triggered(n, bf)
    BY <1>7 DEF AuditHellos, lost
  <2>2. /\ dv' \in [Nodes -> Vectors]
        /\ routingTable' \in [Nodes -> [Nodes -> Routes]]
        /\ RoutesAreAdvertised'
        /\ Triggered(n, bf) \in Seq(Packets)
    BY <1>1, <1>3, <1>4, <2>1, InstallStep
  <2> HIDE DEF bf
  <2>3. net' \in Seq(Packets)
    BY <1>6, <2>1, <2>2
  <2>4. TypeOK'
    BY <1>2, <1>3, <1>4, <2>2, <2>3 DEF IInv, TypeOK, SimTypeOK, Vectors
  <2> QED BY <1>5, <2>2, <2>4 DEF IInv
<1>8. CASE Expired(n) = {}
  <2>1. dv' = dv /\ routingTable' = routingTable /\ net' = net \o SendHello(n)
    BY <1>8 DEF AuditHellos
  <2>2. costs' = costs /\ vectors' = vectors
    BY <1>2, <1>8 DEF IInv, TypeOK, RemainingCosts
  <2>3. net' \in Seq(Packets)
    BY <1>6, <2>1
  <2>4. TypeOK'
    BY <1>2, <1>3, <2>1, <2>2, <2>3 DEF IInv, TypeOK, SimTypeOK
  <2>5. RoutesAreAdvertised'
    BY <2>1, <2>2 DEF IInv, RoutesAreAdvertised
  <2> QED BY <1>5, <2>4, <2>5 DEF IInv
<1> QED BY <1>7, <1>8

(* Steps that leave every table of the protocol alone.                     *)
LEMMA TablesUnchanged ==
  ASSUME IInv, SimTypeOK', net' \in Seq(Packets), crashed' \in BOOLEAN,
         UNCHANGED <<dv, costs, neighborTable, heard, vectors, routingTable>>
  PROVE  IInv'
<1>1. TypeOK'
  BY DEF IInv, TypeOK
<1>2. CostsHaveNeighbors' /\ RoutesAreAdvertised'
  BY DEF IInv, CostsHaveNeighbors, RoutesAreAdvertised
<1> QED BY <1>1, <1>2 DEF IInv

(* The invariant is inductive.                                             *)
THEOREM NextIInv == IInv /\ [Next]_vars => IInv'
<1> SUFFICES ASSUME IInv, [Next]_vars PROVE IInv'
  OBVIOUS
<1>1. CASE Receive
  BY <1>1, RefreshNeighborStep, DiscoverNeighborStep, ProcessDVTableMessageStep
     DEF Receive, ProcessHelloReq
<1>2. ASSUME NEW n \in Nodes, AuditCrash(n)
      PROVE  IInv'
  BY <1>2, TablesUnchanged DEF AuditCrash, simVars, IInv, TypeOK, SimTypeOK
<1>3. CASE Audit
  BY <1>2, <1>3, AuditHellosStep DEF Audit
<1>4. CASE SimNext /\ UNCHANGED dvVars
  <2>1. SimTypeOK' /\ net' \in Seq(Packets)
    BY <1>4, SimNextStep, InFlightType DEF IInv, TypeOK
  <2> QED BY <1>4, <2>1, TablesUnchanged DEF dvVars, IInv, TypeOK
<1>5. CASE UNCHANGED vars
  BY <1>5, TablesUnchanged DEF vars, simVars, dvVars, IInv, TypeOK, SimTypeOK
<1> QED BY <1>1, <1>3, <1>4, <1>5 DEF Next

(* The invariant holds throughout every run of the protocol.               *)
THEOREM Invariance == Spec => []IInv
<1>1. Init => IInv
  BY InitIInv
<1>2. IInv /\ [Next]_vars => IInv'
  BY NextIInv
<1> QED BY <1>1, <1>2, PTL DEF Spec

(* In every network, every variable keeps its type: no vector, message or  *)
(* route ever has a finite cost above the limit of BellmanFord.            *)
THEOREM TypeCorrect == Spec => []TypeOK
<1>1. IInv => TypeOK
  BY DEF IInv
<1> QED BY <1>1, Invariance, PTL

(* In every network, each m_neighborTable lookup of a key of m_costs in    *)
(* SendDVTableMessage and BellmanFord succeeds.                            *)
THEOREM LookupsSucceed == Spec => []CostsHaveNeighbors
<1>1. IInv => CostsHaveNeighbors
  BY DEF IInv
<1> QED BY <1>1, Invariance, PTL

(* In every network, whatever is lost, delayed or expires, every route     *)
(* that BellmanFord installed costs what its node advertises and leaves    *)
(* through a neighbour that offered the destination at one less.           *)
THEOREM Advertisement == Spec => []RoutesAreAdvertised
<1>1. IInv => RoutesAreAdvertised
  BY DEF IInv
<1> QED BY <1>1, Invariance, PTL

(***************************************************************************)
(* Neighbours, once the hello timers have run three times.                 *)
(***************************************************************************)
(* A packet comes from the node that made it; one that was sent since the  *)
(* last command is only for nodes that its sender's interfaces still face. *)
HonestPackets == {p \in Packets : p.msg.orig = p.from}
FreshPackets == {p \in Packets : p.to \subseteq up[p.from]}

HelloPending(m, n) ==
  \E msg \in Messages : msg.type = "HELLO_REQ" /\ InFlight(net, m, n, msg)

(* The first instant after a command sends hellos over the working links   *)
(* only, but stale ones may be on their way until the network has drained; *)
(* the second discards what those brought; the third finds out who was not *)
(* heard.  Between the instants, every hello is on its way or has come.    *)
HelloInv ==
  /\ net \in Seq(HonestPackets)
  /\ age >= 2 \/ (age = 1 /\ calm) => net \in Seq(FreshPackets)
  /\ \A n \in Nodes :
       /\ age = Drain \/ (age = 2 /\ n \notin due) => heard[n] \subseteq LiveLinks[n]
       /\ age = Drain /\ n \notin due => neighborTable[n] \subseteq LiveLinks[n]
  /\ age >= 1 =>
       \A m \in Nodes \ due, n \in Nodes :
         Live(m, n) => HelloPending(m, n) \/ (due = {} /\ m \in neighborTable[n])

(* Taking a copy off the network keeps the others, and what is true of     *)
(* their packets.                                                          *)
LEMMA HelloTaken ==
  ASSUME TypeOK, NEW i \in 1 .. Len(net), NEW r \in Nodes
  PROVE  /\ net \in Seq(HonestPackets) => InFlightWithout(i, r) \in Seq(HonestPackets)
         /\ net \in Seq(FreshPackets) => InFlightWithout(i, r) \in Seq(FreshPackets)
         /\ \A f, x, msg : InFlight(net, f, x, msg) =>
              \/ InFlight(InFlightWithout(i, r), f, x, msg)
              \/ f = net[i].from /\ x = r /\ msg = net[i].msg
<1>1. net \in Seq(Packets) /\ Packets = PacketsOf(Nodes, Messages)
  BY DEF TypeOK, Packets, PacketsOf
<1>2. InFlightWithout(i, r) = Without(net, i, r)
  BY DEF InFlightWithout, Without
<1>3. /\ \A p \in HonestPackets : \A x : [p EXCEPT !.to = @ \ {x}] \in HonestPackets
      /\ \A p \in FreshPackets : \A x : [p EXCEPT !.to = @ \ {x}] \in FreshPackets
  BY DEF Packets, HonestPackets, FreshPackets
<1>4. /\ HonestPackets \in SUBSET PacketsOf(Nodes, Messages)
      /\ FreshPackets \in SUBSET PacketsOf(Nodes, Messages)
  BY <1>1 DEF HonestPackets, FreshPackets
<1>5. ASSUME NEW f, NEW x, NEW msg, InFlight(net, f, x, msg)
      PROVE  InFlight(Without(net, i, r), f, x, msg)
               \/ (f = net[i].from /\ x = r /\ msg = net[i].msg)
  BY <1>1, <1>5, OthersInFlight
<1>6. ASSUME net \in Seq(HonestPackets) PROVE Without(net, i, r) \in Seq(HonestPackets)
  BY <1>3, <1>4, <1>6, WithoutProperties
<1>7. ASSUME net \in Seq(FreshPackets) PROVE Without(net, i, r) \in Seq(FreshPackets)
  BY <1>3, <1>4, <1>7, WithoutProperties
<1> QED BY <1>2, <1>5, <1>6, <1>7

(* A node takes a packet, sends others, and counts its sender among its    *)
(* neighbours, if it was a hello.                                          *)
LEMMA HelloArrival ==
  ASSUME TypeOK, HelloInv, NEW n \in Nodes, NEW i \in 1 .. Len(net),
         NEW extra \in Seq(HonestPackets), extra \in Seq(FreshPackets),
         Arrives(i, n), net[i].from \in up[n],
         net' = InFlightWithout(i, n) \o extra,
         UNCHANGED <<up, due, calm, age>>,
         \A a \in Nodes \ {n} : neighborTable'[a] = neighborTable[a] /\ heard'[a] = heard[a],
         neighborTable[n] \subseteq neighborTable'[n],
         neighborTable'[n] \subseteq neighborTable[n] \cup {net[i].from},
         heard'[n] \subseteq heard[n] \cup {net[i].from},
         net[i].msg.type = "HELLO_REQ" => net[i].from \in neighborTable'[n]
  PROVE  HelloInv'
<1> DEFINE m == net[i].from
           w == InFlightWithout(i, n)
<1>1. /\ net \in Seq(Packets) /\ net \in Seq(HonestPackets)
      /\ up \in [Nodes -> SUBSET Nodes] /\ due = {} /\ age \in 0 .. 3 /\ n \in net[i].to
  BY DEF TypeOK, SimTypeOK, HelloInv, Arrives, Drain
<1>2. m \in Nodes
  BY <1>1 DEF Packets
<1>3. /\ net \in Seq(HonestPackets) => w \in Seq(HonestPackets)
      /\ net \in Seq(FreshPackets) => w \in Seq(FreshPackets)
      /\ \A f, x, msg : InFlight(net, f, x, msg) =>
           InFlight(w, f, x, msg) \/ (f = m /\ x = n /\ msg = net[i].msg)
  BY HelloTaken
<1> HIDE DEF w
<1>4. /\ FreshPackets' = FreshPackets /\ LiveLinks' = LiveLinks
      /\ \A a, b : Live(a, b)' <=> Live(a, b)
  BY DEF FreshPackets, LiveLinks, Live
<1>5. net' \in Seq(HonestPackets)
  BY <1>1, <1>3 DEF w
<1>6. net \in Seq(FreshPackets) => net' \in Seq(FreshPackets)
  BY <1>3 DEF w
<1>7. net \in Seq(FreshPackets) => m \in LiveLinks[n]
  <2> SUFFICES ASSUME net \in Seq(FreshPackets) PROVE m \in LiveLinks[n]
    OBVIOUS
  <2>1. net[i] \in FreshPackets
    OBVIOUS
  <2>2. n \in up[m]
    BY <1>1, <2>1 DEF FreshPackets
  <2> QED BY <1>2, <2>2 DEF LiveLinks, Live
<1> HIDE DEF m
<1>8. ASSUME NEW a \in Nodes
      PROVE  /\ age = Drain \/ (age = 2 /\ a \notin due) => heard'[a] \subseteq LiveLinks[a]
             /\ age = Drain /\ a \notin due => neighborTable'[a] \subseteq LiveLinks[a]
  <2>1. /\ age = Drain \/ (age = 2 /\ a \notin due) => heard[a] \subseteq LiveLinks[a]
        /\ age = Drain /\ a \notin due => neighborTable[a] \subseteq LiveLinks[a]
        /\ age = Drain \/ age = 2 => net \in Seq(FreshPackets)
    BY DEF HelloInv, Drain
  <2>2. CASE a # n
    BY <2>1, <2>2
  <2>3. CASE a = n
    BY <1>7, <2>1, <2>3 DEF m
  <2> QED BY <2>2, <2>3
<1>9. ASSUME age >= 1, NEW a \in Nodes \ due, NEW b \in Nodes, Live(a, b)
      PROVE  HelloPending(a, b)' \/ (due = {} /\ a \in neighborTable'[b])
  <2>1. HelloPending(a, b) \/ a \in neighborTable[b]
    BY <1>9 DEF HelloInv
  <2>2. CASE a \in neighborTable[b]
    BY <1>1, <2>2
  <2>3. CASE HelloPending(a, b)
    <3>1. PICK msg \in Messages : msg.type = "HELLO_REQ" /\ InFlight(net, a, b, msg)
      BY <2>3 DEF HelloPending
    <3>2. CASE InFlight(w, a, b, msg)
      <4>1. InFlight(net', a, b, msg)
        BY <1>1, <1>3, <3>2, ConcatInFlight DEF w
      <4> QED BY <3>1, <4>1 DEF HelloPending
    <3>3. CASE a = m /\ b = n /\ msg = net[i].msg
      BY <1>1, <3>1, <3>3 DEF m
    <3> QED BY <1>3, <3>1, <3>2, <3>3
  <2> QED BY <2>1, <2>2, <2>3
<1> QED BY <1>4, <1>5, <1>6, <1>8, <1>9 DEF HelloInv

(* The copy that DropPacket discards came over a link that does not work.  *)
LEMMA HelloDrop ==
  ASSUME TypeOK, HelloInv, NEW r \in Nodes, NEW i \in 1 .. Len(net), DropPacket(i, r),
         UNCHANGED <<neighborTable, heard>>
  PROVE  HelloInv'
<1> DEFINE w == InFlightWithout(i, r)
<1>1. UNCHANGED <<up, due, calm, age>> /\ net[i].from \notin up[r]
  BY DEF DropPacket, clock
<1>2. /\ net \in Seq(HonestPackets) => w \in Seq(HonestPackets)
      /\ net \in Seq(FreshPackets) => w \in Seq(FreshPackets)
      /\ \A f, x, msg : InFlight(net, f, x, msg) =>
           InFlight(w, f, x, msg) \/ (f = net[i].from /\ x = r /\ msg = net[i].msg)
  BY HelloTaken
<1>3. net' = w
  BY DEF DropPacket
<1> HIDE DEF w
<1>4. /\ FreshPackets' = FreshPackets /\ LiveLinks' = LiveLinks
      /\ \A a, b : Live(a, b)' <=> Live(a, b)
  BY <1>1 DEF FreshPackets, LiveLinks, Live
<1>5. ASSUME NEW a \in Nodes, NEW b \in Nodes, Live(a, b), HelloPending(a, b)
      PROVE  HelloPending(a, b)'
  BY <1>1, <1>2, <1>3, <1>5 DEF HelloPending, Live
<1> QED BY <1>1, <1>2, <1>3, <1>4, <1>5 DEF HelloInv

(* The other steps of the simulator.                                       *)
LEMMA HelloSim ==
  ASSUME TypeOK, HelloInv, SimNext, UNCHANGED <<neighborTable, heard>>
  PROVE  HelloInv'
<1>1. CASE \E i \in 1 .. Len(net), r \in Nodes : DropPacket(i, r)
  BY <1>1, HelloDrop
<1>2. ASSUME NEW newUp, SetInterfaces(newUp)
      PROVE  HelloInv'
  <2>1. net' = net /\ age' = 0
    BY <1>2 DEF SetInterfaces
  <2> QED BY <2>1 DEF HelloInv, Drain, HonestPackets
<1>3. CASE Settle
  <2>1. net = <<>> /\ UNCHANGED <<up, net, due, age>>
    BY <1>3 DEF Settle
  <2>2. LiveLinks' = LiveLinks /\ \A a, b : Live(a, b)' <=> Live(a, b)
    BY <2>1 DEF LiveLinks, Live
  <2>3. net' \in Seq(FreshPackets') /\ net' \in Seq(HonestPackets)
    BY <2>1
  <2>4. ~ \E a, b : HelloPending(a, b)
    BY <2>1 DEF HelloPending, InFlight
  <2> QED BY <2>1, <2>2, <2>3, <2>4 DEF HelloInv
<1>4. CASE HelloInstant
  <2>1. /\ UNCHANGED <<up, net>> /\ due = {} /\ calm /\ due' = Nodes /\ ~calm'
        /\ age' = IF age < Drain THEN age + 1 ELSE age
    BY <1>4 DEF HelloInstant
  <2>2. FreshPackets' = FreshPackets /\ LiveLinks' = LiveLinks
    BY <2>1 DEF FreshPackets, LiveLinks, Live
  <2>3. age \in 0 .. 3
    BY DEF TypeOK, SimTypeOK, Drain
  <2>4. age' >= 2 => age >= 1
    BY <2>1, <2>3 DEF Drain
  <2>5. age' = Drain => age >= 2
    BY <2>1, <2>3 DEF Drain
  <2>6. age >= 1 => net \in Seq(FreshPackets)
    BY <2>1, <2>3 DEF HelloInv
  <2>7. \A n \in Nodes : age >= 2 => heard[n] \subseteq LiveLinks[n]
    BY <2>1, <2>3 DEF HelloInv, Drain
  <2> QED BY <2>1, <2>2, <2>4, <2>5, <2>6, <2>7 DEF HelloInv, HonestPackets
<1> QED BY <1>1, <1>2, <1>3, <1>4 DEF SimNext, LinkOperation, AllInterfacesOperation

(* AuditHellos sends a hello, and drops who was not heard.                 *)
LEMMA HelloAudit ==
  ASSUME TypeOK, HelloInv, NEW n \in Nodes, FirstDue(n),
         NEW msg \in Messages, msg.type = "HELLO_REQ", msg.orig = n,
         NEW extra \in Seq(HonestPackets), extra \in Seq(FreshPackets),
         net' = (net \o BroadcastPacket(n, msg)) \o extra,
         neighborTable' = [neighborTable EXCEPT ![n] = @ \ Expired(n)],
         heard' = [heard EXCEPT ![n] = {}],
         due' = due \ {n}, UNCHANGED <<up, calm, age>>
  PROVE  HelloInv'
<1> DEFINE b == BroadcastPacket(n, msg)
           p == [from |-> n, to |-> up[n], msg |-> msg]
<1>1. /\ net \in Seq(Packets) /\ net \in Seq(HonestPackets)
      /\ up \in [Nodes -> SUBSET Nodes] /\ n \in due
  BY DEF TypeOK, SimTypeOK, HelloInv, FirstDue
<1>2. p \in HonestPackets /\ p \in FreshPackets
  BY <1>1 DEF HonestPackets, FreshPackets, Packets
<1>3. b = IF up[n] = {} THEN <<>> ELSE <<p>>
  BY DEF BroadcastPacket
<1> HIDE DEF p
<1>4. b \in Seq(HonestPackets) /\ b \in Seq(FreshPackets)
  BY <1>2, <1>3
<1>5. \A x \in up[n] : InFlight(b, n, x, msg)
  <2> SUFFICES ASSUME NEW x \in up[n] PROVE InFlight(b, n, x, msg)
    OBVIOUS
  <2>1. b = <<p>> /\ Len(b) = 1 /\ b[1] = p
    BY <1>3
  <2> HIDE DEF b
  <2>2. 1 \in 1 .. Len(b) /\ b[1].from = n /\ b[1].msg = msg /\ x \in b[1].to
    BY <2>1 DEF p
  <2> QED BY <2>2 DEF InFlight
<1> HIDE DEF b
<1>6. /\ net \o b \in Seq(HonestPackets) /\ net' \in Seq(HonestPackets)
      /\ net \in Seq(FreshPackets) => net' \in Seq(FreshPackets)
  BY <1>1, <1>4 DEF b
<1>7. /\ \A f, x, g : InFlight(net, f, x, g) => InFlight(net', f, x, g)
      /\ \A x \in up[n] : InFlight(net', n, x, msg)
  <2>1. \A f, x, g : InFlight(net \o b, f, x, g) <=> InFlight(net, f, x, g) \/ InFlight(b, f, x, g)
    BY <1>1, <1>4, ConcatInFlight
  <2>2. \A f, x, g : InFlight(net', f, x, g) <=> InFlight(net \o b, f, x, g) \/ InFlight(extra, f, x, g)
    BY <1>6, ConcatInFlight DEF b
  <2> QED BY <1>5, <2>1, <2>2
<1>8. /\ FreshPackets' = FreshPackets /\ LiveLinks' = LiveLinks
      /\ \A x, y : Live(x, y)' <=> Live(x, y)
  BY DEF FreshPackets, LiveLinks, Live
<1>9. ASSUME NEW a \in Nodes
      PROVE  /\ age = Drain \/ (age = 2 /\ a \notin due') => heard'[a] \subseteq LiveLinks[a]
             /\ age = Drain /\ a \notin due' => neighborTable'[a] \subseteq LiveLinks[a]
  <2>1. /\ age = Drain \/ (age = 2 /\ a \notin due) => heard[a] \subseteq LiveLinks[a]
        /\ age = Drain /\ a \notin due => neighborTable[a] \subseteq LiveLinks[a]
    BY DEF HelloInv
  <2>2. CASE a # n
    BY <2>1, <2>2 DEF TypeOK
  <2>3. CASE a = n
    <3>1. heard'[a] = {} /\ neighborTable'[a] \subseteq heard[a]
      BY <2>3 DEF TypeOK, Expired
    <3> QED BY <2>1, <3>1
  <2> QED BY <2>2, <2>3
<1>10. ASSUME age >= 1, NEW a \in Nodes \ due', NEW x \in Nodes, Live(a, x)
       PROVE  HelloPending(a, x)'
  <2>1. CASE a = n
    <3>1. x \in up[n]
      BY <1>10, <2>1 DEF Live
    <3> QED BY <1>7, <3>1, <2>1 DEF HelloPending
  <2>2. CASE a # n
    <3>1. HelloPending(a, x)
      BY <1>1, <1>10, <2>2 DEF HelloInv
    <3> QED BY <1>7, <3>1 DEF HelloPending
  <2> QED BY <2>1, <2>2
<1> QED BY <1>6, <1>8, <1>9, <1>10 DEF HelloInv

(* At the start, nothing is in flight and nobody has a neighbour.          *)
LEMMA HelloInvInit == Init => HelloInv
BY DEF Init, SimInit, HelloInv, Drain

(* What the handlers send goes over working interfaces, in their own name. *)
LEMMA SentFresh ==
  ASSUME TypeOK, NEW n \in Nodes, NEW vector \in Vectors, NEW nbrs \in SUBSET Nodes, NEW rt
  PROVE  /\ SendDVTableMessage(n, vector, nbrs, rt) \in Seq(HonestPackets)
         /\ SendDVTableMessage(n, vector, nbrs, rt) \in Seq(FreshPackets)
<1> DEFINE m == [type |-> "DV_TABLE_MSG", orig |-> n, dv |-> vector, poisoned |-> Poisoned(rt)]
           p == [from |-> n, to |-> nbrs \cap up[n], msg |-> m]
<1>1. m \in Messages /\ m.orig = n
  BY DEF Messages, DVMessages, Poisoned, Vectors
<1>2. SendDVTableMessage(n, vector, nbrs, rt) = IF nbrs \cap up[n] = {} THEN <<>> ELSE <<p>>
  BY DEF SendDVTableMessage
<1> HIDE DEF m
<1>3. p \in HonestPackets /\ p \in FreshPackets
  BY <1>1 DEF HonestPackets, FreshPackets, Packets
<1> QED BY <1>2, <1>3

(* So does what BellmanFord triggers.                                      *)
LEMMA TriggeredFresh ==
  ASSUME TypeOK, NEW n \in Nodes, NEW vector \in Vectors, NEW ndv \in Vectors,
         costs'[n] \in SUBSET Nodes, vectors'[n] \in [Nodes -> Vectors]
  PROVE  LET bf   == RunBellmanFord(n, vector, ndv)
             sent == SendDVTableMessage(n, bf.dv, costs'[n], bf.rt)
         IN  /\ sent \in Seq(HonestPackets) /\ sent \in Seq(FreshPackets)
             /\ Triggered(n, bf) \in Seq(HonestPackets) /\ Triggered(n, bf) \in Seq(FreshPackets)
<1> DEFINE bf == RunBellmanFord(n, vector, ndv)
           sent == SendDVTableMessage(n, bf.dv, costs'[n], bf.rt)
<1>1. bf.dv \in Vectors
  BY BellmanFordProperties DEF RunBellmanFord
<1> HIDE DEF bf
<1>2. sent \in Seq(HonestPackets) /\ sent \in Seq(FreshPackets)
  BY <1>1, SentFresh
<1>3. Triggered(n, bf) = IF bf.sendDV THEN sent ELSE <<>>
  BY DEF Triggered
<1> HIDE DEF sent
<1>4. Triggered(n, bf) \in Seq(HonestPackets) /\ Triggered(n, bf) \in Seq(FreshPackets)
  BY <1>2, <1>3
<1> QED BY <1>2, <1>4 DEF bf, sent

(* The handlers of RecvDVMessage, each on the packet it takes.             *)
LEMMA HelloReceive ==
  ASSUME IInv, HelloInv, NEW n \in Nodes, NEW i \in 1 .. Len(net),
         ProcessHelloReq(n, i) \/ ProcessDVTableMessage(n, i)
  PROVE  HelloInv'
<1> DEFINE m == net[i].msg.orig
           w == InFlightWithout(i, n)
<1>1. TypeOK /\ m \in Nodes /\ w \in Seq(HonestPackets)
  BY ReceivedMessage, HelloTaken DEF IInv, HelloInv
<1>2. m = net[i].from
  BY DEF HelloInv, HonestPackets
<1> HIDE DEF m, w
<1>3. CASE RefreshNeighbor(n, i)
  <2> DEFINE extra == <<>>
  <2>1. /\ Arrives(i, n) /\ net[i].from \in up[n] /\ m \in neighborTable[n]
        /\ heard' = [heard EXCEPT ![n] = @ \cup {m}]
        /\ net' = w
        /\ UNCHANGED <<up, due, calm, age, neighborTable>>
    BY <1>3 DEF RefreshNeighbor, Receives, m, w, clock
  <2>2. net' = w \o extra /\ extra \in Seq(HonestPackets) /\ extra \in Seq(FreshPackets)
    BY <1>1, <2>1
  <2> HIDE DEF extra
  <2> QED BY <1>1, <1>2, <2>1, <2>2, HelloArrival DEF TypeOK, w
<1>4. CASE DiscoverNeighbor(n, i)
  <2> DEFINE bf == RunBellmanFord(n, Inserted(dv[n], m), EmptyVector)
             t == Triggered(n, bf)
             s == SendDVTableMessage(n, bf.dv, costs'[n], bf.rt)
             extra == t \o s
  <2>1. /\ Arrives(i, n) /\ net[i].from \in up[n]
        /\ neighborTable' = [neighborTable EXCEPT ![n] = @ \cup {m}]
        /\ heard' = [heard EXCEPT ![n] = @ \cup {m}]
        /\ vectors' = [vectors EXCEPT ![n][m] = EmptyVector]
        /\ costs' = [costs EXCEPT ![n] = @ \cup {m}]
        /\ net' = (w \o t) \o s
        /\ UNCHANGED <<up, due, calm, age>>
    BY <1>4 DEF DiscoverNeighbor, Receives, m, w, clock
  <2>2. Inserted(dv[n], m) \in Vectors /\ EmptyVector \in Vectors
    BY <1>1, LimitAssumption DEF TypeOK, Inserted, EmptyVector, Vectors, VectorCosts
  <2>3. costs'[n] \in SUBSET Nodes /\ vectors'[n] \in [Nodes -> Vectors]
    BY <1>1, <2>1, <2>2 DEF TypeOK, Vectors
  <2>4. /\ s \in Seq(HonestPackets) /\ s \in Seq(FreshPackets)
        /\ t \in Seq(HonestPackets) /\ t \in Seq(FreshPackets)
    BY <1>1, <2>2, <2>3, TriggeredFresh
  <2> HIDE DEF s, t
  <2>5. net' = w \o extra
    BY <1>1, <2>1, <2>4, ConcatAssociative
  <2>6. extra \in Seq(HonestPackets) /\ extra \in Seq(FreshPackets)
    BY <2>4
  <2> HIDE DEF extra
  <2>7. /\ \A a \in Nodes \ {n} : neighborTable'[a] = neighborTable[a] /\ heard'[a] = heard[a]
        /\ neighborTable'[n] = neighborTable[n] \cup {m} /\ heard'[n] = heard[n] \cup {m}
    BY <1>1, <2>1 DEF TypeOK
  <2> QED BY <1>1, <1>2, <2>1, <2>5, <2>6, <2>7, HelloArrival DEF w
<1>5. CASE ProcessDVTableMessage(n, i)
  <2> DEFINE newdv == CopyFor(n, net[i].msg.dv, net[i].msg.poisoned)
             bf == RunBellmanFord(n, dv[n], newdv)
             extra == Triggered(n, bf)
  <2>1. /\ Arrives(i, n) /\ net[i].from \in up[n] /\ net[i].msg.type = "DV_TABLE_MSG"
        /\ neighborTable' = [neighborTable EXCEPT ![n] = @ \cup {m}]
        /\ heard' = [heard EXCEPT ![n] = IF m \in neighborTable[n] THEN @ ELSE @ \cup {m}]
        /\ vectors' = [vectors EXCEPT ![n][m] = newdv]
        /\ costs' = costs
        /\ net' = w \o extra
        /\ UNCHANGED <<up, due, calm, age>>
    BY <1>5 DEF ProcessDVTableMessage, Receives, m, w, clock
  <2>2. newdv \in Vectors /\ dv[n] \in Vectors
    BY <1>1, <2>1, ReceivedMessage DEF TypeOK, Vectors
  <2> HIDE DEF newdv
  <2>3. costs'[n] \in SUBSET Nodes /\ vectors'[n] \in [Nodes -> Vectors]
    BY <1>1, <2>1, <2>2 DEF TypeOK, Vectors
  <2>4. extra \in Seq(HonestPackets) /\ extra \in Seq(FreshPackets)
    BY <1>1, <2>2, <2>3, TriggeredFresh
  <2> HIDE DEF extra
  <2>5. /\ \A a \in Nodes \ {n} : neighborTable'[a] = neighborTable[a] /\ heard'[a] = heard[a]
        /\ neighborTable'[n] = neighborTable[n] \cup {m} /\ heard'[n] \subseteq heard[n] \cup {m}
    BY <1>1, <2>1 DEF TypeOK
  <2> QED BY <1>1, <1>2, <2>1, <2>4, <2>5, HelloArrival DEF w
<1> QED BY <1>3, <1>4, <1>5 DEF ProcessHelloReq

(* The timer of one node.                                                  *)
LEMMA HelloTimer ==
  ASSUME IInv, HelloInv, NEW n \in Nodes, AuditHellos(n)
  PROVE  HelloInv'
<1> DEFINE lost == [d \in Nodes |-> IF d \in Expired(n) THEN INF ELSE dv[n][d]]
           bf == RunBellmanFord(n, lost, lost)
           msg == [type |-> "HELLO_REQ", orig |-> n]
<1>1. /\ FirstDue(n)
      /\ neighborTable' = [neighborTable EXCEPT ![n] = @ \ Expired(n)]
      /\ costs' = [costs EXCEPT ![n] = RemainingCosts(n)]
      /\ heard' = [heard EXCEPT ![n] = {}]
      /\ vectors' = [vectors EXCEPT ![n] =
           [m \in Nodes |-> IF m \in Expired(n) THEN EmptyVector ELSE @[m]]]
      /\ due' = due \ {n} /\ UNCHANGED <<up, calm, age>>
  BY DEF AuditHellos
<1>2. TypeOK /\ lost \in Vectors /\ EmptyVector \in Vectors
  BY DEF IInv, TypeOK, Vectors, VectorCosts, EmptyVector
<1>3. costs'[n] \in SUBSET Nodes /\ vectors'[n] \in [Nodes -> Vectors]
  BY <1>1, <1>2 DEF TypeOK, RemainingCosts, Vectors
<1>4. msg \in Messages /\ msg.type = "HELLO_REQ" /\ msg.orig = n
  BY DEF Messages
<1>5. SendHello(n) = BroadcastPacket(n, msg)
  BY DEF SendHello
<1> HIDE DEF msg
<1>6. PICK extra \in Seq(HonestPackets) :
        extra \in Seq(FreshPackets) /\ net' = (net \o BroadcastPacket(n, msg)) \o extra
  <2>1. CASE Expired(n) # {}
    <3> DEFINE t == Triggered(n, bf)
    <3>1. net' = (net \o BroadcastPacket(n, msg)) \o t
      BY <1>5, <2>1 DEF AuditHellos
    <3> HIDE DEF lost
    <3>2. t \in Seq(HonestPackets) /\ t \in Seq(FreshPackets)
      BY <1>2, <1>3, TriggeredFresh
    <3> QED BY <3>1, <3>2
  <2>2. CASE Expired(n) = {}
    <3> DEFINE e == <<>>
    <3>1. net' = net \o BroadcastPacket(n, msg)
      BY <1>5, <2>2 DEF AuditHellos
    <3>2. net \in Seq(Packets) /\ BroadcastPacket(n, msg) \in Seq(Packets)
      BY <1>2, <1>5, HelloType DEF TypeOK
    <3>3. net' = (net \o BroadcastPacket(n, msg)) \o e
      BY <3>1, <3>2
    <3>4. e \in Seq(HonestPackets) /\ e \in Seq(FreshPackets)
      OBVIOUS
    <3> HIDE DEF e
    <3> QED BY <3>3, <3>4
  <2> QED BY <2>1, <2>2
<1> QED BY <1>1, <1>2, <1>4, <1>6, HelloAudit

(* Hellos stay on their way until they have come, in every step.           *)
LEMMA HelloStep == IInv /\ HelloInv /\ [Next]_vars => HelloInv'
<1> SUFFICES ASSUME IInv, HelloInv, [Next]_vars PROVE HelloInv'
  OBVIOUS
<1>1. CASE Receive
  BY <1>1, HelloReceive DEF Receive
<1>2. ASSUME UNCHANGED <<up, net, due, calm, age, neighborTable, heard>>
      PROVE  HelloInv'
  <2>1. /\ FreshPackets' = FreshPackets /\ LiveLinks' = LiveLinks
        /\ \A a, b : (Live(a, b)' <=> Live(a, b)) /\ (HelloPending(a, b)' <=> HelloPending(a, b))
    BY <1>2 DEF FreshPackets, LiveLinks, Live, HelloPending
  <2> QED BY <1>2, <2>1 DEF HelloInv
<1>3. CASE Audit
  BY <1>2, <1>3, HelloTimer DEF Audit, AuditCrash, simVars
<1>4. CASE SimNext /\ UNCHANGED dvVars
  BY <1>4, HelloSim DEF dvVars, IInv
<1>5. CASE UNCHANGED vars
  BY <1>2, <1>5 DEF vars, simVars, dvVars
<1> QED BY <1>1, <1>3, <1>4, <1>5 DEF Next

(* In every network, whatever commands came before and whatever hellos     *)
(* they left in flight: three hello periods after the last one, every      *)
(* neighbour table has exactly the ends of the working links.              *)
THEOREM Discovery == Spec => []NeighborsSettled
<1>1. Init => IInv /\ HelloInv
  BY InitIInv, HelloInvInit
<1>2. IInv /\ HelloInv /\ [Next]_vars => IInv' /\ HelloInv'
  BY NextIInv, HelloStep
<1>3. IInv /\ HelloInv => NeighborsSettled
  <2> SUFFICES ASSUME IInv, HelloInv, Idle, age = Drain, NEW n \in Nodes
               PROVE  neighborTable[n] = LiveLinks[n]
    BY DEF NeighborsSettled
  <2>1. due = {} /\ net = <<>> /\ age >= 1
    BY DEF Idle, Drain
  <2>2. neighborTable[n] \subseteq LiveLinks[n]
    BY <2>1 DEF HelloInv
  <2>3. \A m : ~HelloPending(m, n)
    BY <2>1 DEF HelloPending, InFlight
  <2>4. LiveLinks[n] \subseteq neighborTable[n]
    BY <2>1, <2>3 DEF HelloInv, LiveLinks, Live
  <2> QED BY <2>2, <2>4
<1> QED BY <1>1, <1>2, <1>3, PTL DEF Spec

(***************************************************************************)
(* Nodes that agree about each other's vectors.                            *)
(***************************************************************************)
(* Costs v of reaching d, each of which is the least cost c of a           *)
(* neighbour plus one as long as that is no more than L.                   *)
AtFixedPoint(next, d, L, v, c) ==
  /\ v[d] = 0
  /\ \A n \in Nodes \ {d} :
       /\ \A m \in next[n] : v[m] \in 0 .. L => c[n] <= v[m] + 1
       /\ c[n] <= L =>
            v[n] = c[n] /\ \E m \in next[n] : v[m] \in 0 .. L /\ c[n] = v[m] + 1

(* They are distances where d can be reached.  Where it cannot, two        *)
(* neighbours with costs below L would each need a third that is cheaper   *)
(* than itself, and so on for ever: a part of the network that has lost d  *)
(* offers it at L or more.                                                 *)
LEMMA FixedPoint ==
  ASSUME NEW next \in GraphsOn(Nodes), \A x \in Nodes : \A y \in next[x] : x \in next[y],
         NEW d \in Nodes, NEW L \in 1 .. 16,
         NEW v \in [Nodes -> Int], NEW c \in [Nodes -> Nat],
         AtFixedPoint(next, d, L, v, c),
         \A n \in Nodes : Distance(next, n, d) \in 0 .. (L - 1) \cup {INF}
  PROVE  \A n \in Nodes :
           /\ Distance(next, n, d) # INF =>
                v[n] = Distance(next, n, d) /\ (n # d => c[n] = Distance(next, n, d))
           /\ Distance(next, n, d) = INF => c[n] >= L
<1> DEFINE D(x) == Distance(next, x, d)
<1> USE DEF AtFixedPoint
<1>1. IsFiniteSet(Nodes) /\ Cardinality(Nodes) < INF /\ INF \in Nat /\ 16 < INF
  <2>1. INF \in Nat /\ 16 < INF
    BY SMT DEF INF
  <2> QED BY <2>1, NodesAssumption
<1>2. \A n \in Nodes :
        /\ \A m \in next[n] : m \in Nodes /\ n \in next[m]
        /\ D(n) \in 0 .. (L - 1) \cup {INF}
        /\ \A m \in next[n] : D(m) # INF => D(n) # INF /\ D(n) <= D(m) + 1
        /\ n # d /\ D(n) # INF => D(n) >= 1 /\ \E m \in next[n] : D(m) = D(n) - 1
  <2> SUFFICES ASSUME NEW n \in Nodes
               PROVE  /\ \A m \in next[n] : m \in Nodes /\ n \in next[m]
                      /\ D(n) \in 0 .. (L - 1) \cup {INF}
                      /\ \A m \in next[n] : D(m) # INF => D(n) # INF /\ D(n) <= D(m) + 1
                      /\ n # d /\ D(n) # INF => D(n) >= 1 /\ \E m \in next[n] : D(m) = D(n) - 1
    OBVIOUS
  <2>1. \A m \in next[n] : m \in Nodes /\ n \in next[m]
    BY DEF GraphsOn
  <2>2. /\ \A m \in next[n] : D(m) # INF => D(n) # INF /\ D(n) <= D(m) + 1
        /\ n # d /\ D(n) # INF => D(n) >= 1 /\ \E m \in next[n] : D(m) = D(n) - 1
    BY <1>1, DistanceEquations
  <2> HIDE DEF D
  <2> QED BY <2>1, <2>2 DEF D
<1>3. D(d) = 0
  BY <1>1, DistanceRange
<1> HIDE DEF D
(* No cost is above the distance.                                          *)
<1>4. ASSUME NEW n \in Nodes, D(n) # INF PROVE v[n] \in 0 .. D(n)
  <2> DEFINE T == {k \in Nat : \A x \in Nodes : D(x) = k /\ k <= L - 1 => v[x] \in 0 .. k}
  <2>1. 0 \in T
    <3> SUFFICES ASSUME NEW x \in Nodes, D(x) = 0 PROVE v[x] \in 0 .. 0
      OBVIOUS
    <3>1. x = d
      BY <1>1, <1>2
    <3> QED BY <3>1
  <2>2. ASSUME NEW k \in Nat, k \in T PROVE k + 1 \in T
    <3> SUFFICES ASSUME NEW x \in Nodes, D(x) = k + 1, k + 1 <= L - 1
                 PROVE  v[x] \in 0 .. (k + 1)
      OBVIOUS
    <3>1. x # d /\ D(x) # INF
      BY <1>1, <1>3
    <3>2. PICK m \in next[x] : D(m) = D(x) - 1
      BY <1>2, <3>1
    <3>3. m \in Nodes /\ D(m) = k /\ k <= L - 1
      BY <1>2, <3>2
    <3>4. v[m] \in 0 .. k
      BY <2>2, <3>3
    <3>5. v[m] \in 0 .. L /\ c[x] \in Nat
      BY <3>3, <3>4
    <3>6. c[x] <= v[m] + 1
      BY <3>1, <3>2, <3>5
    <3>7. c[x] <= k + 1 /\ c[x] <= L
      BY <3>4, <3>5, <3>6
    <3>8. v[x] = c[x]
      BY <3>1, <3>7
    <3> QED BY <3>5, <3>7, <3>8
  <2> HIDE DEF T
  <2>3. \A k \in Nat : k \in T
    BY <2>1, <2>2, SetInduction
  <2>4. D(n) \in Nat /\ D(n) <= L - 1
    BY <1>2, <1>4
  <2> QED BY <2>3, <2>4 DEF T
(* A node that reaches d, other than d, has the cost of a cheaper neighbour.*)
<1>5. ASSUME NEW n \in Nodes \ {d}, D(n) # INF
      PROVE  c[n] <= L /\ v[n] = c[n]
  <2>1. PICK m \in next[n] : D(m) = D(n) - 1
    BY <1>2, <1>5
  <2>2. D(n) \in 1 .. (L - 1)
    BY <1>2, <1>5
  <2>3. m \in Nodes /\ D(m) # INF /\ D(m) \in Nat
    BY <1>1, <1>2, <2>1, <2>2
  <2>4. v[m] \in 0 .. D(m)
    BY <1>4, <2>3
  <2>5. v[m] \in 0 .. L /\ v[m] + 1 <= L /\ c[n] \in Nat
    BY <2>1, <2>2, <2>3, <2>4
  <2>6. c[n] <= v[m] + 1
    BY <2>1, <2>5
  <2>7. c[n] <= L
    BY <2>5, <2>6
  <2> QED BY <2>7
(* No cost is below it.                                                    *)
<1>6. ASSUME NEW n \in Nodes, D(n) # INF PROVE D(n) <= v[n]
  <2> DEFINE T == {k \in Nat : \A x \in Nodes : D(x) # INF /\ v[x] = k => D(x) <= k}
  <2>1. ASSUME NEW k \in Nat, \A j \in Nat : j + 1 = k => j \in T PROVE k \in T
    <3> SUFFICES ASSUME NEW x \in Nodes, D(x) # INF, v[x] = k PROVE D(x) <= k
      OBVIOUS
    <3>1. CASE x = d
      BY <1>3, <3>1
    <3>2. CASE x # d
      <4>1. c[x] <= L /\ v[x] = c[x]
        BY <1>5, <3>2
      <4>2. PICK m \in next[x] : v[m] \in 0 .. L /\ c[x] = v[m] + 1
        BY <3>2, <4>1
      <4>3. m \in Nodes /\ x \in next[m]
        BY <1>2, <4>2
      <4>4. D(m) # INF
        BY <1>2, <4>3
      <4>5. v[m] \in Nat /\ v[m] + 1 = k
        BY <4>1, <4>2
      <4>6. D(m) <= v[m]
        BY <2>1, <4>3, <4>4, <4>5
      <4>7. D(x) <= D(m) + 1
        BY <1>2, <4>2, <4>4
      <4>8. D(m) \in Nat /\ D(x) \in Nat
        BY <1>2, <4>3, <4>4
      <4> QED BY <4>5, <4>6, <4>7, <4>8
    <3> QED BY <3>1, <3>2
  <2> HIDE DEF T
  <2>2. 0 \in T
    BY <2>1
  <2>3. ASSUME NEW k \in Nat, k \in T PROVE k + 1 \in T
    BY <2>1, <2>3
  <2>4. \A k \in Nat : k \in T
    BY <2>2, <2>3, SetInduction
  <2>5. v[n] \in Nat
    BY <1>2, <1>4, <1>6
  <2> QED BY <1>6, <2>4, <2>5 DEF T
(* Where d cannot be reached, no two neighbours have costs below L.        *)
<1>7. ASSUME NEW n \in Nodes, D(n) = INF PROVE c[n] >= L
  <2> DEFINE Cheap(x) == v[x] \in 0 .. (L - 1)
             T == {k \in Nat : \A x \in Nodes : ~ /\ D(x) = INF /\ Cheap(x) /\ v[x] = k
                                                  /\ \E y \in next[x] : Cheap(y)}
  <2>1. ASSUME NEW k \in Nat, \A j \in Nat : j + 1 = k => j \in T PROVE k \in T
    <3> SUFFICES ASSUME NEW x \in Nodes, D(x) = INF, Cheap(x), v[x] = k,
                        NEW y \in next[x], Cheap(y)
                 PROVE  FALSE
      OBVIOUS
    <3>1. x # d /\ y \in Nodes /\ c[x] \in Nat
      BY <1>1, <1>2, <1>3
    <3>2. c[x] <= v[y] + 1
      BY <3>1
    <3>3. c[x] <= L
      BY <3>1, <3>2
    <3>4. v[x] = c[x] /\ \E m \in next[x] : v[m] \in 0 .. L /\ c[x] = v[m] + 1
      BY <3>1, <3>3
    <3>5. PICK m \in next[x] : v[m] \in 0 .. L /\ c[x] = v[m] + 1
      BY <3>4
    <3>6. m \in Nodes /\ x \in next[m]
      BY <1>2, <3>5
    <3>7. D(m) = INF
      BY <1>2, <3>5
    <3>8. v[m] \in Nat /\ v[m] + 1 = k /\ Cheap(m)
      BY <3>4, <3>5
    <3>9. v[m] \in T
      BY <2>1, <3>8
    <3> QED BY <3>6, <3>7, <3>8, <3>9
  <2>2. ASSUME c[n] < L PROVE FALSE
    <3>1. n # d /\ c[n] \in Nat /\ c[n] <= L
      BY <1>1, <1>3, <1>7, <2>2
    <3>2. v[n] = c[n] /\ \E m \in next[n] : v[m] \in 0 .. L /\ c[n] = v[m] + 1
      BY <3>1
    <3>3. Cheap(n)
      BY <2>2, <3>1, <3>2
    <3>4. PICK m \in next[n] : Cheap(m)
      BY <2>2, <3>2
    <3>5. v[n] \notin T
      BY <1>7, <3>3, <3>4
    <3>6. v[n] \in Nat
      BY <3>1, <3>2
    <3> HIDE DEF T
    <3>7. 0 \in T
      BY <2>1
    <3>8. ASSUME NEW k \in Nat, k \in T PROVE k + 1 \in T
      BY <2>1, <3>8
    <3>9. \A k \in Nat : k \in T
      BY <3>7, <3>8, SetInduction
    <3> QED BY <3>5, <3>6, <3>9
  <2>3. c[n] \in Nat
    OBVIOUS
  <2> QED BY <2>2, <2>3
<1>8. ASSUME NEW n \in Nodes, D(n) # INF
      PROVE  v[n] = D(n) /\ (n # d => c[n] = D(n))
  <2>1. v[n] \in 0 .. D(n) /\ D(n) <= v[n] /\ D(n) \in Nat
    BY <1>2, <1>4, <1>6, <1>8
  <2>2. v[n] = D(n)
    BY <2>1
  <2> QED BY <1>5, <1>8, <2>2
<1> QED BY <1>7, <1>8 DEF D

(* What BellmanFord leaves behind: no cost for the node itself, an entry   *)
(* for every destination that a neighbour has one for, and the vector and  *)
(* the routes that go with what the neighbours offer; only a cost above    *)
(* the limit leaves the old one in place.                                  *)
Computed(n, vector, cs, vs, rt) ==
  /\ vector[n] = 0
  /\ \A m, d \in Nodes : vs[m][d] # NoCost => vector[d] # NoCost
  /\ \A d \in Nodes \ {n} :
       LET c == MinCost(cs, vs, d)
       IN  /\ c <= Limit => vector[d] = c
           /\ rt[d] = IF c < Limit THEN [nextHop |-> NextHop(cs, vs, d), cost |-> c]
                                   ELSE NoRoute

(* This is what BellmanFord computes from whatever is known of the         *)
(* neighbours.                                                             *)
LEMMA BellmanFordComputes ==
  ASSUME NEW n \in Nodes, NEW vector \in Vectors, NEW cs \in SUBSET Nodes,
         NEW vs \in [Nodes -> Vectors], NEW ndv \in Vectors,
         vector[n] = 0,
         \A m, d \in Nodes : vs[m][d] # NoCost => vector[d] # NoCost \/ ndv[d] # NoCost
  PROVE  LET bf == BellmanFord(n, vector, cs, vs, ndv)
         IN  Computed(n, bf.dv, cs, vs, bf.rt)
<1> DEFINE bf == BellmanFord(n, vector, cs, vs, ndv)
           known == [d \in Nodes |->
                       IF vector[d] = NoCost /\ ndv[d] # NoCost THEN INF ELSE vector[d]]
           changed == Changed(n, known, cs, vs)
           min(d) == MinCost(cs, vs, d)
           hop(d) == NextHop(cs, vs, d)
           rt == [d \in Nodes |->
                    IF known[d] = NoCost THEN NoRoute
                    ELSE IF d = n THEN [nextHop |-> n, cost |-> 0]
                    ELSE IF min(d) < Limit
                    THEN [nextHop |-> hop(d), cost |-> min(d)]
                    ELSE NoRoute]
           newdv == [d \in Nodes |-> IF d \in changed THEN min(d) ELSE known[d]]
<1>1. bf = [dv |-> newdv, rt |-> rt, sendDV |-> changed # {}]
  BY DEF BellmanFord
<1>2. bf.dv = newdv /\ bf.rt = rt
  <2> HIDE DEF newdv, rt
  <2> QED BY <1>1
<1>3. INF \in Nat /\ 16 < INF /\ NoCost # 0 /\ INF # NoCost /\ Limit \in 1 .. 16
  <2>1. INF \in Nat /\ 16 < INF /\ INF # NoCost
    BY SMT DEF INF, NoCost
  <2> QED BY <2>1, LimitAssumption DEF NoCost
<1>4. known[n] = 0 /\ n \notin changed
  BY <1>3 DEF Changed
<1>5. \A m, d \in Nodes : vs[m][d] # NoCost => known[d] # NoCost
  BY <1>3
<1>6. \A d \in Nodes : min(d) \in Nat /\ (min(d) < INF => Offering(cs, vs, d) # {})
  BY MinCostProperties
<1>7. \A d \in Nodes : Offering(cs, vs, d) # {} => known[d] # NoCost
  BY <1>5 DEF Offering
<1>8. \A d \in Nodes : min(d) <= Limit => known[d] # NoCost /\ Offering(cs, vs, d) # {}
  <2> HIDE DEF known, min
  <2> QED BY <1>3, <1>6, <1>7
<1>9. \A d \in Nodes \ {n} : min(d) <= Limit => d \in changed \/ known[d] = min(d)
  BY <1>8 DEF Changed
<1>10. \A d \in changed : min(d) \in Nat /\ d \in Nodes
  BY <1>6 DEF Changed
<1> HIDE DEF known, changed, min, hop
<1>11. newdv[n] = 0
  BY <1>4
<1>12. \A m, d \in Nodes : vs[m][d] # NoCost => newdv[d] # NoCost
  <2>1. NoCost \notin Nat
    BY DEF NoCost
  <2> QED BY <1>5, <1>10, <2>1
<1>13. \A d \in Nodes \ {n} :
         /\ min(d) <= Limit => newdv[d] = min(d)
         /\ rt[d] = IF min(d) < Limit THEN [nextHop |-> hop(d), cost |-> min(d)] ELSE NoRoute
  <2> SUFFICES ASSUME NEW d \in Nodes \ {n}
               PROVE  /\ min(d) <= Limit => newdv[d] = min(d)
                      /\ rt[d] = IF min(d) < Limit
                                 THEN [nextHop |-> hop(d), cost |-> min(d)] ELSE NoRoute
    OBVIOUS
  <2>1. min(d) <= Limit => newdv[d] = min(d)
    BY <1>9
  <2>2. min(d) < Limit => known[d] # NoCost
    BY <1>3, <1>6, <1>8
  <2>3. rt[d] = IF known[d] = NoCost THEN NoRoute
                ELSE IF min(d) < Limit THEN [nextHop |-> hop(d), cost |-> min(d)]
                ELSE NoRoute
    OBVIOUS
  <2> QED BY <2>1, <2>2, <2>3
<1> HIDE DEF newdv, rt
<1>14. Computed(n, newdv, cs, vs, rt)
  BY <1>11, <1>12, <1>13 DEF Computed, min, hop
<1> QED BY <1>2, <1>14

(* At every node, and no node is its own neighbour.                        *)
InStep ==
  \A n \in Nodes :
    /\ n \notin up[n] /\ n \notin neighborTable[n]
    /\ Computed(n, dv[n], costs[n], vectors[n], routingTable[n])

(* At the start, a node knows itself only.                                 *)
LEMMA InStepInit == Init => InStep
<1> SUFFICES ASSUME Init, NEW n \in Nodes
             PROVE  /\ n \notin up[n] /\ n \notin neighborTable[n]
                    /\ Computed(n, dv[n], costs[n], vectors[n], routingTable[n])
  BY DEF InStep
<1>1. n \notin up[n] /\ n \notin neighborTable[n] /\ costs[n] = {} /\ dv[n][n] = 0
  BY DEF Init, SimInit, Adjacent, EmptyVector
<1>2. \A m, d \in Nodes : vectors[n][m][d] = NoCost /\ routingTable[n][d] = NoRoute
  BY DEF Init, EmptyVector
<1>3. INF \in Nat /\ 16 < INF /\ Limit \in 1 .. 16
  <2>1. INF \in Nat /\ 16 < INF
    BY SMT DEF INF
  <2> QED BY <2>1, LimitAssumption
<1>4. \A d \in Nodes : MinCost(costs[n], vectors[n], d) = INF
  <2> SUFFICES ASSUME NEW d \in Nodes PROVE MinCost(costs[n], vectors[n], d) = INF
    OBVIOUS
  <2>1. Offering(costs[n], vectors[n], d) = {}
    BY <1>1 DEF Offering
  <2>2. MinCost(costs[n], vectors[n], d) = CHOOSE c \in {INF} : \A o \in {INF} : c <= o
    BY <2>1 DEF MinCost
  <2> QED BY <1>3, <2>2
<1> QED BY <1>1, <1>2, <1>3, <1>4 DEF Computed

(* Every destination in the vectors vs is one of vector or of ndv.         *)
Covered(vs, vector, ndv) ==
  \A m, d \in Nodes : vs[m][d] # NoCost => vector[d] # NoCost \/ ndv[d] # NoCost

KeepsOthers(n) ==
  \A a \in Nodes \ {n} :
    /\ costs'[a] = costs[a] /\ vectors'[a] = vectors[a]
    /\ neighborTable'[a] = neighborTable[a]

(* A node installs what BellmanFord returns.                               *)
LEMMA InStepInstall ==
  ASSUME TypeOK, InStep, NEW n \in Nodes, NEW vector \in Vectors, NEW ndv \in Vectors,
         costs'[n] \in SUBSET Nodes, vectors'[n] \in [Nodes -> Vectors],
         KeepsOthers(n), n \notin neighborTable'[n], up' = up,
         vector[n] = 0, Covered(vectors'[n], vector, ndv),
         Install(n, RunBellmanFord(n, vector, ndv))
  PROVE  InStep'
<1> DEFINE bf == RunBellmanFord(n, vector, ndv)
<1>1. Computed(n, bf.dv, costs'[n], vectors'[n], bf.rt)
  BY BellmanFordComputes DEF RunBellmanFord, Covered
<1> HIDE DEF bf
<1>2. /\ dv'[n] = bf.dv /\ routingTable'[n] = bf.rt
      /\ \A a \in Nodes \ {n} : dv'[a] = dv[a] /\ routingTable'[a] = routingTable[a]
  BY DEF Install, bf, TypeOK
<1>3. ASSUME NEW a \in Nodes
      PROVE  /\ a \notin up'[a] /\ a \notin neighborTable'[a]
             /\ Computed(a, dv'[a], costs'[a], vectors'[a], routingTable'[a])
  <2>1. CASE a = n
    BY <1>1, <1>2, <2>1 DEF InStep
  <2>2. CASE a # n
    BY <1>2, <2>2 DEF InStep, KeepsOthers
  <2> QED BY <2>1, <2>2
<1> QED BY <1>3 DEF InStep, Computed

(* Steps that leave the tables alone.                                      *)
LEMMA InStepKept ==
  ASSUME InStep, UNCHANGED <<dv, costs, vectors, routingTable, neighborTable>>,
         \A n \in Nodes : n \notin up'[n]
  PROVE  InStep'
BY DEF InStep, Computed

(* No command turns an interface of a node to the node itself.             *)
LEMMA NoSelfLinks ==
  ASSUME SimTypeOK, \A n \in Nodes : n \notin up[n], SimNext
  PROVE  \A n \in Nodes : n \notin up'[n]
<1>1. ASSUME NEW a \in Nodes, NEW b \in Nodes, NEW isUp, LinkOperation(a, b, isUp)
      PROVE  \A n \in Nodes : n \notin up'[n]
  BY <1>1 DEF LinkOperation, SetInterfaces
<1>2. ASSUME NEW a \in Nodes, NEW isUp, AllInterfacesOperation(a, isUp)
      PROVE  \A n \in Nodes : n \notin up'[n]
  <2>1. up' = [up EXCEPT ![a] = IF isUp THEN Adjacent(a) ELSE {}]
    BY <1>2 DEF AllInterfacesOperation, SetInterfaces
  <2> QED BY <2>1 DEF SimTypeOK, Adjacent
<1>3. up' = up \/ (\E a, b \in Nodes, isUp \in BOOLEAN : LinkOperation(a, b, isUp))
               \/ (\E a \in Nodes, isUp \in BOOLEAN : AllInterfacesOperation(a, isUp))
  BY DEF SimNext, DropPacket, Settle, HelloInstant
<1> QED BY <1>1, <1>2, <1>3

(* RecvDVMessage: who is told something new runs BellmanFord.              *)
LEMMA InStepReceive ==
  ASSUME IInv, HelloInv, InStep, NEW n \in Nodes, NEW i \in 1 .. Len(net),
         ProcessHelloReq(n, i) \/ ProcessDVTableMessage(n, i)
  PROVE  InStep'
<1> DEFINE m == net[i].msg.orig
<1>1. TypeOK /\ m \in Nodes /\ m = net[i].from /\ m \in up[n] /\ up' = up
  <2>1. net[i] \in HonestPackets /\ m \in Nodes
    BY ReceivedMessage DEF HelloInv, IInv
  <2> QED BY <2>1 DEF IInv, HonestPackets, ProcessHelloReq, RefreshNeighbor, DiscoverNeighbor,
              ProcessDVTableMessage, Receives
<1>2. m # n
  BY <1>1 DEF InStep
<1> HIDE DEF m
<1>3. /\ n \notin neighborTable[n] /\ dv[n][n] = 0 /\ dv[n] \in Vectors
      /\ \A k, d \in Nodes : vectors[n][k][d] # NoCost => dv[n][d] # NoCost
  BY <1>1 DEF InStep, Computed, TypeOK, Vectors
<1>4. CASE RefreshNeighbor(n, i)
  BY <1>4, InStepKept DEF RefreshNeighbor, InStep
<1>5. CASE DiscoverNeighbor(n, i)
  <2> DEFINE vector == Inserted(dv[n], m)
             bf == RunBellmanFord(n, vector, EmptyVector)
  <2>1. /\ neighborTable' = [neighborTable EXCEPT ![n] = @ \cup {m}]
        /\ vectors' = [vectors EXCEPT ![n][m] = EmptyVector]
        /\ costs' = [costs EXCEPT ![n] = @ \cup {m}]
        /\ Install(n, bf)
    BY <1>5 DEF DiscoverNeighbor, m
  <2>2. vector \in Vectors /\ EmptyVector \in Vectors
    BY <1>1, <1>3, LimitAssumption DEF Inserted, EmptyVector, Vectors, VectorCosts
  <2>3. costs'[n] \in SUBSET Nodes /\ vectors'[n] \in [Nodes -> Vectors]
    BY <1>1, <2>1, <2>2 DEF TypeOK, Vectors
  <2>4. vector[n] = 0 /\ \A d \in Nodes : dv[n][d] # NoCost => vector[d] # NoCost
    BY <1>1, <1>2, <1>3 DEF Inserted, Vectors, NoCost
  <2>5. Covered(vectors'[n], vector, EmptyVector)
    <3>1. \A k \in Nodes : vectors'[n][k] = IF k = m THEN EmptyVector ELSE vectors[n][k]
      BY <1>1, <2>1 DEF TypeOK
    <3>2. \A d \in Nodes : EmptyVector[d] = NoCost
      BY DEF EmptyVector
    <3> QED BY <1>3, <2>4, <3>1, <3>2 DEF Covered
  <2>6. KeepsOthers(n)
    BY <1>1, <2>1 DEF TypeOK, KeepsOthers
  <2>7. n \notin neighborTable'[n]
    BY <1>1, <1>2, <1>3, <2>1 DEF TypeOK
  <2> HIDE DEF vector
  <2> QED BY <1>1, <2>1, <2>2, <2>3, <2>4, <2>5, <2>6, <2>7, InStepInstall
<1>6. CASE ProcessDVTableMessage(n, i)
  <2> DEFINE newdv == CopyFor(n, net[i].msg.dv, net[i].msg.poisoned)
             vector == dv[n]
  <2>1. /\ neighborTable' = [neighborTable EXCEPT ![n] = @ \cup {m}]
        /\ vectors' = [vectors EXCEPT ![n][m] = newdv]
        /\ costs' = costs
        /\ Install(n, RunBellmanFord(n, vector, newdv))
    BY <1>6 DEF ProcessDVTableMessage, m
  <2>2. newdv \in Vectors
    BY <1>1, <1>6, ReceivedMessage DEF ProcessDVTableMessage, Receives
  <2> HIDE DEF newdv
  <2>3. costs'[n] \in SUBSET Nodes /\ vectors'[n] \in [Nodes -> Vectors]
    BY <1>1, <2>1, <2>2 DEF TypeOK, Vectors
  <2>4. Covered(vectors'[n], vector, newdv)
    <3>1. \A k \in Nodes : vectors'[n][k] = IF k = m THEN newdv ELSE vectors[n][k]
      BY <1>1, <2>1 DEF TypeOK
    <3> QED BY <1>3, <3>1 DEF Covered
  <2>5. KeepsOthers(n)
    BY <1>1, <2>1 DEF TypeOK, KeepsOthers
  <2>6. n \notin neighborTable'[n]
    BY <1>1, <1>2, <1>3, <2>1 DEF TypeOK
  <2>7. vector \in Vectors /\ vector[n] = 0
    BY <1>3
  <2> HIDE DEF vector
  <2> QED BY <1>1, <2>1, <2>2, <2>3, <2>4, <2>5, <2>6, <2>7, InStepInstall
<1> QED BY <1>4, <1>5, <1>6 DEF ProcessHelloReq

(* AuditHellos runs BellmanFord when a neighbour has expired.              *)
LEMMA InStepAudit ==
  ASSUME IInv, InStep, NEW n \in Nodes, AuditHellos(n)
  PROVE  InStep'
<1> DEFINE lost == [d \in Nodes |-> IF d \in Expired(n) THEN INF ELSE dv[n][d]]
           bf == RunBellmanFord(n, lost, lost)
<1>1. /\ neighborTable' = [neighborTable EXCEPT ![n] = @ \ Expired(n)]
      /\ costs' = [costs EXCEPT ![n] = RemainingCosts(n)]
      /\ vectors' = [vectors EXCEPT ![n] =
           [m \in Nodes |-> IF m \in Expired(n) THEN EmptyVector ELSE @[m]]]
      /\ up' = up
  BY DEF AuditHellos
<1>2. TypeOK /\ lost \in Vectors /\ EmptyVector \in Vectors
  BY DEF IInv, TypeOK, Vectors, VectorCosts, EmptyVector
<1>3. /\ n \notin neighborTable[n] /\ dv[n][n] = 0
      /\ \A k, d \in Nodes : vectors[n][k][d] # NoCost => dv[n][d] # NoCost
  BY DEF InStep, Computed
<1>4. INF # NoCost
  BY SMT DEF INF, NoCost
<1>5. lost[n] = 0 /\ \A d \in Nodes : dv[n][d] # NoCost => lost[d] # NoCost
  BY <1>3, <1>4 DEF Expired
<1> HIDE DEF lost
<1>6. costs'[n] \in SUBSET Nodes /\ vectors'[n] \in [Nodes -> Vectors]
  BY <1>1, <1>2 DEF TypeOK, RemainingCosts, Vectors
<1>7. Covered(vectors'[n], lost, lost)
  <2>1. \A k \in Nodes : vectors'[n][k] = IF k \in Expired(n) THEN EmptyVector ELSE vectors[n][k]
    BY <1>1, <1>2 DEF TypeOK
  <2>2. \A d \in Nodes : EmptyVector[d] = NoCost
    BY DEF EmptyVector
  <2> QED BY <1>3, <1>5, <2>1, <2>2 DEF Covered
<1>8. KeepsOthers(n)
  BY <1>1, <1>2 DEF TypeOK, KeepsOthers
<1>9. n \notin neighborTable'[n]
  BY <1>1, <1>2, <1>3 DEF TypeOK
<1>10. CASE Install(n, bf)
  BY <1>1, <1>2, <1>5, <1>6, <1>7, <1>8, <1>9, <1>10, InStepInstall
<1>11. CASE Expired(n) = {} /\ UNCHANGED <<dv, routingTable>>
  <2>1. costs' = costs /\ vectors' = vectors /\ neighborTable' = neighborTable
    BY <1>1, <1>2, <1>11 DEF TypeOK, RemainingCosts
  <2> QED BY <1>1, <1>11, <2>1, InStepKept DEF InStep
<1> QED BY <1>10, <1>11 DEF AuditHellos, lost

(* No node is ever out of step with what it knows.                         *)
LEMMA InStepStep == IInv /\ HelloInv /\ InStep /\ [Next]_vars => InStep'
<1> SUFFICES ASSUME IInv, HelloInv, InStep, [Next]_vars PROVE InStep'
  OBVIOUS
<1>1. CASE Receive
  BY <1>1, InStepReceive DEF Receive
<1>2. ASSUME NEW n \in Nodes, AuditCrash(n) PROVE InStep'
  BY <1>2, InStepKept DEF AuditCrash, simVars, InStep
<1>3. CASE Audit
  BY <1>2, <1>3, InStepAudit DEF Audit
<1>4. CASE SimNext /\ UNCHANGED dvVars
  BY <1>4, NoSelfLinks, InStepKept DEF dvVars, InStep, IInv, TypeOK
<1>5. CASE UNCHANGED vars
  BY <1>5, InStepKept DEF vars, simVars, dvVars, InStep
<1> QED BY <1>1, <1>3, <1>4, <1>5 DEF Next

(* What a cost is worth to a neighbour.                                    *)
LEMMA ExtendedCosts ==
  ASSUME NEW k \in VectorCosts
  PROVE  /\ k \in Int
         /\ k \in 0 .. Limit => Extended(k) = k + 1
         /\ k # NoCost /\ Extended(k) < INF => k \in 0 .. Limit
BY LimitAssumption DEF VectorCosts, Extended, NoCost, INF

(* In a network whose nodes agree, the vectors are a fixed point.          *)
LEMMA SynchronizedShortest ==
  ASSUME IInv, InStep, Synchronized, WithinLimit
  PROVE  ShortestPaths
<1> SUFFICES ASSUME NEW n \in Nodes, NEW d \in Nodes \ {n}
             PROVE  LET r == routingTable[n][d]
                    IN  /\ r.cost = Distance(LiveLinks, n, d)
                        /\ r # NoRoute =>
                             /\ Live(n, r.nextHop)
                             /\ Distance(LiveLinks, r.nextHop, d) = r.cost - 1
  BY DEF ShortestPaths
<1> DEFINE D(x) == Distance(LiveLinks, x, d)
           min(x) == MinCost(costs[x], vectors[x], d)
           hop(x) == NextHop(costs[x], vectors[x], d)
           v == [x \in Nodes |-> dv[x][d]]
           c == [x \in Nodes |-> min(x)]
<1>1. TypeOK /\ dv \in [Nodes -> Vectors] /\ vectors \in [Nodes -> [Nodes -> Vectors]]
      /\ costs \in [Nodes -> SUBSET Nodes]
  BY DEF IInv, TypeOK, Vectors
<1>2. INF \in Nat /\ 16 < INF /\ Limit \in 1 .. 16 /\ NoCost = -1
  <2>1. INF \in Nat /\ 16 < INF
    BY SMT DEF INF
  <2> QED BY <2>1, LimitAssumption DEF NoCost
<1>3. /\ LiveLinks \in GraphsOn(Nodes)
      /\ \A x \in Nodes : \A y \in LiveLinks[x] : y \in Nodes /\ x \in LiveLinks[y] /\ Live(x, y)
  BY DEF GraphsOn, LiveLinks, Live
<1>4. \A x \in Nodes :
        /\ costs[x] = LiveLinks[x]
        /\ x # d => \A m \in costs[x] : SameCost(dv[m][d], vectors[x][m][d])
  BY DEF Synchronized
<1>5. \A x \in Nodes : min(x) \in Nat
  BY <1>1, MinCostProperties
(* What a neighbour offers below M_INF is what it has.                     *)
<1>6. ASSUME NEW x \in Nodes \ {d}, NEW m \in LiveLinks[x], dv[m][d] \in 0 .. Limit
      PROVE  min(x) <= dv[m][d] + 1
  <2>1. m \in costs[x] /\ m \in Nodes
    BY <1>3, <1>4
  <2>2. dv[m][d] # INF /\ dv[m][d] # NoCost
    BY <1>2, <1>6
  <2>3. vectors[x][m][d] = dv[m][d]
    <3>1. SameCost(dv[m][d], vectors[x][m][d])
      BY <1>4, <2>1
    <3> QED BY <2>2, <3>1 DEF SameCost
  <2>4. m \in Offering(costs[x], vectors[x], d)
    BY <2>1, <2>2, <2>3 DEF Offering
  <2>5. min(x) <= Extended(vectors[x][m][d])
    BY <1>1, <2>4, MinCostProperties
  <2>6. Extended(vectors[x][m][d]) = dv[m][d] + 1
    <3>1. vectors[x][m][d] \in VectorCosts
      BY <1>1, <2>1 DEF Vectors
    <3> QED BY <1>6, <2>3, <3>1, ExtendedCosts
  <2> QED BY <2>5, <2>6
<1>7. ASSUME NEW x \in Nodes \ {d}, min(x) <= Limit
      PROVE  /\ hop(x) \in LiveLinks[x]
             /\ dv[hop(x)][d] \in 0 .. Limit
             /\ min(x) = dv[hop(x)][d] + 1
  <2>1. min(x) < INF
    BY <1>2, <1>5, <1>7
  <2>2. hop(x) \in Offering(costs[x], vectors[x], d) /\ Extended(vectors[x][hop(x)][d]) = min(x)
    BY <1>1, <2>1, NextHopProperties
  <2> HIDE DEF hop, min
  <2>3. hop(x) \in costs[x] /\ hop(x) \in Nodes /\ vectors[x][hop(x)][d] # NoCost
    BY <1>1, <2>2 DEF Offering
  <2>4. vectors[x][hop(x)][d] \in VectorCosts
    BY <1>1, <2>3 DEF Vectors
  <2>5. vectors[x][hop(x)][d] \in 0 .. Limit /\ min(x) = vectors[x][hop(x)][d] + 1
    <3>1. vectors[x][hop(x)][d] \in 0 .. Limit
      BY <2>1, <2>2, <2>3, <2>4, ExtendedCosts
    <3> QED BY <2>2, <2>4, <3>1, ExtendedCosts
  <2>6. dv[hop(x)][d] = vectors[x][hop(x)][d]
    <3>1. SameCost(dv[hop(x)][d], vectors[x][hop(x)][d])
      BY <1>4, <2>3
    <3>2. vectors[x][hop(x)][d] # INF
      BY <1>2, <2>5
    <3> QED BY <2>3, <3>1, <3>2 DEF SameCost
  <2> QED BY <1>4, <2>3, <2>5, <2>6
<1>8. \A x \in Nodes \ {d} :
        /\ min(x) <= Limit => dv[x][d] = min(x)
        /\ routingTable[x][d] = IF min(x) < Limit
                                THEN [nextHop |-> hop(x), cost |-> min(x)] ELSE NoRoute
  BY DEF InStep, Computed
<1>9. dv[d][d] = 0
  BY DEF InStep, Computed
<1>10. v \in [Nodes -> Int] /\ c \in [Nodes -> Nat]
  <2>1. \A x \in Nodes : dv[x][d] \in Int
    <3>1. \A x \in Nodes : dv[x][d] \in VectorCosts
      BY <1>1 DEF Vectors
    <3> QED BY <3>1, ExtendedCosts
  <2> HIDE DEF min
  <2> QED BY <1>5, <2>1
<1> HIDE DEF min, hop
<1>11. AtFixedPoint(LiveLinks, d, Limit, v, c)
  <2>1. \A x \in Nodes \ {d} :
          /\ \A m \in LiveLinks[x] : v[m] \in 0 .. Limit => c[x] <= v[m] + 1
          /\ c[x] <= Limit =>
               v[x] = c[x] /\ \E m \in LiveLinks[x] : v[m] \in 0 .. Limit /\ c[x] = v[m] + 1
    BY <1>3, <1>6, <1>7, <1>8
  <2>2. v[d] = 0
    BY <1>9
  <2> HIDE DEF v, c
  <2> QED BY <2>1, <2>2 DEF AtFixedPoint
<1>13. \A x \in Nodes : Distance(LiveLinks, x, d) \in 0 .. (Limit - 1) \cup {INF}
  BY DEF WithinLimit
<1>14. \A x \in Nodes : v[x] = dv[x][d] /\ c[x] = min(x)
  OBVIOUS
<1> HIDE DEF v, c
<1>15. \A x \in Nodes :
         /\ D(x) # INF => v[x] = D(x) /\ (x # d => c[x] = D(x))
         /\ D(x) = INF => c[x] >= Limit
  <2> DEFINE G == LiveLinks
  <2>1. /\ G \in GraphsOn(Nodes) /\ d \in Nodes /\ Limit \in 1 .. 16
        /\ \A x \in Nodes : \A y \in G[x] : x \in G[y]
    BY <1>2, <1>3
  <2> HIDE DEF G
  <2>2. AtFixedPoint(G, d, Limit, v, c)
    BY <1>11 DEF G
  <2>3. \A x \in Nodes : Distance(G, x, d) \in 0 .. (Limit - 1) \cup {INF}
    BY <1>13 DEF G
  <2>4. \A x \in Nodes :
          /\ Distance(G, x, d) # INF =>
               v[x] = Distance(G, x, d) /\ (x # d => c[x] = Distance(G, x, d))
          /\ Distance(G, x, d) = INF => c[x] >= Limit
    BY <1>10, <2>1, <2>2, <2>3, FixedPoint
  <2> QED BY <2>4 DEF G
<1>16. \A h \in LiveLinks[n] : D(n) # INF => D(h) # INF
  <2> SUFFICES ASSUME NEW h \in LiveLinks[n], D(n) # INF PROVE D(h) # INF
    OBVIOUS
  <2>1. h \in Nodes /\ n \in LiveLinks[h]
    BY <1>3
  <2> QED BY <1>3, <2>1, NodesAssumption, DistanceEquations
<1>17. D(n) \in 0 .. (Limit - 1) \cup {INF}
  BY <1>13
<1> HIDE DEF D
<1>18. CASE D(n) # INF
  <2>1. min(n) = D(n) /\ min(n) < Limit
    BY <1>2, <1>14, <1>15, <1>17, <1>18
  <2>2. routingTable[n][d] = [nextHop |-> hop(n), cost |-> min(n)]
    BY <1>8, <2>1
  <2>3. min(n) <= Limit
    BY <1>2, <1>5, <2>1 DEF min
  <2>4. hop(n) \in LiveLinks[n] /\ hop(n) \in Nodes /\ min(n) = dv[hop(n)][d] + 1
    BY <1>3, <1>7, <2>3
  <2>5. dv[hop(n)][d] = D(hop(n))
    BY <1>14, <1>15, <1>16, <1>18, <2>4
  <2>6. D(n) \in Nat /\ D(hop(n)) = D(n) - 1
    <3>1. D(n) \in Nat
      BY <1>2, <1>17, <1>18
    <3>2. D(hop(n)) \in Int
      <4>1. dv[hop(n)][d] \in Int
        BY <1>10, <1>14, <2>4
      <4> QED BY <2>5, <4>1
    <3> QED BY <2>1, <2>4, <2>5, <3>1, <3>2
  <2>7. Live(n, hop(n))
    BY <1>3, <2>4
  <2> QED BY <2>1, <2>2, <2>6, <2>7 DEF D
<1>19. CASE D(n) = INF
  <2>1. min(n) >= Limit /\ min(n) \in Nat
    BY <1>5, <1>14, <1>15, <1>19 DEF min
  <2>2. ~(min(n) < Limit)
    BY <1>2, <2>1
  <2>3. routingTable[n][d] = NoRoute
    BY <1>8, <2>2
  <2> QED BY <1>19, <2>3 DEF NoRoute, D
<1> QED BY <1>18, <1>19

(* In every network, at every moment: nodes that agree about each other's  *)
(* vectors have the shortest paths in their routing tables, and no route   *)
(* to what they cannot reach.  Whatever happened before, stale costs do    *)
(* not survive agreement.                                                  *)
THEOREM Agreement == Spec => []SynchronizedRoutes
<1>1. Init => IInv /\ HelloInv /\ InStep
  BY InitIInv, HelloInvInit, InStepInit
<1>2. IInv /\ HelloInv /\ InStep /\ [Next]_vars => IInv' /\ HelloInv' /\ InStep'
  BY NextIInv, HelloStep, InStepStep
<1>3. IInv /\ InStep => SynchronizedRoutes
  BY SynchronizedShortest DEF SynchronizedRoutes
<1> QED BY <1>1, <1>2, <1>3, PTL DEF Spec

Settled == Idle /\ age = Drain

(***************************************************************************)
(* The messages on the way from one node to another.                       *)
(***************************************************************************)
HelloAt(q, k, m, x) == CopyAt(q, k, m, x) /\ q[k].msg.type = "HELLO_REQ"
VectorAt(q, k, m, x) == CopyAt(q, k, m, x) /\ q[k].msg.type = "DV_TABLE_MSG"

(* None carries a vector; the last one that does carries v; no vector      *)
(* comes before the first hello.                                           *)
NoVector(q, m, x) == \A k \in 1 .. Len(q) : ~VectorAt(q, k, m, x)
LastVector(q, m, x, v) ==
  \E k \in 1 .. Len(q) :
    /\ VectorAt(q, k, m, x) /\ q[k].msg.dv = v
    /\ \A j \in 1 .. Len(q) : j > k => ~VectorAt(q, j, m, x)
HelloFirst(q, m, x) ==
  \A k \in 1 .. Len(q) :
    VectorAt(q, k, m, x) => \E j \in 1 .. Len(q) : j < k /\ HelloAt(q, j, m, x)

KeepsVectors(q, w, m, x) ==
  /\ NoVector(q, m, x) => NoVector(w, m, x)
  /\ \A v : LastVector(q, m, x, v) => LastVector(w, m, x, v)
KeepsChannel(q, w, m, x) ==
  KeepsVectors(q, w, m, x) /\ (HelloFirst(q, m, x) => HelloFirst(w, m, x))

(* The copy taken off the network was for another pair of nodes.           *)
LEMMA OtherChannel ==
  ASSUME NEW q, NEW w, NEW i, NEW r, NEW f, InOrder(q, w, i, r, f),
         Len(q) \in Nat, Len(w) \in Nat,
         NEW m, NEW x, m # q[i].from \/ x # r
  PROVE  KeepsChannel(q, w, m, x)
<1>1. /\ \A a \in 1 .. Len(w) :
           CopyAt(w, a, m, x) <=> CopyAt(q, f[a], m, x) /\ ~(f[a] = i /\ x = r)
      /\ \A k \in 1 .. Len(q) :
           CopyAt(q, k, m, x) /\ ~(k = i /\ x = r) => \E a \in 1 .. Len(w) : f[a] = k
  BY DEF InOrder
<1>2. \A k : CopyAt(q, k, m, x) => ~(k = i /\ x = r)
  BY DEF CopyAt
<1>3. /\ f \in [1 .. Len(w) -> 1 .. Len(q)]
      /\ \A a, b \in 1 .. Len(w) : a < b => f[a] < f[b]
      /\ \A a \in 1 .. Len(w) : w[a].msg = q[f[a]].msg
      /\ \A a \in 1 .. Len(w) : CopyAt(w, a, m, x) <=> CopyAt(q, f[a], m, x)
      /\ \A k \in 1 .. Len(q) : CopyAt(q, k, m, x) => \E a \in 1 .. Len(w) : f[a] = k
  BY <1>1, <1>2 DEF InOrder
<1>4. /\ \A a \in 1 .. Len(w) : f[a] \in 1 .. Len(q)
      /\ \A a \in 1 .. Len(w) : VectorAt(w, a, m, x) <=> VectorAt(q, f[a], m, x)
      /\ \A a \in 1 .. Len(w) : HelloAt(w, a, m, x) <=> HelloAt(q, f[a], m, x)
      /\ \A k \in 1 .. Len(q) : VectorAt(q, k, m, x) => \E a \in 1 .. Len(w) : f[a] = k
      /\ \A k \in 1 .. Len(q) : HelloAt(q, k, m, x) => \E a \in 1 .. Len(w) : f[a] = k
  BY <1>3 DEF VectorAt, HelloAt
<1>5. \A a, b \in 1 .. Len(w) : f[a] < f[b] => a < b
  <2> SUFFICES ASSUME NEW a \in 1 .. Len(w), NEW b \in 1 .. Len(w), f[a] < f[b]
               PROVE  a < b
    OBVIOUS
  <2>1. f[a] \in Int /\ f[b] \in Int
    BY <1>4
  <2>2. CASE a = b
    BY <2>1, <2>2
  <2>3. CASE b < a
    <3>1. f[b] < f[a]
      BY <1>3, <2>3
    <3> QED BY <2>1, <3>1
  <2> QED BY <2>2, <2>3
<1>6. NoVector(q, m, x) => NoVector(w, m, x)
  BY <1>4 DEF NoVector
<1>7. ASSUME NEW v, LastVector(q, m, x, v) PROVE LastVector(w, m, x, v)
  <2>1. PICK k \in 1 .. Len(q) : /\ VectorAt(q, k, m, x) /\ q[k].msg.dv = v
                                 /\ \A j \in 1 .. Len(q) : j > k => ~VectorAt(q, j, m, x)
    BY <1>7 DEF LastVector
  <2>2. PICK a \in 1 .. Len(w) : f[a] = k
    BY <1>4, <2>1
  <2>3. VectorAt(w, a, m, x) /\ w[a].msg.dv = v
    BY <1>3, <1>4, <2>1, <2>2
  <2>4. ASSUME NEW b \in 1 .. Len(w), b > a PROVE ~VectorAt(w, b, m, x)
    <3>1. f[b] \in 1 .. Len(q) /\ f[b] > k
      BY <1>3, <1>4, <2>2, <2>4
    <3> QED BY <1>4, <2>1, <3>1
  <2> QED BY <2>3, <2>4 DEF LastVector
<1>8. ASSUME HelloFirst(q, m, x) PROVE HelloFirst(w, m, x)
  <2> SUFFICES ASSUME NEW a \in 1 .. Len(w), VectorAt(w, a, m, x)
               PROVE  \E b \in 1 .. Len(w) : b < a /\ HelloAt(w, b, m, x)
    BY DEF HelloFirst
  <2>1. PICK j \in 1 .. Len(q) : j < f[a] /\ HelloAt(q, j, m, x)
    BY <1>4, <1>8 DEF HelloFirst
  <2>2. PICK b \in 1 .. Len(w) : f[b] = j
    BY <1>4, <2>1
  <2> QED BY <1>4, <1>5, <2>1, <2>2
<1> QED BY <1>6, <1>7, <1>8 DEF KeepsChannel, KeepsVectors

(* The copy taken off was the first one from m to x: the vectors that are  *)
(* left are those that were sent later, if it was one, and if none is left *)
(* then it was the last.                                                   *)
LEMMA OwnChannel ==
  ASSUME NEW q, NEW w, NEW i \in 1 .. Len(q), NEW r, NEW f, InOrder(q, w, i, r, f),
         Len(q) \in Nat, Len(w) \in Nat, NEW m, m = q[i].from, r \in q[i].to,
         \A j \in 1 .. Len(q) : j < i => ~CopyAt(q, j, m, r)
  PROVE  /\ NoVector(q, m, r) => NoVector(w, m, r)
         /\ \A v : LastVector(q, m, r, v) =>
              \/ LastVector(w, m, r, v)
              \/ NoVector(w, m, r) /\ VectorAt(q, i, m, r) /\ q[i].msg.dv = v
         /\ HelloFirst(q, m, r) => ~VectorAt(q, i, m, r)
<1>1. /\ f \in [1 .. Len(w) -> 1 .. Len(q)]
      /\ \A a, b \in 1 .. Len(w) : a < b => f[a] < f[b]
      /\ \A a \in 1 .. Len(w) : w[a].msg = q[f[a]].msg
      /\ \A a \in 1 .. Len(w) : CopyAt(w, a, m, r) <=> CopyAt(q, f[a], m, r) /\ f[a] # i
      /\ \A k \in 1 .. Len(q) : CopyAt(q, k, m, r) /\ k # i => \E a \in 1 .. Len(w) : f[a] = k
  BY DEF InOrder
<1>2. /\ \A a \in 1 .. Len(w) : f[a] \in 1 .. Len(q)
      /\ \A a \in 1 .. Len(w) : VectorAt(w, a, m, r) <=> VectorAt(q, f[a], m, r) /\ f[a] # i
      /\ \A k \in 1 .. Len(q) : VectorAt(q, k, m, r) /\ k # i => \E a \in 1 .. Len(w) : f[a] = k
  BY <1>1 DEF VectorAt
<1>3. NoVector(q, m, r) => NoVector(w, m, r)
  BY <1>2 DEF NoVector
<1>4. ASSUME NEW v, LastVector(q, m, r, v)
      PROVE  \/ LastVector(w, m, r, v)
             \/ NoVector(w, m, r) /\ VectorAt(q, i, m, r) /\ q[i].msg.dv = v
  <2>1. PICK k \in 1 .. Len(q) : /\ VectorAt(q, k, m, r) /\ q[k].msg.dv = v
                                 /\ \A j \in 1 .. Len(q) : j > k => ~VectorAt(q, j, m, r)
    BY <1>4 DEF LastVector
  <2>2. CASE k # i
    <3>1. PICK a \in 1 .. Len(w) : f[a] = k
      BY <1>2, <2>1, <2>2
    <3>2. VectorAt(w, a, m, r) /\ w[a].msg.dv = v
      BY <1>1, <1>2, <2>1, <2>2, <3>1
    <3>3. ASSUME NEW b \in 1 .. Len(w), b > a PROVE ~VectorAt(w, b, m, r)
      <4>1. f[b] \in 1 .. Len(q) /\ f[b] > k
        BY <1>1, <1>2, <3>1, <3>3
      <4> QED BY <1>2, <2>1, <4>1
    <3> QED BY <3>2, <3>3 DEF LastVector
  <2>3. CASE k = i
    <3>1. ASSUME NEW a \in 1 .. Len(w), VectorAt(w, a, m, r) PROVE FALSE
      <4>1. f[a] \in 1 .. Len(q) /\ VectorAt(q, f[a], m, r) /\ f[a] # i
        BY <1>2, <3>1
      <4>2. f[a] < i \/ f[a] > i
        BY <4>1
      <4> QED BY <2>1, <2>3, <4>1, <4>2 DEF VectorAt
    <3> QED BY <2>1, <2>3, <3>1 DEF NoVector
  <2> QED BY <2>2, <2>3
<1>5. ASSUME HelloFirst(q, m, r) PROVE ~VectorAt(q, i, m, r)
  BY <1>5 DEF HelloFirst, HelloAt
<1> QED BY <1>3, <1>4, <1>5

(* Packets are sent after those in flight.                                 *)
LEMMA SentLater ==
  ASSUME NEW S, NEW q \in Seq(S), NEW e \in Seq(S), NEW m, NEW x
  PROVE  /\ NoVector(e, m, x) => KeepsChannel(q, q \o e, m, x)
         /\ \A v : LastVector(e, m, x, v) => LastVector(q \o e, m, x, v)
         /\ HelloFirst(q, m, x) /\ (\E k \in 1 .. Len(q) : HelloAt(q, k, m, x)) =>
              HelloFirst(q \o e, m, x)
<1> DEFINE w == q \o e
<1>1. /\ Len(w) = Len(q) + Len(e) /\ Len(q) \in Nat /\ Len(e) \in Nat
      /\ \A j \in 1 .. Len(q) + Len(e) : w[j] = IF j <= Len(q) THEN q[j] ELSE e[j - Len(q)]
  BY ConcatProperties
<1> HIDE DEF w
<1>2. \A j \in 1 .. Len(q) : /\ j \in 1 .. Len(w) /\ w[j] = q[j]
                             /\ VectorAt(w, j, m, x) <=> VectorAt(q, j, m, x)
                             /\ HelloAt(w, j, m, x) <=> HelloAt(q, j, m, x)
  BY <1>1 DEF VectorAt, HelloAt, CopyAt
<1>3. \A j \in 1 .. Len(w) : j > Len(q) =>
        /\ j - Len(q) \in 1 .. Len(e) /\ w[j] = e[j - Len(q)]
        /\ VectorAt(w, j, m, x) <=> VectorAt(e, j - Len(q), m, x)
  BY <1>1 DEF VectorAt, CopyAt
<1>4. ASSUME NoVector(e, m, x) PROVE KeepsChannel(q, w, m, x)
  <2>1. \A j \in 1 .. Len(w) : VectorAt(w, j, m, x) => j \in 1 .. Len(q) /\ VectorAt(q, j, m, x)
    <3> SUFFICES ASSUME NEW j \in 1 .. Len(w), VectorAt(w, j, m, x)
                 PROVE  j \in 1 .. Len(q) /\ VectorAt(q, j, m, x)
      OBVIOUS
    <3>1. ~(j > Len(q))
      BY <1>3, <1>4 DEF NoVector
    <3>2. j \in 1 .. Len(q)
      BY <1>1, <3>1
    <3> QED BY <1>2, <3>2
  <2>2. NoVector(q, m, x) => NoVector(w, m, x)
    BY <2>1 DEF NoVector
  <2>3. ASSUME NEW v, LastVector(q, m, x, v) PROVE LastVector(w, m, x, v)
    <3>1. PICK k \in 1 .. Len(q) : /\ VectorAt(q, k, m, x) /\ q[k].msg.dv = v
                                   /\ \A j \in 1 .. Len(q) : j > k => ~VectorAt(q, j, m, x)
      BY <2>3 DEF LastVector
    <3>2. k \in 1 .. Len(w) /\ VectorAt(w, k, m, x) /\ w[k].msg.dv = v
      BY <1>2, <3>1
    <3>3. \A j \in 1 .. Len(w) : j > k => ~VectorAt(w, j, m, x)
      BY <2>1, <3>1
    <3> QED BY <3>2, <3>3 DEF LastVector
  <2>4. ASSUME HelloFirst(q, m, x) PROVE HelloFirst(w, m, x)
    BY <1>2, <2>1, <2>4 DEF HelloFirst
  <2> QED BY <2>2, <2>3, <2>4 DEF KeepsChannel, KeepsVectors
<1>5. ASSUME NEW v, LastVector(e, m, x, v) PROVE LastVector(w, m, x, v)
  <2>1. PICK k \in 1 .. Len(e) : /\ VectorAt(e, k, m, x) /\ e[k].msg.dv = v
                                 /\ \A j \in 1 .. Len(e) : j > k => ~VectorAt(e, j, m, x)
    BY <1>5 DEF LastVector
  <2> DEFINE l == k + Len(q)
  <2>2. l \in 1 .. Len(w) /\ l > Len(q) /\ l - Len(q) = k
    BY <1>1
  <2> HIDE DEF l
  <2>3. VectorAt(w, l, m, x) /\ w[l].msg.dv = v
    BY <1>3, <2>1, <2>2
  <2>4. ASSUME NEW j \in 1 .. Len(w), j > l PROVE ~VectorAt(w, j, m, x)
    <3>1. j > Len(q) /\ j - Len(q) > k
      BY <1>1, <2>2, <2>4
    <3> QED BY <1>3, <2>1, <3>1
  <2> QED BY <2>2, <2>3, <2>4 DEF LastVector
<1>6. ASSUME HelloFirst(q, m, x), NEW k \in 1 .. Len(q), HelloAt(q, k, m, x)
      PROVE  HelloFirst(w, m, x)
  <2> SUFFICES ASSUME NEW j \in 1 .. Len(w), VectorAt(w, j, m, x)
               PROVE  \E l \in 1 .. Len(w) : l < j /\ HelloAt(w, l, m, x)
    BY DEF HelloFirst
  <2>1. CASE j <= Len(q)
    <3>1. j \in 1 .. Len(q)
      BY <1>1, <2>1
    <3> QED BY <1>2, <1>6, <3>1 DEF HelloFirst
  <2>2. CASE j > Len(q)
    <3>1. k \in 1 .. Len(w) /\ k < j /\ HelloAt(w, k, m, x)
      BY <1>1, <1>2, <1>6, <2>2
    <3> QED BY <3>1
  <2>3. j <= Len(q) \/ j > Len(q)
    BY <1>1
  <2> QED BY <2>1, <2>2, <2>3
<1> QED BY <1>4, <1>5, <1>6 DEF w

(* The packets with vector v that SendDVTableMessage makes at n, for those *)
(* of the neighbours S that n's interfaces face.                           *)
Updates(n, v, S) ==
  {p \in HonestPackets :
     p.from = n /\ p.to = S \cap up[n] /\ p.msg.type = "DV_TABLE_MSG" /\ p.msg.dv = v}

(* SendDVTableMessage sends those.                                         *)
LEMMA SentUpdates ==
  ASSUME TypeOK, NEW n \in Nodes, NEW v \in Vectors, NEW S \in SUBSET Nodes, NEW rt
  PROVE  /\ SendDVTableMessage(n, v, S, rt) \in Seq(Updates(n, v, S))
         /\ S \cap up[n] # {} => SendDVTableMessage(n, v, S, rt) # <<>>
<1> DEFINE msg == [type |-> "DV_TABLE_MSG", orig |-> n, dv |-> v, poisoned |-> Poisoned(rt)]
           p == [from |-> n, to |-> S \cap up[n], msg |-> msg]
<1>1. msg \in Messages /\ msg.orig = n /\ msg.type = "DV_TABLE_MSG" /\ msg.dv = v
  BY DEF Messages, DVMessages, Poisoned, Vectors
<1>2. SendDVTableMessage(n, v, S, rt) = IF S \cap up[n] = {} THEN <<>> ELSE <<p>>
  BY DEF SendDVTableMessage
<1> HIDE DEF msg
<1>3. p \in Updates(n, v, S)
  BY <1>1 DEF Updates, HonestPackets, Packets
<1> HIDE DEF p
<1> QED BY <1>2, <1>3

(* They concern their receivers only, and are the last word to them.       *)
LEMMA UpdatesSent ==
  ASSUME NEW n, NEW v, NEW S, NEW e \in Seq(Updates(n, v, S)), NEW m, NEW x
  PROVE  /\ m # n \/ x \notin S \/ x \notin up[n] => NoVector(e, m, x)
         /\ e # <<>> /\ m = n /\ x \in S /\ x \in up[n] => LastVector(e, m, x, v)
<1>1. Len(e) \in Nat /\ \A k \in 1 .. Len(e) : e[k] \in Updates(n, v, S)
  OBVIOUS
<1>2. m # n \/ x \notin S \/ x \notin up[n] => NoVector(e, m, x)
  BY <1>1 DEF NoVector, VectorAt, CopyAt, Updates
<1>3. ASSUME e # <<>>, m = n, x \in S, x \in up[n] PROVE LastVector(e, m, x, v)
  <2> DEFINE k == Len(e)
  <2>1. k \in 1 .. Len(e) /\ \A j \in 1 .. Len(e) : ~(j > k)
    BY <1>1, <1>3
  <2>2. VectorAt(e, k, m, x) /\ e[k].msg.dv = v
    BY <1>1, <1>3, <2>1 DEF VectorAt, CopyAt, Updates
  <2> QED BY <2>1, <2>2 DEF LastVector
<1> QED BY <1>2, <1>3

(***************************************************************************)
(* What the neighbours of a node know of its vector, when link commands    *)
(* come only once the network has settled.                                 *)
(***************************************************************************)
(* Someone who goes by w knows the vector v, except perhaps the cost to    *)
(* x; a neighbour that expired may still be thought to be one hop away,    *)
(* because AuditHellos puts M_INF in m_dv before BellmanFord looks for     *)
(* changes.                                                                *)
Known(v, x, w) ==
  \A d \in Nodes \ {x} : SameCost(v[d], w[d]) \/ (v[d] = INF /\ w[d] = 1)

(* What m last told x, or still has on its way to x, is what it has now.   *)
Told(m, x) ==
  \/ \E v \in Vectors : LastVector(net, m, x, v) /\ Known(dv[m], x, v)
  \/ NoVector(net, m, x) /\ m \in costs[x] /\ Known(dv[m], x, vectors[x][m])

(* Between the first instant after a command and the next command, for a   *)
(* link that works: a hello is on its way or has come, so nobody is lost;  *)
(* a vector goes to a neighbour only, and behind the hello that makes its  *)
(* sender one.                                                             *)
InTouch(m, x) ==
  /\ m \notin due => HelloPending(m, x) \/ (due = {} /\ m \in heard[x] /\ m \in costs[x])
  /\ x \in due /\ m \in costs[x] => m \in heard[x]
  /\ x \in costs[m] => Told(m, x)
  /\ x \notin costs[m] => NoVector(net, m, x)
  /\ m \notin costs[x] => HelloFirst(net, m, x)

(* The neighbours a node has heard, and those it has a cost for, are at    *)
(* the ends of working links from some instant on.                         *)
NoStrangers(n) ==
  /\ age >= 2 \/ (age = 1 /\ n \notin due) => heard[n] \subseteq LiveLinks[n]
  /\ age = Drain \/ (age = 2 /\ n \notin due) => costs[n] \subseteq LiveLinks[n]

(* Before the first instant after a command, everything is as it was left. *)
AsLeft(n) ==
  /\ heard[n] = costs[n]
  /\ \A m \in costs[n] : n \in costs[m] /\ Known(dv[m], n, vectors[n][m])

(* A neighbour behind a link that has failed had told of itself.           *)
Introduced(n) ==
  \A m \in costs[n] : Live(m, n) \/ vectors[n][m][m] = 0

Calm == (calm => net = <<>>) /\ (due # {} => ~calm) /\ (age = 0 => Idle)

AgreeInv ==
  /\ ~crashed /\ Calm
  /\ net \in Seq(FreshPackets)
  /\ \A n \in Nodes : neighborTable[n] = costs[n] /\ Introduced(n) /\ NoStrangers(n)
  /\ age = 0 => \A n \in Nodes : AsLeft(n)
  /\ age # 0 => \A m, x \in Nodes : Live(m, x) => InTouch(m, x)

(* At the start, no link has been used.                                    *)
LEMMA AgreeInit == Init => AgreeInv
BY DEF Init, SimInit, AgreeInv, Calm, Idle, Introduced, NoStrangers, AsLeft, Drain

(***************************************************************************)
(* A node that takes a packet.                                             *)
(***************************************************************************)
(* To others, the two vectors say the same.                                *)
SameVector(v, u) == \A d \in Nodes : u[d] = v[d] \/ (v[d] = NoCost /\ u[d] = INF)

(* What is known of a vector is known of one that says the same.           *)
LEMMA KnownVectors ==
  ASSUME NEW v \in Vectors, NEW x
  PROVE  /\ Known(v, x, v)
         /\ \A u, w : SameVector(v, u) /\ Known(v, x, w) => Known(u, x, w)
         /\ \A w, z : (\A d \in Nodes \ {x} : z[d] = w[d]) /\ Known(v, x, w) => Known(v, x, z)
<1>1. Known(v, x, v)
  BY DEF Known, SameCost
<1>2. ASSUME NEW u, NEW w, SameVector(v, u), Known(v, x, w) PROVE Known(u, x, w)
  <2> SUFFICES ASSUME NEW d \in Nodes \ {x}
               PROVE  SameCost(u[d], w[d]) \/ (u[d] = INF /\ w[d] = 1)
    BY DEF Known
  <2>1. SameCost(v[d], w[d]) \/ (v[d] = INF /\ w[d] = 1)
    BY <1>2 DEF Known
  <2>2. NoCost # INF
    BY SMT DEF INF, NoCost
  <2>3. CASE u[d] = v[d]
    BY <2>1, <2>3
  <2>4. CASE v[d] = NoCost /\ u[d] = INF
    BY <2>1, <2>2, <2>4 DEF SameCost
  <2> QED BY <1>2, <2>3, <2>4 DEF SameVector
<1>3. \A w, z : (\A d \in Nodes \ {x} : z[d] = w[d]) /\ Known(v, x, w) => Known(v, x, z)
  BY DEF Known
<1> QED BY <1>1, <1>2, <1>3

(* The copies left in flight when n takes packet i, the first from its     *)
(* sender to n.                                                            *)
LEMMA ChannelsTaken ==
  ASSUME TypeOK, NEW i \in 1 .. Len(net), NEW n \in Nodes, Arrives(i, n)
  PROVE  LET f == net[i].from
             w == InFlightWithout(i, n)
         IN  /\ \A m, x : m # f \/ x # n => KeepsChannel(net, w, m, x)
             /\ NoVector(net, f, n) => NoVector(w, f, n)
             /\ \A v : LastVector(net, f, n, v) =>
                  \/ LastVector(w, f, n, v)
                  \/ NoVector(w, f, n) /\ VectorAt(net, i, f, n) /\ net[i].msg.dv = v
             /\ HelloFirst(net, f, n) => ~VectorAt(net, i, f, n)
<1> DEFINE f == net[i].from
           w == InFlightWithout(i, n)
<1>1. net \in Seq(PacketsOf(Nodes, Messages)) /\ w = Without(net, i, n) /\ w \in Seq(Packets)
  BY InFlightType DEF TypeOK, Packets, PacketsOf, InFlightWithout, Without
<1>2. Len(net) \in Nat /\ Len(w) \in Nat
  BY <1>1
<1>3. PICK g : InOrder(net, w, i, n, g)
  BY <1>1, WithoutInOrder
<1> HIDE DEF w
<1>4. ASSUME NEW m, NEW x, m # f \/ x # n PROVE KeepsChannel(net, w, m, x)
  BY <1>2, <1>3, <1>4, OtherChannel
<1>5. /\ n \in net[i].to
      /\ \A j \in 1 .. Len(net) : j < i => ~CopyAt(net, j, f, n)
  BY DEF Arrives, CopyAt
<1> HIDE DEF f
<1>6. f = net[i].from
  BY DEF f
<1> QED BY <1>2, <1>3, <1>4, <1>5, <1>6, OwnChannel DEF f, w

(* Node n takes packet i, which makes its sender a neighbour if it is not  *)
(* one yet, and sends e.                                                   *)
Takes(n, i, e) ==
  LET f == net[i].from
  IN  /\ Arrives(i, n) /\ f \in up[n]
      /\ net' = InFlightWithout(i, n) \o e
      /\ UNCHANGED <<up, due, calm, age, crashed>>
      /\ KeepsOthers(n)
      /\ \A a \in Nodes \ {n} : heard'[a] = heard[a] /\ dv'[a] = dv[a]
      /\ costs'[n] = costs[n] \cup {f} /\ neighborTable'[n] = costs'[n]
      /\ heard[n] \subseteq heard'[n] /\ heard'[n] \subseteq heard[n] \cup {f}
      /\ \A a \in Nodes \ {f} : vectors'[n][a] = vectors[n][a]
      /\ \/ /\ net[i].msg.type = "HELLO_REQ"
            /\ f \in heard'[n]
            /\ f \in costs[n] => vectors'[n][f] = vectors[n][f]
         \/ /\ net[i].msg.type = "DV_TABLE_MSG"
            /\ f \in costs[n]
            /\ \A d \in Nodes \ {n} : vectors'[n][f][d] = net[i].msg.dv[d]
      /\ e # <<>> \/ (f \in costs[n] /\ SameVector(dv[n], dv'[n]))

(* Both directions of every working link stay in touch when a node takes a *)
(* packet.                                                                 *)
LEMMA TakenTouch ==
  ASSUME TypeOK, InStep, AgreeInv, dv' \in [Nodes -> Vectors],
         NEW n \in Nodes, NEW i \in 1 .. Len(net),
         NEW e \in Seq(Updates(n, dv'[n], costs'[n])), Takes(n, i, e),
         NEW m \in Nodes, NEW x \in Nodes, Live(m, x), InTouch(m, x)
  PROVE  InTouch(m, x)'
<1> DEFINE f == net[i].from
           w == InFlightWithout(i, n)
<1>1. /\ Arrives(i, n) /\ f \in up[n] /\ net' = w \o e
      /\ UNCHANGED <<up, due, calm, age, crashed>>
      /\ KeepsOthers(n)
      /\ \A a \in Nodes \ {n} : heard'[a] = heard[a] /\ dv'[a] = dv[a]
      /\ costs'[n] = costs[n] \cup {f}
      /\ heard[n] \subseteq heard'[n]
      /\ \A a \in Nodes \ {f} : vectors'[n][a] = vectors[n][a]
  BY DEF Takes
<1>2. \/ net[i].msg.type = "HELLO_REQ" /\ f \in heard'[n]
         /\ (f \in costs[n] => vectors'[n][f] = vectors[n][f])
      \/ net[i].msg.type = "DV_TABLE_MSG" /\ f \in costs[n]
         /\ \A d \in Nodes \ {n} : vectors'[n][f][d] = net[i].msg.dv[d]
  BY DEF Takes
<1>3. e # <<>> \/ (f \in costs[n] /\ SameVector(dv[n], dv'[n]))
  BY DEF Takes
<1>4. /\ \A a, b : a # f \/ b # n => KeepsChannel(net, w, a, b)
      /\ NoVector(net, f, n) => NoVector(w, f, n)
      /\ \A v : LastVector(net, f, n, v) =>
           \/ LastVector(w, f, n, v)
           \/ NoVector(w, f, n) /\ VectorAt(net, i, f, n) /\ net[i].msg.dv = v
      /\ HelloFirst(net, f, n) => ~VectorAt(net, i, f, n)
  BY <1>1, ChannelsTaken
<1>5. /\ w \in Seq(Packets) /\ e \in Seq(Packets) /\ net \in Seq(Packets)
      /\ due = {} /\ n \in net[i].to /\ f \in Nodes /\ f # n
  <2>1. Updates(n, dv'[n], costs'[n]) \subseteq Packets
    BY DEF Updates, HonestPackets
  <2>2. w \in Seq(Packets) /\ e \in Seq(Packets) /\ net \in Seq(Packets)
    BY <2>1, InFlightType DEF TypeOK
  <2>3. net[i] \in Packets
    BY <2>2
  <2>4. f \in Nodes
    BY <2>3 DEF Packets
  <2> QED BY <1>1, <2>2, <2>4 DEF Arrives, InStep
<1>6. \A g, y, msg : InFlight(net, g, y, msg) =>
        InFlight(w, g, y, msg) \/ (g = f /\ y = n /\ msg = net[i].msg)
  BY HelloTaken
<1>7. dv[n] \in Vectors /\ dv[m] \in Vectors /\ dv'[n] \in Vectors
  BY DEF TypeOK, Vectors
<1> HIDE DEF w, f
<1>8. /\ NoVector(e, m, x) => KeepsChannel(w, net', m, x)
      /\ \A v : LastVector(e, m, x, v) => LastVector(net', m, x, v)
      /\ HelloFirst(w, m, x) /\ (\E k \in 1 .. Len(w) : HelloAt(w, k, m, x)) =>
           HelloFirst(net', m, x)
  BY <1>1, <1>5, SentLater
<1>9. /\ m # n \/ x \notin costs'[n] \/ x \notin up[n] => NoVector(e, m, x)
      /\ e # <<>> /\ m = n /\ x \in costs'[n] /\ x \in up[n] => LastVector(e, m, x, dv'[n])
  BY UpdatesSent
<1>10. m # x /\ x \in up[m]
  BY DEF InStep, Live
<1>11. \A g, y, msg : InFlight(w, g, y, msg) => InFlight(net', g, y, msg)
  BY <1>1, <1>5, ConcatInFlight
(* A hello is on its way or has come.                                      *)
<1>12. HelloPending(m, x)' \/ (m \in heard'[x] /\ m \in costs'[x])
  <2>1. CASE m \in heard[x] /\ m \in costs[x]
    BY <1>1, <2>1 DEF KeepsOthers
  <2>2. CASE HelloPending(m, x)
    <3>1. PICK msg \in Messages : msg.type = "HELLO_REQ" /\ InFlight(net, m, x, msg)
      BY <2>2 DEF HelloPending
    <3>2. CASE InFlight(w, m, x, msg)
      BY <1>11, <3>1, <3>2 DEF HelloPending
    <3>3. CASE m = f /\ x = n /\ msg = net[i].msg
      BY <1>1, <1>2, <3>1, <3>3
    <3> QED BY <1>6, <3>1, <3>2, <3>3
  <2> QED BY <1>5, <2>1, <2>2 DEF InTouch
<1>13. due' = {}
  BY <1>1, <1>5
(* The vectors of n, which it may just have sent.                          *)
<1>14. CASE m = n
  <2>1. /\ x # n /\ costs'[x] = costs[x] /\ vectors'[x] = vectors[x] /\ heard'[x] = heard[x]
        /\ KeepsChannel(net, w, m, x)
    BY <1>1, <1>4, <1>5, <1>10, <1>14 DEF KeepsOthers
  <2>2. ASSUME x \in costs'[m] PROVE Told(m, x)'
    <3>1. CASE e # <<>>
      <4>1. LastVector(net', m, x, dv'[m]) /\ Known(dv'[m], x, dv'[m])
        BY <1>7, <1>8, <1>9, <1>10, <1>14, <2>2, <3>1, KnownVectors
      <4> QED BY <1>7, <1>14, <4>1 DEF Told
    <3>2. CASE e = <<>>
      <4>1. f \in costs[n] /\ SameVector(dv[n], dv'[n]) /\ net' = w
        BY <1>1, <1>3, <1>5, <3>2
      <4>2. Told(m, x)
        BY <1>1, <1>14, <2>2, <4>1 DEF InTouch
      <4>3. \A u : Known(dv[m], x, u) => Known(dv'[m], x, u)
        BY <1>7, <1>14, <4>1, KnownVectors
      <4> QED BY <2>1, <4>1, <4>2, <4>3 DEF Told, KeepsChannel, KeepsVectors
    <3> QED BY <3>1, <3>2
  <2>3. ASSUME x \notin costs'[m] PROVE NoVector(net', m, x)
    BY <1>1, <1>8, <1>9, <1>14, <2>1, <2>3 DEF InTouch, KeepsChannel, KeepsVectors
  <2>4. ASSUME m \notin costs'[x] PROVE HelloFirst(net', m, x)
    <3>1. HelloPending(m, x) /\ HelloFirst(w, m, x)
      BY <1>5, <2>1, <2>4 DEF InTouch, KeepsChannel
    <3>2. PICK msg \in Messages : msg.type = "HELLO_REQ" /\ InFlight(net, m, x, msg)
      BY <3>1 DEF HelloPending
    <3>3. InFlight(w, m, x, msg)
      BY <1>6, <2>1, <3>2
    <3>4. \E k \in 1 .. Len(w) : HelloAt(w, k, m, x)
      BY <3>2, <3>3 DEF InFlight, HelloAt, CopyAt
    <3> QED BY <1>8, <3>1, <3>4
  <2> QED BY <1>12, <1>13, <2>2, <2>3, <2>4 DEF InTouch
(* What others send, to n and to others.                                   *)
<1>15. CASE m # n
  <2>1. /\ KeepsChannel(w, net', m, x) /\ costs'[m] = costs[m] /\ dv'[m] = dv[m]
    BY <1>1, <1>8, <1>9, <1>15 DEF KeepsOthers
  <2>2. CASE m # f \/ x # n
    <3>1. KeepsChannel(net, w, m, x)
      BY <1>4, <2>2
    <3>2. vectors'[x][m] = vectors[x][m] /\ (m \in costs[x] => m \in costs'[x])
      BY <1>1, <2>2 DEF KeepsOthers
    <3>3. m \notin costs'[x] => HelloFirst(net', m, x)
      BY <2>1, <3>1, <3>2 DEF InTouch, KeepsChannel
    <3>4. x \in costs'[m] => Told(m, x)'
      BY <2>1, <3>1, <3>2 DEF InTouch, Told, KeepsChannel, KeepsVectors
    <3>5. x \notin costs'[m] => NoVector(net', m, x)
      BY <2>1, <3>1 DEF InTouch, KeepsChannel, KeepsVectors
    <3> QED BY <1>12, <1>13, <3>3, <3>4, <3>5 DEF InTouch
  <2>3. CASE m = f /\ x = n
    <3>1. m \in costs'[x]
      BY <1>1, <2>3
    <3>2. x \notin costs'[m] => NoVector(net', m, x)
      BY <1>4, <2>1, <2>3 DEF InTouch, KeepsChannel, KeepsVectors
    <3>3. ASSUME x \in costs'[m] PROVE Told(m, x)'
      <4>1. Told(m, x)
        BY <2>1, <3>3 DEF InTouch
      <4>2. ASSUME NEW v \in Vectors, LastVector(net, m, x, v), Known(dv[m], x, v)
            PROVE  Told(m, x)'
        <5>1. CASE LastVector(w, m, x, v)
          BY <2>1, <4>2, <5>1 DEF Told, KeepsChannel, KeepsVectors
        <5>2. CASE NoVector(w, f, n) /\ VectorAt(net, i, f, n) /\ net[i].msg.dv = v
          <6>1. net[i].msg.type = "DV_TABLE_MSG"
            BY <5>2 DEF VectorAt
          <6>2. \A d \in Nodes \ {x} : vectors'[x][m][d] = v[d]
            BY <1>2, <2>3, <5>2, <6>1
          <6>3. Known(dv'[m], x, vectors'[x][m])
            BY <1>7, <2>1, <4>2, <6>2, KnownVectors
          <6> QED BY <2>1, <2>3, <3>1, <5>2, <6>3 DEF Told, KeepsChannel, KeepsVectors
        <5> QED BY <1>4, <2>3, <4>2, <5>1, <5>2
      <4>3. ASSUME NoVector(net, m, x), m \in costs[x], Known(dv[m], x, vectors[x][m])
            PROVE  Told(m, x)'
        <5>1. net[i].msg.type # "DV_TABLE_MSG"
          BY <1>5, <2>3, <4>3 DEF NoVector, VectorAt, CopyAt, f
        <5>2. vectors'[x][m] = vectors[x][m]
          BY <1>2, <2>3, <4>3, <5>1
        <5> QED BY <1>4, <2>1, <2>3, <3>1, <4>3, <5>2 DEF Told, KeepsChannel, KeepsVectors
      <4> QED BY <4>1, <4>2, <4>3 DEF Told
    <3> QED BY <1>12, <1>13, <3>1, <3>2, <3>3 DEF InTouch
  <2> QED BY <2>2, <2>3
<1> QED BY <1>14, <1>15

(* So does the whole invariant.                                            *)
LEMMA AgreeTakes ==
  ASSUME TypeOK, InStep, AgreeInv, dv' \in [Nodes -> Vectors], costs' \in [Nodes -> SUBSET Nodes],
         NEW n \in Nodes, NEW i \in 1 .. Len(net),
         NEW e \in Seq(Updates(n, dv'[n], costs'[n])), Takes(n, i, e)
  PROVE  AgreeInv'
<1> DEFINE f == net[i].from
<1>1. /\ Arrives(i, n) /\ f \in up[n] /\ net' = InFlightWithout(i, n) \o e
      /\ UNCHANGED <<up, due, calm, age, crashed>>
      /\ KeepsOthers(n)
      /\ \A a \in Nodes \ {n} : heard'[a] = heard[a] /\ dv'[a] = dv[a]
      /\ costs'[n] = costs[n] \cup {f} /\ neighborTable'[n] = costs'[n]
      /\ heard'[n] \subseteq heard[n] \cup {f}
      /\ \A a \in Nodes \ {f} : vectors'[n][a] = vectors[n][a]
  BY DEF Takes
<1>2. Live(f, n) /\ f \in Nodes
  <2>1. net[i] \in FreshPackets
    BY DEF AgreeInv
  <2> QED BY <1>1, <2>1 DEF FreshPackets, Packets, Arrives, Live
<1>3. FreshPackets' = FreshPackets /\ LiveLinks' = LiveLinks /\ \A a, b : Live(a, b)' <=> Live(a, b)
  BY <1>1 DEF FreshPackets, LiveLinks, Live
<1>4. f \in LiveLinks[n]
  BY <1>2 DEF LiveLinks, Live
<1>5. net' \in Seq(FreshPackets)
  <2>1. Updates(n, dv'[n], costs'[n]) \subseteq FreshPackets
    BY DEF Updates, HonestPackets, FreshPackets
  <2>2. e \in Seq(FreshPackets)
    BY <2>1
  <2>3. InFlightWithout(i, n) \in Seq(FreshPackets)
    BY HelloTaken DEF AgreeInv
  <2> QED BY <1>1, <2>2, <2>3
<1> HIDE DEF f
<1>6. net # <<>> /\ ~calm /\ age # 0 /\ due = {}
  BY <1>1 DEF AgreeInv, Calm, Idle, Arrives
<1>7. Calm'
  BY <1>1, <1>6 DEF Calm
<1>8. ASSUME NEW a \in Nodes
      PROVE  (neighborTable[a] = costs[a] /\ Introduced(a) /\ NoStrangers(a))'
  <2>1. neighborTable[a] = costs[a] /\ Introduced(a) /\ NoStrangers(a)
    BY DEF AgreeInv
  <2>2. CASE a # n
    BY <1>1, <1>3, <2>1, <2>2 DEF KeepsOthers, Introduced, NoStrangers
  <2>3. CASE a = n
    <3>1. Introduced(a)'
      BY <1>1, <1>2, <1>3, <2>1, <2>3 DEF Introduced
    <3>2. NoStrangers(a)'
      BY <1>1, <1>3, <1>4, <2>1, <2>3 DEF NoStrangers
    <3> QED BY <1>1, <2>3, <3>1, <3>2
  <2> QED BY <2>2, <2>3
<1>9. \A m, x \in Nodes : Live(m, x) => InTouch(m, x)'
  BY <1>6, TakenTouch DEF AgreeInv
<1>10. ~crashed' /\ age' # 0
  BY <1>1, <1>6 DEF AgreeInv
<1> QED BY <1>3, <1>5, <1>7, <1>8, <1>9, <1>10 DEF AgreeInv

(* BellmanFord and what is sent after it: either the vector goes out, or   *)
(* it says the same to the others as before.                               *)
LEMMA BellmanFordTells ==
  ASSUME NEW n \in Nodes, NEW v \in Vectors, NEW cs, NEW vs, NEW ndv \in Vectors
  PROVE  LET bf == BellmanFord(n, v, cs, vs, ndv)
         IN  bf.sendDV \/ SameVector(v, bf.dv)
<1> DEFINE bf == BellmanFord(n, v, cs, vs, ndv)
           known == [d \in Nodes |->
                       IF v[d] = NoCost /\ ndv[d] # NoCost THEN INF ELSE v[d]]
           changed == Changed(n, known, cs, vs)
           newdv == [d \in Nodes |-> IF d \in changed THEN MinCost(cs, vs, d) ELSE known[d]]
<1>1. bf.dv = newdv /\ bf.sendDV = (changed # {})
  BY DEF BellmanFord
<1> HIDE DEF changed
<1>2. changed = {} => SameVector(v, newdv)
  BY DEF SameVector
<1> QED BY <1>1, <1>2

(* A node that installs what BellmanFord returns sends its new vector to   *)
(* its neighbours, or the vector says the same as before.                  *)
LEMMA InstallTells ==
  ASSUME TypeOK, NEW n \in Nodes, NEW v \in Vectors, NEW ndv \in Vectors,
         costs'[n] \in SUBSET Nodes, vectors'[n] \in [Nodes -> Vectors],
         Install(n, RunBellmanFord(n, v, ndv))
  PROVE  LET bf   == RunBellmanFord(n, v, ndv)
             sent == SendDVTableMessage(n, bf.dv, costs'[n], bf.rt)
         IN  /\ bf.dv \in Vectors /\ dv'[n] = bf.dv /\ dv' \in [Nodes -> Vectors]
             /\ \A a \in Nodes \ {n} : dv'[a] = dv[a]
             /\ sent \in Seq(Updates(n, dv'[n], costs'[n]))
             /\ costs'[n] \cap up[n] # {} => sent # <<>>
             /\ Triggered(n, bf) \in Seq(Updates(n, dv'[n], costs'[n]))
             /\ costs'[n] \cap up[n] # {} => Triggered(n, bf) # <<>> \/ SameVector(v, dv'[n])
<1> DEFINE bf == RunBellmanFord(n, v, ndv)
           sent == SendDVTableMessage(n, bf.dv, costs'[n], bf.rt)
<1>1. bf.dv \in Vectors
  BY BellmanFordProperties DEF RunBellmanFord
<1>2. bf.sendDV \/ SameVector(v, bf.dv)
  BY BellmanFordTells DEF RunBellmanFord
<1>3. dv' = [dv EXCEPT ![n] = bf.dv]
  BY DEF Install
<1> HIDE DEF bf
<1>4. dv'[n] = bf.dv /\ dv' \in [Nodes -> Vectors] /\ \A a \in Nodes \ {n} : dv'[a] = dv[a]
  BY <1>1, <1>3 DEF TypeOK, Vectors
<1>5. /\ sent \in Seq(Updates(n, bf.dv, costs'[n]))
      /\ costs'[n] \cap up[n] # {} => sent # <<>>
  BY <1>1, SentUpdates
<1>6. Triggered(n, bf) = IF bf.sendDV THEN sent ELSE <<>>
  BY DEF Triggered
<1> HIDE DEF sent
<1>7. Triggered(n, bf) \in Seq(Updates(n, bf.dv, costs'[n]))
  <2> DEFINE U == Updates(n, bf.dv, costs'[n])
  <2>1. sent \in Seq(U)
    BY <1>5
  <2> HIDE DEF U
  <2>2. Triggered(n, bf) \in Seq(U)
    BY <1>6, <2>1
  <2> QED BY <2>2 DEF U
<1>8. costs'[n] \cap up[n] # {} => Triggered(n, bf) # <<>> \/ SameVector(v, bf.dv)
  BY <1>2, <1>5, <1>6
<1> QED BY <1>1, <1>4, <1>5, <1>7, <1>8 DEF bf, sent

(* The handlers of RecvDVMessage take a packet this way.                   *)
LEMMA AgreeReceive ==
  ASSUME IInv, IInv', HelloInv, InStep, AgreeInv, NEW n \in Nodes, NEW i \in 1 .. Len(net),
         ProcessHelloReq(n, i) \/ ProcessDVTableMessage(n, i)
  PROVE  AgreeInv'
<1> DEFINE m == net[i].msg.orig
           w == InFlightWithout(i, n)
<1>1. /\ TypeOK /\ m \in Nodes /\ w \in Seq(Packets) /\ neighborTable[n] = costs[n]
      /\ dv' \in [Nodes -> Vectors] /\ costs' \in [Nodes -> SUBSET Nodes]
      /\ vectors' \in [Nodes -> [Nodes -> Vectors]]
  BY ReceivedMessage, InFlightType DEF IInv, TypeOK, Vectors, AgreeInv
<1>2. m = net[i].from
  BY DEF HelloInv, HonestPackets
<1> HIDE DEF m, w
<1>3. CASE RefreshNeighbor(n, i)
  <2> DEFINE e == <<>>
  <2>1. /\ Arrives(i, n) /\ m \in up[n] /\ m \in costs[n] /\ net[i].msg.type = "HELLO_REQ"
        /\ heard' = [heard EXCEPT ![n] = @ \cup {m}]
        /\ net' = w
        /\ UNCHANGED <<up, due, calm, age, crashed, dv, costs, neighborTable, vectors>>
    BY <1>1, <1>2, <1>3 DEF RefreshNeighbor, Receives, m, w, clock
  <2>2. net' = w \o e /\ e \in Seq(Updates(n, dv'[n], costs'[n]))
    BY <1>1, <2>1
  <2> HIDE DEF e
  <2>3. KeepsOthers(n) /\ SameVector(dv[n], dv'[n])
    BY <2>1 DEF KeepsOthers, SameVector
  <2>4. heard'[n] = heard[n] \cup {m} /\ \A a \in Nodes \ {n} : heard'[a] = heard[a]
    BY <1>1, <2>1 DEF TypeOK
  <2>5. Takes(n, i, e)
    BY <1>1, <1>2, <2>1, <2>2, <2>3, <2>4 DEF Takes, w
  <2> QED BY <1>1, <2>2, <2>5, AgreeTakes
<1>4. CASE DiscoverNeighbor(n, i)
  <2> DEFINE v == Inserted(dv[n], m)
             bf == RunBellmanFord(n, v, EmptyVector)
             t == Triggered(n, bf)
             s == SendDVTableMessage(n, bf.dv, costs'[n], bf.rt)
             e == t \o s
  <2>1. /\ Arrives(i, n) /\ m \in up[n] /\ m \notin costs[n] /\ net[i].msg.type = "HELLO_REQ"
        /\ neighborTable' = [neighborTable EXCEPT ![n] = @ \cup {m}]
        /\ heard' = [heard EXCEPT ![n] = @ \cup {m}]
        /\ vectors' = [vectors EXCEPT ![n][m] = EmptyVector]
        /\ costs' = [costs EXCEPT ![n] = @ \cup {m}]
        /\ net' = (w \o t) \o s
        /\ Install(n, bf)
        /\ UNCHANGED <<up, due, calm, age, crashed>>
    BY <1>1, <1>2, <1>4 DEF DiscoverNeighbor, Receives, m, w, clock
  <2>2. v \in Vectors /\ EmptyVector \in Vectors
    BY <1>1, LimitAssumption DEF TypeOK, Inserted, EmptyVector, Vectors, VectorCosts
  <2>3. /\ costs'[n] = costs[n] \cup {m} /\ heard'[n] = heard[n] \cup {m}
        /\ neighborTable'[n] = costs'[n]
        /\ \A a \in Nodes \ {m} : vectors'[n][a] = vectors[n][a]
        /\ \A a \in Nodes \ {n} : heard'[a] = heard[a]
    BY <1>1, <2>1 DEF TypeOK
  <2>4. KeepsOthers(n)
    BY <1>1, <2>1 DEF TypeOK, KeepsOthers
  <2>5. costs'[n] \cap up[n] # {}
    BY <2>1, <2>3
  <2> HIDE DEF v
  <2>6. /\ s \in Seq(Updates(n, dv'[n], costs'[n])) /\ s # <<>>
        /\ t \in Seq(Updates(n, dv'[n], costs'[n]))
        /\ \A a \in Nodes \ {n} : dv'[a] = dv[a]
    <3>1. costs'[n] \in SUBSET Nodes /\ vectors'[n] \in [Nodes -> Vectors] /\ Install(n, bf)
      BY <1>1, <2>1
    <3> QED BY <1>1, <2>2, <2>5, <3>1, InstallTells
  <2> HIDE DEF s, t, bf
  <2>7. e \in Seq(Updates(n, dv'[n], costs'[n])) /\ e # <<>>
    <3>1. Len(e) = Len(t) + Len(s) /\ Len(t) \in Nat /\ Len(s) \in Nat /\ Len(s) # 0
      BY <2>6
    <3>2. Len(e) # 0
      BY <3>1
    <3> QED BY <2>6, <3>2
  <2>8. net' = w \o e
    <3> DEFINE U == Updates(n, dv'[n], costs'[n])
    <3>1. U \subseteq Packets
      BY DEF Updates, HonestPackets
    <3> HIDE DEF U
    <3>2. t \in Seq(Packets) /\ s \in Seq(Packets)
      BY <2>6, <3>1 DEF U
    <3> QED BY <1>1, <2>1, <3>2, ConcatAssociative
  <2> HIDE DEF e
  <2>9. Takes(n, i, e)
    BY <1>1, <1>2, <2>1, <2>3, <2>4, <2>6, <2>7, <2>8 DEF Takes, w
  <2> QED BY <1>1, <2>7, <2>9, AgreeTakes
<1>5. CASE ProcessDVTableMessage(n, i)
  <2> DEFINE newdv == CopyFor(n, net[i].msg.dv, net[i].msg.poisoned)
             v == dv[n]
             bf == RunBellmanFord(n, v, newdv)
             e == Triggered(n, bf)
  <2>1. /\ Arrives(i, n) /\ m \in up[n] /\ net[i].msg.type = "DV_TABLE_MSG"
        /\ neighborTable' = [neighborTable EXCEPT ![n] = @ \cup {m}]
        /\ heard' = [heard EXCEPT ![n] = IF m \in neighborTable[n] THEN @ ELSE @ \cup {m}]
        /\ vectors' = [vectors EXCEPT ![n][m] = newdv]
        /\ costs' = costs
        /\ Install(n, bf)
        /\ net' = w \o e
        /\ UNCHANGED <<up, due, calm, age, crashed>>
    BY <1>2, <1>5 DEF ProcessDVTableMessage, Receives, m, w, clock
  <2>2. newdv \in Vectors /\ v \in Vectors /\ net[i].msg.dv \in Vectors
    <3>1. net[i] \in Packets
      BY <1>1 DEF TypeOK
    <3>2. net[i].msg.dv \in Vectors
      BY <2>1, <3>1 DEF Packets, Messages, DVMessages, Vectors
    <3> QED BY <1>1, <2>1, <3>2, ReceivedMessage DEF TypeOK, Vectors
  <2>3. \A d \in Nodes \ {n} : newdv[d] = net[i].msg.dv[d]
    BY <2>2 DEF CopyFor, Vectors
  <2> HIDE DEF newdv
(* A vector comes behind the hello of its sender.                          *)
  <2>4. m \in costs[n]
    <3>1. net[i] \in FreshPackets /\ n \in net[i].to /\ due = {}
      BY <2>1 DEF AgreeInv, Arrives
    <3>2. Live(m, n)
      BY <1>2, <2>1, <3>1 DEF FreshPackets, Live
    <3>3. net # <<>>
      BY <1>1 DEF TypeOK
    <3>4. age # 0
      BY <3>3 DEF AgreeInv, Calm, Idle
    <3>5. InTouch(m, n)
      BY <1>1, <3>2, <3>4 DEF AgreeInv
    <3>6. VectorAt(net, i, m, n)
      BY <1>2, <2>1, <3>1 DEF VectorAt, CopyAt
    <3>7. HelloFirst(net, m, n) => ~VectorAt(net, i, m, n)
      BY <1>1, <1>2, <2>1, ChannelsTaken
    <3> QED BY <3>5, <3>6, <3>7 DEF InTouch
  <2>5. /\ costs'[n] = costs[n] \cup {m} /\ heard'[n] = heard[n]
        /\ neighborTable'[n] = costs'[n]
        /\ \A a \in Nodes \ {m} : vectors'[n][a] = vectors[n][a]
        /\ \A a \in Nodes \ {n} : heard'[a] = heard[a]
        /\ vectors'[n][m] = newdv
    BY <1>1, <2>1, <2>4 DEF TypeOK
  <2>6. KeepsOthers(n)
    BY <1>1, <2>1 DEF TypeOK, KeepsOthers
  <2>7. costs'[n] \cap up[n] # {}
    BY <2>1, <2>4
  <2> HIDE DEF v
  <2>8. /\ e \in Seq(Updates(n, dv'[n], costs'[n])) /\ (e # <<>> \/ SameVector(v, dv'[n]))
        /\ \A a \in Nodes \ {n} : dv'[a] = dv[a]
    BY <1>1, <2>1, <2>2, <2>7, InstallTells
  <2> HIDE DEF e, bf
  <2>9. Takes(n, i, e)
    BY <1>1, <1>2, <2>1, <2>3, <2>4, <2>5, <2>6, <2>8 DEF Takes, w, v
  <2> QED BY <1>1, <2>8, <2>9, AgreeTakes
<1> QED BY <1>3, <1>4, <1>5 DEF ProcessHelloReq

(***************************************************************************)
(* A node whose hello timer expires.                                       *)
(***************************************************************************)
(* Node n forgets the neighbours it has not heard, sends a hello and then  *)
(* e, or has nothing to tell.                                              *)
Audits(n, e) ==
  /\ n \in due /\ due' = due \ {n}
  /\ net' = (net \o SendHello(n)) \o e
  /\ UNCHANGED <<up, calm, age, crashed>>
  /\ KeepsOthers(n)
  /\ \A a \in Nodes \ {n} : heard'[a] = heard[a] /\ dv'[a] = dv[a]
  /\ heard'[n] = {}
  /\ costs'[n] = costs[n] \cap heard[n] /\ neighborTable'[n] = costs'[n]
  /\ \A a \in costs'[n] : vectors'[n][a] = vectors[n][a]
  /\ \A x \in costs'[n] \cap up[n] :
       e # <<>> \/ \A w : Known(dv[n], x, w) => Known(dv'[n], x, w)

(* The hello itself.                                                       *)
LEMMA HelloSent ==
  ASSUME TypeOK, NEW n \in Nodes
  PROVE  /\ SendHello(n) \in Seq(FreshPackets) /\ SendHello(n) \in Seq(Packets)
         /\ \A m, x : NoVector(SendHello(n), m, x)
         /\ \A x \in up[n] : \E msg \in Messages :
              msg.type = "HELLO_REQ" /\ InFlight(SendHello(n), n, x, msg)
<1> DEFINE msg == [type |-> "HELLO_REQ", orig |-> n]
           p == [from |-> n, to |-> up[n], msg |-> msg]
           h == SendHello(n)
<1>1. msg \in Messages /\ msg.type = "HELLO_REQ"
  BY DEF Messages
<1>2. h = IF up[n] = {} THEN <<>> ELSE <<p>>
  BY DEF SendHello, BroadcastPacket
<1> HIDE DEF msg, h
<1>3. p \in FreshPackets /\ p \in Packets
  BY <1>1 DEF FreshPackets, Packets, TypeOK, SimTypeOK
<1>4. p.from = n /\ p.to = up[n] /\ p.msg = msg
  OBVIOUS
<1> HIDE DEF p
<1>5. h \in Seq(FreshPackets) /\ h \in Seq(Packets)
  BY <1>2, <1>3
<1>6. \A k \in 1 .. Len(h) : h[k] = p
  BY <1>2
<1>7. \A m, x : NoVector(h, m, x)
  BY <1>1, <1>4, <1>6 DEF NoVector, VectorAt
<1>8. ASSUME NEW x \in up[n] PROVE InFlight(h, n, x, msg)
  <2>1. 1 \in 1 .. Len(h) /\ h[1] = p
    BY <1>2
  <2> QED BY <1>4, <2>1 DEF InFlight
<1> QED BY <1>1, <1>5, <1>7, <1>8 DEF h

(* Both directions of every working link stay in touch when a timer        *)
(* expires.                                                                *)
LEMMA AuditTouch ==
  ASSUME TypeOK, InStep, AgreeInv, dv' \in [Nodes -> Vectors],
         NEW n \in Nodes, NEW e \in Seq(Updates(n, dv'[n], costs'[n])), Audits(n, e),
         NEW m \in Nodes, NEW x \in Nodes, Live(m, x), InTouch(m, x), InTouch(x, m)
  PROVE  InTouch(m, x)'
<1> DEFINE h == SendHello(n)
           q == net \o h
<1>1. /\ n \in due /\ due' = due \ {n} /\ net' = q \o e
      /\ UNCHANGED <<up, calm, age, crashed>>
      /\ KeepsOthers(n)
      /\ \A a \in Nodes \ {n} : heard'[a] = heard[a] /\ dv'[a] = dv[a]
      /\ heard'[n] = {} /\ costs'[n] = costs[n] \cap heard[n]
      /\ \A a \in costs'[n] : vectors'[n][a] = vectors[n][a]
  BY DEF Audits
<1>2. \A y \in costs'[n] \cap up[n] :
        e # <<>> \/ \A w : Known(dv[n], y, w) => Known(dv'[n], y, w)
  BY DEF Audits
<1>3. net \in Seq(Packets) /\ h \in Seq(Packets) /\ q \in Seq(Packets) /\ e \in Seq(Packets)
  <2>1. Updates(n, dv'[n], costs'[n]) \subseteq Packets
    BY DEF Updates, HonestPackets
  <2>2. h \in Seq(Packets) /\ net \in Seq(Packets)
    BY HelloSent DEF TypeOK
  <2> HIDE DEF h
  <2> QED BY <2>1, <2>2
<1>4. NoVector(h, m, x)
  BY HelloSent
<1>5. \A y \in up[n] : \E msg \in Messages : msg.type = "HELLO_REQ" /\ InFlight(h, n, y, msg)
  BY HelloSent
<1> HIDE DEF h
<1>6. KeepsChannel(net, q, m, x)
  BY <1>3, <1>4, SentLater
<1>7. /\ \A a, b, g : InFlight(net, a, b, g) => InFlight(q, a, b, g)
      /\ \A a, b, g : InFlight(h, a, b, g) => InFlight(q, a, b, g)
  BY <1>3, ConcatInFlight
<1> HIDE DEF q
<1>8. /\ NoVector(e, m, x) => KeepsChannel(q, net', m, x)
      /\ \A v : LastVector(e, m, x, v) => LastVector(net', m, x, v)
      /\ HelloFirst(q, m, x) /\ (\E k \in 1 .. Len(q) : HelloAt(q, k, m, x)) =>
           HelloFirst(net', m, x)
  BY <1>1, <1>3, SentLater
<1>9. /\ m # n \/ x \notin costs'[n] \/ x \notin up[n] => NoVector(e, m, x)
      /\ e # <<>> /\ m = n /\ x \in costs'[n] /\ x \in up[n] => LastVector(e, m, x, dv'[n])
  BY UpdatesSent
<1>10. \A a, b, g : InFlight(q, a, b, g) => InFlight(net', a, b, g)
  BY <1>1, <1>3, ConcatInFlight
<1>11. m # x /\ x \in up[m] /\ due # {} /\ dv[n] \in Vectors /\ dv'[n] \in Vectors
  BY <1>1 DEF InStep, Live, TypeOK, Vectors
(* Nobody at the end of a working link expires.                            *)
<1>12. costs'[x] \subseteq costs[x] /\ (m \in costs'[x] <=> m \in costs[x])
  BY <1>1 DEF InTouch, KeepsOthers
<1>13. x \in costs'[m] <=> x \in costs[m]
  BY <1>1 DEF InTouch, KeepsOthers
<1>14. m \notin due' => HelloPending(m, x)'
  <2>1. CASE m = n
    <3>1. PICK msg \in Messages : msg.type = "HELLO_REQ" /\ InFlight(h, n, x, msg)
      BY <1>5, <1>11, <2>1
    <3>2. InFlight(net', m, x, msg)
      BY <1>7, <1>10, <2>1, <3>1
    <3> QED BY <3>1, <3>2 DEF HelloPending
  <2>2. CASE m # n /\ m \notin due'
    <3>1. HelloPending(m, x)
      BY <1>1, <1>11, <2>2 DEF InTouch
    <3> QED BY <1>7, <1>10, <3>1 DEF HelloPending
  <2> QED BY <2>1, <2>2
<1>15. x \in due' /\ m \in costs'[x] => m \in heard'[x]
  BY <1>1, <1>12 DEF InTouch
<1>16. m \in costs[x] => vectors'[x][m] = vectors[x][m]
  BY <1>1, <1>12 DEF KeepsOthers
<1>17. CASE m = n
  <2>1. ASSUME x \in costs'[m] PROVE Told(m, x)'
    <3>1. CASE e # <<>>
      <4>1. LastVector(net', m, x, dv'[m]) /\ Known(dv'[m], x, dv'[m])
        BY <1>8, <1>9, <1>11, <1>17, <2>1, <3>1, KnownVectors
      <4> QED BY <1>11, <1>17, <4>1 DEF Told
    <3>2. CASE e = <<>>
      <4>1. net' = q /\ \A w : Known(dv[m], x, w) => Known(dv'[m], x, w)
        BY <1>1, <1>2, <1>3, <1>11, <1>17, <2>1, <3>2
      <4>2. Told(m, x)
        BY <1>13, <2>1 DEF InTouch
      <4> QED BY <1>6, <1>12, <1>16, <4>1, <4>2 DEF Told, KeepsChannel, KeepsVectors
    <3> QED BY <3>1, <3>2
  <2>2. ASSUME x \notin costs'[m] PROVE NoVector(net', m, x)
    BY <1>6, <1>8, <1>9, <1>13, <1>17, <2>2 DEF InTouch, KeepsChannel, KeepsVectors
  <2>3. ASSUME m \notin costs'[x] PROVE HelloFirst(net', m, x)
    <3>1. HelloFirst(q, m, x)
      BY <1>6, <1>12, <2>3 DEF InTouch, KeepsChannel
    <3>2. PICK msg \in Messages : msg.type = "HELLO_REQ" /\ InFlight(h, n, x, msg)
      BY <1>5, <1>11, <1>17
    <3>3. InFlight(q, m, x, msg)
      BY <1>7, <1>17, <3>2
    <3>4. \E k \in 1 .. Len(q) : HelloAt(q, k, m, x)
      BY <3>2, <3>3 DEF InFlight, HelloAt, CopyAt
    <3> QED BY <1>8, <3>1, <3>4
  <2> QED BY <1>14, <1>15, <2>1, <2>2, <2>3 DEF InTouch
<1>18. CASE m # n
  <2>1. KeepsChannel(q, net', m, x) /\ dv'[m] = dv[m]
    BY <1>1, <1>8, <1>9, <1>18
  <2>2. x \in costs'[m] => Told(m, x)'
    BY <1>6, <1>12, <1>13, <1>16, <2>1 DEF InTouch, Told, KeepsChannel, KeepsVectors
  <2>3. x \notin costs'[m] => NoVector(net', m, x)
    BY <1>6, <1>13, <2>1 DEF InTouch, KeepsChannel, KeepsVectors
  <2>4. m \notin costs'[x] => HelloFirst(net', m, x)
    BY <1>6, <1>12, <2>1 DEF InTouch, KeepsChannel
  <2> QED BY <1>14, <1>15, <2>2, <2>3, <2>4 DEF InTouch
<1> QED BY <1>17, <1>18

(* So does the whole invariant.                                            *)
LEMMA AgreeAudits ==
  ASSUME TypeOK, InStep, AgreeInv, dv' \in [Nodes -> Vectors],
         NEW n \in Nodes, NEW e \in Seq(Updates(n, dv'[n], costs'[n])), Audits(n, e)
  PROVE  AgreeInv'
<1>1. /\ n \in due /\ due' = due \ {n} /\ net' = (net \o SendHello(n)) \o e
      /\ UNCHANGED <<up, calm, age, crashed>>
      /\ KeepsOthers(n)
      /\ \A a \in Nodes \ {n} : heard'[a] = heard[a]
      /\ heard'[n] = {} /\ costs'[n] = costs[n] \cap heard[n] /\ neighborTable'[n] = costs'[n]
      /\ \A a \in costs'[n] : vectors'[n][a] = vectors[n][a]
  BY DEF Audits
<1>2. ~calm /\ age # 0 /\ age \in 0 .. 3
  BY <1>1 DEF AgreeInv, Calm, Idle, TypeOK, SimTypeOK, Drain
<1>3. FreshPackets' = FreshPackets /\ LiveLinks' = LiveLinks /\ \A a, b : Live(a, b)' <=> Live(a, b)
  BY <1>1 DEF FreshPackets, LiveLinks, Live
<1>4. net' \in Seq(FreshPackets)
  <2>1. Updates(n, dv'[n], costs'[n]) \subseteq FreshPackets
    BY DEF Updates, HonestPackets, FreshPackets
  <2>2. e \in Seq(FreshPackets) /\ net \in Seq(FreshPackets) /\ SendHello(n) \in Seq(FreshPackets)
    BY <2>1, HelloSent DEF AgreeInv
  <2> QED BY <1>1, <2>2
<1>5. Calm'
  BY <1>1, <1>2 DEF Calm
<1>6. ASSUME NEW a \in Nodes
      PROVE  (neighborTable[a] = costs[a] /\ Introduced(a) /\ NoStrangers(a))'
  <2>1. neighborTable[a] = costs[a] /\ Introduced(a) /\ NoStrangers(a)
    BY DEF AgreeInv
  <2>2. CASE a # n
    BY <1>1, <1>3, <2>1, <2>2 DEF KeepsOthers, Introduced, NoStrangers
  <2>3. CASE a = n
    <3>1. Introduced(a)'
      BY <1>1, <1>3, <2>1, <2>3 DEF Introduced
    <3>2. NoStrangers(a)'
      BY <1>1, <1>3, <2>1, <2>3 DEF NoStrangers, Drain
    <3> QED BY <1>1, <2>3, <3>1, <3>2
  <2> QED BY <2>2, <2>3
<1>7. ASSUME NEW m \in Nodes, NEW x \in Nodes, Live(m, x) PROVE InTouch(m, x)'
  <2>1. InTouch(m, x) /\ InTouch(x, m)
    BY <1>2, <1>7 DEF AgreeInv, Live
  <2> QED BY <1>7, <2>1, AuditTouch
<1>8. ~crashed' /\ age' # 0
  BY <1>1, <1>2 DEF AgreeInv
<1> QED BY <1>3, <1>4, <1>5, <1>6, <1>7, <1>8 DEF AgreeInv

(* A neighbour that has told of itself is one hop away.                    *)
LEMMA OneHop ==
  ASSUME IInv, InStep, NEW n \in Nodes, NEW d \in costs[n], vectors[n][d][d] = 0
  PROVE  dv[n][d] = 1
<1> DEFINE min == MinCost(costs[n], vectors[n], d)
<1>1. d \in Nodes \ {n} /\ costs[n] \in SUBSET Nodes /\ vectors[n] \in [Nodes -> Vectors]
  BY DEF IInv, TypeOK, Vectors, CostsHaveNeighbors, InStep
<1>2. /\ min \in Nat
      /\ min < INF => \E j \in Offering(costs[n], vectors[n], d) : Extended(vectors[n][j][d]) = min
      /\ \A j \in Offering(costs[n], vectors[n], d) : min <= Extended(vectors[n][j][d])
  BY <1>1, MinCostProperties
<1>3. min <= Limit => dv[n][d] = min
  BY <1>1 DEF InStep, Computed
<1> HIDE DEF min
<1>4. d \in Offering(costs[n], vectors[n], d)
  BY DEF Offering, NoCost
<1>5. Extended(0) = 1 /\ 1 < INF /\ INF \in Nat
  BY SMT DEF Extended, INF
<1>6. min <= 1
  BY <1>2, <1>4, <1>5
<1>7. min # 0
  <2> SUFFICES ASSUME min = 0 PROVE FALSE
    OBVIOUS
  <2>1. PICK j \in Offering(costs[n], vectors[n], d) : Extended(vectors[n][j][d]) = 0
    BY <1>2, <1>5
  <2>2. vectors[n][j][d] \in VectorCosts /\ vectors[n][j][d] # NoCost
    BY <1>1, <2>1 DEF Offering, Vectors
  <2> QED BY <2>1, <2>2, LimitAssumption DEF VectorCosts, Extended, NoCost, INF
<1>8. min = 1 /\ 1 <= Limit
  BY <1>2, <1>6, <1>7, LimitAssumption
<1> QED BY <1>3, <1>8

(* A neighbour expires only when its link has failed.  That it is gone is  *)
(* told at once, or known as the exception that Known makes.               *)
LEMMA AgreeTimer ==
  ASSUME IInv, IInv', InStep, AgreeInv, NEW n \in Nodes, AuditHellos(n)
  PROVE  AgreeInv'
<1> DEFINE lost == [d \in Nodes |-> IF d \in Expired(n) THEN INF ELSE dv[n][d]]
           bf == RunBellmanFord(n, lost, lost)
           h == SendHello(n)
<1>1. /\ n \in due /\ due' = due \ {n}
      /\ neighborTable' = [neighborTable EXCEPT ![n] = @ \ Expired(n)]
      /\ costs' = [costs EXCEPT ![n] = RemainingCosts(n)]
      /\ heard' = [heard EXCEPT ![n] = {}]
      /\ vectors' = [vectors EXCEPT ![n] =
           [m \in Nodes |-> IF m \in Expired(n) THEN EmptyVector ELSE @[m]]]
      /\ UNCHANGED <<up, calm, age, crashed>>
  BY DEF AuditHellos, FirstDue
<1>2. /\ TypeOK /\ lost \in Vectors /\ neighborTable[n] = costs[n] /\ dv[n] \in Vectors
      /\ dv' \in [Nodes -> Vectors] /\ costs' \in [Nodes -> SUBSET Nodes]
      /\ vectors' \in [Nodes -> [Nodes -> Vectors]]
  BY DEF IInv, TypeOK, Vectors, VectorCosts, AgreeInv
<1>3. /\ Expired(n) = costs[n] \ heard[n] /\ costs'[n] = costs[n] \cap heard[n]
      /\ neighborTable'[n] = costs'[n] /\ heard'[n] = {}
      /\ \A a \in Nodes \ {n} : heard'[a] = heard[a]
      /\ \A a \in costs'[n] : vectors'[n][a] = vectors[n][a]
  BY <1>1, <1>2 DEF TypeOK, Expired, RemainingCosts
<1>4. KeepsOthers(n)
  BY <1>1, <1>2 DEF TypeOK, KeepsOthers
<1>5. ASSUME NEW d \in Expired(n) PROVE dv[n][d] = 1
  <2>1. age # 0 /\ d \in Nodes /\ d \in costs[n] /\ d \notin heard[n]
    BY <1>1, <1>2, <1>3 DEF AgreeInv, Calm, Idle, TypeOK
  <2>2. ~Live(d, n)
    BY <1>1, <2>1 DEF AgreeInv, InTouch
  <2>3. vectors[n][d][d] = 0
    BY <2>1, <2>2 DEF AgreeInv, Introduced
  <2> QED BY <2>1, <2>3, OneHop
<1>6. ASSUME NEW x, NEW w, Known(dv[n], x, w) PROVE Known(lost, x, w)
  <2> SUFFICES ASSUME NEW d \in Nodes \ {x}
               PROVE  SameCost(lost[d], w[d]) \/ (lost[d] = INF /\ w[d] = 1)
    BY DEF Known
  <2>1. SameCost(dv[n][d], w[d]) \/ (dv[n][d] = INF /\ w[d] = 1)
    BY <1>6 DEF Known
  <2>2. CASE d \notin Expired(n)
    BY <2>1, <2>2
  <2>3. CASE d \in Expired(n)
    <3>1. dv[n][d] = 1 /\ 1 # INF /\ 1 # NoCost
      BY <1>5, <2>3, SMT DEF INF, NoCost
    <3>2. w[d] = 1
      BY <2>1, <3>1 DEF SameCost
    <3> QED BY <2>3, <3>2
  <2> QED BY <2>2, <2>3
<1> HIDE DEF lost
<1>7. PICK e \in Seq(Updates(n, dv'[n], costs'[n])) :
        /\ net' = (net \o h) \o e
        /\ \A a \in Nodes \ {n} : dv'[a] = dv[a]
        /\ \A x \in costs'[n] \cap up[n] :
             e # <<>> \/ \A w : Known(dv[n], x, w) => Known(dv'[n], x, w)
  <2>1. CASE Expired(n) # {}
    <3> DEFINE t == Triggered(n, bf)
    <3>1. net' = (net \o h) \o t /\ Install(n, bf)
      BY <2>1 DEF AuditHellos, lost
    <3>2. costs'[n] \in SUBSET Nodes /\ vectors'[n] \in [Nodes -> Vectors]
      BY <1>2
    <3>3. /\ t \in Seq(Updates(n, dv'[n], costs'[n]))
          /\ costs'[n] \cap up[n] # {} => t # <<>> \/ SameVector(lost, dv'[n])
          /\ \A a \in Nodes \ {n} : dv'[a] = dv[a]
      BY <1>2, <3>1, <3>2, InstallTells
    <3> HIDE DEF t, bf
    <3>4. ASSUME NEW x \in costs'[n] \cap up[n], t = <<>>, NEW w, Known(dv[n], x, w)
          PROVE  Known(dv'[n], x, w)
      <4>1. SameVector(lost, dv'[n])
        BY <3>3, <3>4
      <4>2. Known(lost, x, w)
        BY <1>6, <3>4
      <4> QED BY <1>2, <4>1, <4>2, KnownVectors
    <3> QED BY <3>1, <3>3, <3>4
  <2>2. CASE Expired(n) = {}
    <3> DEFINE e == <<>>
    <3>1. net' = net \o h /\ dv' = dv
      BY <2>2 DEF AuditHellos
    <3>2. net \in Seq(Packets) /\ h \in Seq(Packets)
      BY <1>2, HelloType DEF TypeOK
    <3>3. net' = (net \o h) \o e /\ e \in Seq(Updates(n, dv'[n], costs'[n]))
      BY <3>1, <3>2
    <3> HIDE DEF e
    <3> QED BY <3>1, <3>3
  <2> QED BY <2>1, <2>2
<1>8. Audits(n, e)
  BY <1>1, <1>3, <1>4, <1>7 DEF Audits
<1> QED BY <1>2, <1>8, AgreeAudits

(***************************************************************************)
(* The simulator.                                                          *)
(***************************************************************************)
(* What DropPacket discards is for a node that does not face its sender.   *)
LEMMA AgreeDrop ==
  ASSUME TypeOK, AgreeInv, NEW i \in 1 .. Len(net), NEW r \in Nodes, DropPacket(i, r),
         UNCHANGED dvVars
  PROVE  AgreeInv'
<1> DEFINE w == InFlightWithout(i, r)
<1>1. /\ Arrives(i, r) /\ net[i].from \notin up[r] /\ net' = w
      /\ UNCHANGED <<up, due, calm, age, dv, costs, neighborTable, heard, vectors, crashed>>
  BY DEF DropPacket, clock, dvVars
<1>2. \A m, x : m # net[i].from \/ x # r => KeepsChannel(net, w, m, x)
  BY <1>1, ChannelsTaken
<1>3. /\ w \in Seq(FreshPackets)
      /\ \A f, x, msg : InFlight(net, f, x, msg) =>
           InFlight(w, f, x, msg) \/ (f = net[i].from /\ x = r /\ msg = net[i].msg)
  BY HelloTaken DEF AgreeInv
<1> HIDE DEF w
<1>4. FreshPackets' = FreshPackets /\ LiveLinks' = LiveLinks /\ \A a, b : Live(a, b)' <=> Live(a, b)
  BY <1>1 DEF FreshPackets, LiveLinks, Live
<1>5. net # <<>> /\ ~calm /\ age # 0
  BY <1>1 DEF AgreeInv, Calm, Idle, Arrives
<1>6. Calm'
  BY <1>1, <1>5 DEF AgreeInv, Calm
<1>7. ASSUME NEW m \in Nodes, NEW x \in Nodes, Live(m, x) PROVE InTouch(m, x)'
  <2>1. InTouch(m, x) /\ (m # net[i].from \/ x # r)
    BY <1>1, <1>5, <1>7 DEF AgreeInv, Live
  <2>2. KeepsChannel(net, net', m, x)
    BY <1>1, <1>2, <2>1
  <2>3. HelloPending(m, x) => HelloPending(m, x)'
    BY <1>1, <1>3, <2>1 DEF HelloPending
  <2>4. Told(m, x) => Told(m, x)'
    BY <1>1, <2>2 DEF Told, KeepsChannel, KeepsVectors
  <2> QED BY <1>1, <2>1, <2>2, <2>3, <2>4 DEF InTouch, KeepsChannel, KeepsVectors
<1>8. \A n \in Nodes : (neighborTable[n] = costs[n] /\ Introduced(n) /\ NoStrangers(n))'
  BY <1>1, <1>4 DEF AgreeInv, Introduced, NoStrangers
<1> QED BY <1>1, <1>3, <1>4, <1>5, <1>6, <1>7, <1>8 DEF AgreeInv

(* In an idle network the neighbours of a node are at the ends of its      *)
(* working links, have just been heard and are known.                      *)
LEMMA IdleAgreement ==
  ASSUME TypeOK, InStep, AgreeInv, Idle, age \in {0, Drain}, NEW n \in Nodes
  PROVE  /\ AsLeft(n)
         /\ age = Drain => costs[n] = LiveLinks[n]
<1>1. CASE age = 0
  BY <1>1 DEF AgreeInv, Drain
<1>2. CASE age = Drain
  <2>1. due = {} /\ net = <<>> /\ age # 0
    BY <1>2 DEF Idle, Drain
  <2>2. ASSUME NEW m \in Nodes, NEW x \in Nodes, Live(m, x)
        PROVE  /\ m \in heard[x] /\ m \in costs[x]
               /\ x \in costs[m] => Known(dv[m], x, vectors[x][m])
    <3>1. InTouch(m, x)
      BY <2>1, <2>2 DEF AgreeInv
    <3>2. ~HelloPending(m, x) /\ \A v : ~LastVector(net, m, x, v)
      BY <2>1 DEF HelloPending, InFlight, LastVector
    <3> QED BY <2>1, <3>1, <3>2 DEF InTouch, Told
  <2>3. \A x \in Nodes : heard[x] \subseteq LiveLinks[x] /\ costs[x] \subseteq LiveLinks[x]
    BY <1>2 DEF AgreeInv, NoStrangers, Drain
  <2>4. \A x \in Nodes : heard[x] = LiveLinks[x] /\ costs[x] = LiveLinks[x]
    BY <2>2, <2>3 DEF LiveLinks, Live
  <2>5. \A m \in costs[n] : n \in costs[m] /\ Known(dv[m], n, vectors[n][m])
    BY <2>2, <2>4 DEF LiveLinks, Live
  <2> QED BY <2>4, <2>5 DEF AsLeft
<1> QED BY <1>1, <1>2

(* A command to an idle network finds everybody in agreement.              *)
LEMMA AgreeCommand ==
  ASSUME IInv, InStep, AgreeInv, Orderly, NEW newUp, SetInterfaces(newUp), UNCHANGED dvVars
  PROVE  AgreeInv'
<1>1. /\ Idle /\ age \in {0, Drain} /\ age' = 0
      /\ UNCHANGED <<net, due, calm, dv, costs, neighborTable, heard, vectors, crashed>>
  BY DEF SetInterfaces, dvVars
<1>2. \A n \in Nodes : AsLeft(n)
  BY <1>1, IdleAgreement DEF IInv
<1>3. ASSUME NEW n \in Nodes, NEW m \in costs[n] PROVE vectors[n][m][m] = 0
  <2>1. m \in Nodes \ {n}
    BY DEF IInv, TypeOK, CostsHaveNeighbors, InStep
  <2>2. dv[m][m] = 0 /\ Known(dv[m], n, vectors[n][m])
    BY <1>2, <2>1 DEF AsLeft, InStep, Computed
  <2>3. SameCost(0, vectors[n][m][m]) \/ 0 = INF
    BY <2>1, <2>2 DEF Known
  <2>4. 0 # INF /\ 0 # NoCost
    BY SMT DEF INF, NoCost
  <2> QED BY <2>3, <2>4 DEF SameCost
<1>4. net' \in Seq(FreshPackets')
  BY <1>1 DEF Idle
<1>5. Calm'
  BY <1>1 DEF AgreeInv, Calm, Idle
<1>6. \A n \in Nodes : (neighborTable[n] = costs[n] /\ Introduced(n) /\ NoStrangers(n))'
  BY <1>1, <1>3 DEF AgreeInv, Introduced, NoStrangers, Drain
<1>7. \A n \in Nodes : AsLeft(n)'
  BY <1>1, <1>2 DEF AsLeft
<1> QED BY <1>1, <1>4, <1>5, <1>6, <1>7 DEF AgreeInv

(* When all messages have arrived, what was on its way is what is known.   *)
LEMMA AgreeSettle ==
  ASSUME AgreeInv, Settle, UNCHANGED dvVars
  PROVE  AgreeInv'
<1>1. /\ net = <<>> /\ due = {} /\ ~calm
      /\ UNCHANGED <<up, net, due, age, dv, costs, neighborTable, heard, vectors, crashed>>
  BY DEF Settle, dvVars
<1>2. age # 0
  BY <1>1 DEF AgreeInv, Calm, Idle
<1>3. FreshPackets' = FreshPackets /\ LiveLinks' = LiveLinks /\ \A a, b : Live(a, b)' <=> Live(a, b)
  BY <1>1 DEF FreshPackets, LiveLinks, Live
<1>4. \A m, x : InTouch(m, x) => InTouch(m, x)'
  BY <1>1 DEF InTouch, Told, HelloPending
<1>5. \A n \in Nodes : (neighborTable[n] = costs[n] /\ Introduced(n) /\ NoStrangers(n))'
  BY <1>1, <1>3 DEF AgreeInv, Introduced, NoStrangers
<1>6. Calm' /\ age' # 0
  BY <1>1, <1>2 DEF Calm
<1> QED BY <1>1, <1>2, <1>3, <1>4, <1>5, <1>6 DEF AgreeInv

(* The timers expire in a network that has drained.                        *)
LEMMA AgreeInstant ==
  ASSUME TypeOK, AgreeInv, HelloInstant, UNCHANGED dvVars
  PROVE  AgreeInv'
<1>1. /\ due = {} /\ calm /\ due' = Nodes /\ ~calm'
      /\ age' = IF age < Drain THEN age + 1 ELSE age
      /\ UNCHANGED <<up, net, dv, costs, neighborTable, heard, vectors, crashed>>
  BY DEF HelloInstant, dvVars
<1>2. net = <<>> /\ age \in 0 .. 3 /\ age' # 0
  BY <1>1 DEF AgreeInv, Calm, TypeOK, SimTypeOK, Drain
<1>3. FreshPackets' = FreshPackets /\ LiveLinks' = LiveLinks /\ \A a, b : Live(a, b)' <=> Live(a, b)
  BY <1>1 DEF FreshPackets, LiveLinks, Live
<1>4. Calm'
  BY <1>1, <1>2 DEF Calm
<1>5. ASSUME NEW n \in Nodes
      PROVE  (neighborTable[n] = costs[n] /\ Introduced(n) /\ NoStrangers(n))'
  <2>1. neighborTable[n] = costs[n] /\ Introduced(n) /\ NoStrangers(n)
    BY DEF AgreeInv
  <2>2. Introduced(n)'
    BY <1>1, <1>3, <2>1 DEF Introduced
  <2>3. NoStrangers(n)'
    BY <1>1, <1>2, <1>3, <2>1 DEF NoStrangers, Drain
  <2> QED BY <1>1, <2>1, <2>2, <2>3
<1>6. \A m, x : /\ NoVector(net, m, x) /\ HelloFirst(net, m, x) /\ ~HelloPending(m, x)
                /\ \A v : ~LastVector(net, m, x, v)
  BY <1>2 DEF NoVector, HelloFirst, HelloPending, InFlight, LastVector
<1>7. ASSUME NEW m \in Nodes, NEW x \in Nodes, Live(m, x) PROVE InTouch(m, x)'
  <2>1. m \in costs[x] => m \in heard[x]
    <3>1. CASE age = 0
      BY <3>1 DEF AgreeInv, AsLeft
    <3>2. CASE age # 0
      BY <1>1, <1>6, <1>7, <3>2 DEF AgreeInv, InTouch
    <3> QED BY <3>1, <3>2
  <2>2. ASSUME x \in costs[m] PROVE m \in costs[x] /\ Known(dv[m], x, vectors[x][m])
    <3>1. CASE age = 0
      <4>1. AsLeft(m) /\ AsLeft(x)
        BY <3>1 DEF AgreeInv
      <4> QED BY <2>2, <4>1 DEF AsLeft
    <3>2. CASE age # 0
      BY <1>1, <1>6, <1>7, <2>2, <3>2 DEF AgreeInv, InTouch, Told
    <3> QED BY <3>1, <3>2
  <2>3. x \in costs[m] => Told(m, x)'
    BY <1>1, <1>6, <2>2 DEF Told
  <2> QED BY <1>1, <1>6, <2>1, <2>3 DEF InTouch
<1> QED BY <1>1, <1>2, <1>3, <1>4, <1>5, <1>7 DEF AgreeInv

(* Agreement is kept by every step of a scenario that waits for the        *)
(* network before each command.                                            *)
LEMMA AgreeStep ==
  ASSUME Orderly, IInv, IInv', HelloInv, InStep, AgreeInv, [Next]_vars
  PROVE  AgreeInv'
<1>1. CASE Receive
  BY <1>1, AgreeReceive DEF Receive
<1>2. ASSUME NEW n \in Nodes, AuditCrash(n) PROVE FALSE
  BY <1>2 DEF AuditCrash, Expired, AgreeInv
<1>3. CASE Audit
  BY <1>2, <1>3, AgreeTimer DEF Audit
<1>4. CASE SimNext /\ UNCHANGED dvVars
  <2>1. TypeOK
    BY DEF IInv
  <2>2. CASE \E i \in 1 .. Len(net), r \in Nodes : DropPacket(i, r)
    BY <1>4, <2>1, <2>2, AgreeDrop
  <2>3. ASSUME NEW newUp, SetInterfaces(newUp) PROVE AgreeInv'
    BY <1>4, <2>3, AgreeCommand
  <2>4. CASE Settle
    BY <1>4, <2>4, AgreeSettle
  <2>5. CASE HelloInstant
    BY <1>4, <2>1, <2>5, AgreeInstant
  <2> QED BY <1>4, <2>2, <2>3, <2>4, <2>5 DEF SimNext, LinkOperation, AllInterfacesOperation
<1>5. CASE UNCHANGED vars
  <2>1. UNCHANGED <<up, net, due, calm, age, dv, costs, neighborTable, heard, vectors, crashed>>
    BY <1>5 DEF vars, simVars, dvVars
  <2>2. /\ FreshPackets' = FreshPackets /\ LiveLinks' = LiveLinks
        /\ \A a, b : (Live(a, b)' <=> Live(a, b)) /\ (InTouch(a, b)' <=> InTouch(a, b))
    BY <2>1 DEF FreshPackets, LiveLinks, Live, InTouch, Told, HelloPending
  <2>3. /\ Calm' <=> Calm
        /\ \A n \in Nodes : (Introduced(n)' <=> Introduced(n)) /\ (NoStrangers(n)' <=> NoStrangers(n))
                             /\ (AsLeft(n)' <=> AsLeft(n))
    BY <2>1, <2>2 DEF Calm, Idle, Introduced, NoStrangers, AsLeft
  <2> QED BY <2>1, <2>2, <2>3 DEF AgreeInv
<1> QED BY <1>1, <1>3, <1>4, <1>5 DEF Next

(* No network of as many nodes as the limit is too wide for it.            *)
LEMMA SmallNetworks ==
  ASSUME Cardinality(Nodes) <= Limit
  PROVE  WithinLimit
<1> SUFFICES ASSUME NEW n \in Nodes, NEW d \in Nodes
             PROVE  Distance(LiveLinks, n, d) \in 0 .. (Limit - 1) \cup {INF}
  BY DEF WithinLimit
<1>1. LiveLinks \in GraphsOn(Nodes)
  BY DEF LiveLinks, GraphsOn
<1>2. Distance(LiveLinks, n, d) \in 0 .. (Cardinality(Nodes) - 1) \cup {INF}
  BY <1>1, NodesAssumption, DistanceBound
<1>3. Cardinality(Nodes) \in Nat
  BY NodesAssumption, FS_CardinalityType
<1> QED BY <1>2, <1>3, LimitAssumption

(* The exception that Known makes does not last.  A node that is thought   *)
(* to be one hop from a cost of M_INF is reached in two hops by whoever    *)
(* thinks so; that was told, and is within the limit.                      *)
LEMMA SettledAgreement ==
  ASSUME IInv, InStep, AgreeInv, Settled, Limit >= 3
  PROVE  Synchronized
<1> DEFINE min(a, d) == MinCost(costs[a], vectors[a], d)
<1>1. \A a \in Nodes : AsLeft(a) /\ costs[a] = LiveLinks[a]
  BY IdleAgreement DEF Settled, IInv
<1>2. /\ INF \in Nat /\ 16 < INF /\ NoCost = -1 /\ Limit \in 3 .. 16
  <2>1. INF \in Nat /\ 16 < INF
    BY SMT DEF INF
  <2> QED BY <2>1, LimitAssumption DEF NoCost
<1>3. /\ dv \in [Nodes -> Vectors] /\ vectors \in [Nodes -> [Nodes -> Vectors]]
      /\ costs \in [Nodes -> SUBSET Nodes]
  BY DEF IInv, TypeOK, Vectors
(* An offer of at most 2 is taken.                                         *)
<1>4. ASSUME NEW a \in Nodes, NEW b \in costs[a], NEW d \in Nodes \ {a}, vectors[a][b][d] \in 0 .. 2
      PROVE  dv[a][d] \in 0 .. (vectors[a][b][d] + 1)
  <2>1. b \in Offering(costs[a], vectors[a], d)
    BY <1>2, <1>4 DEF Offering
  <2>2. min(a, d) \in Nat /\ min(a, d) <= Extended(vectors[a][b][d])
    BY <1>3, <2>1, MinCostProperties
  <2>3. Extended(vectors[a][b][d]) = vectors[a][b][d] + 1
    BY <1>2, <1>4 DEF Extended
  <2>4. min(a, d) <= Limit => dv[a][d] = min(a, d)
    BY DEF InStep, Computed
  <2> HIDE DEF min
  <2> QED BY <1>2, <1>4, <2>2, <2>3, <2>4
<1>5. ASSUME NEW n \in Nodes, NEW m \in costs[n], NEW d \in Nodes \ {n}
      PROVE  SameCost(dv[m][d], vectors[n][m][d])
  <2>1. m \in Nodes /\ n \in costs[m] /\ Known(dv[m], n, vectors[n][m])
    BY <1>1, <1>3 DEF AsLeft
  <2>2. Known(dv[n], m, vectors[m][n])
    BY <1>1, <2>1 DEF AsLeft
  <2>3. ASSUME dv[m][d] = INF, vectors[n][m][d] = 1 PROVE FALSE
    <3>1. m # d
      BY <1>2, <2>1, <2>3 DEF InStep, Computed
    <3>2. dv[n][d] \in 0 .. 2
      BY <1>4, <2>3
    <3>3. SameCost(dv[n][d], vectors[m][n][d]) \/ dv[n][d] = INF
      BY <2>2, <3>1 DEF Known
    <3>4. vectors[m][n][d] = dv[n][d]
      BY <1>2, <3>2, <3>3 DEF SameCost
    <3>5. dv[m][d] \in 0 .. (vectors[m][n][d] + 1)
      BY <1>4, <2>1, <3>1, <3>2, <3>4
    <3> QED BY <1>2, <2>3, <3>2, <3>4, <3>5
  <2> QED BY <2>1, <2>3 DEF Known
<1> QED BY <1>1, <1>5 DEF Synchronized

OrderlyInv == IInv /\ HelloInv /\ InStep /\ AgreeInv

(* In every network, as long as each LINK or NODELINKS command waits until *)
(* the network is idle: whatever a node goes by for a neighbour is what    *)
(* that neighbour has now, or a newer vector is on its way to it, behind   *)
(* the hello that makes it welcome.                                        *)
THEOREM OrderlyInvariance == ASSUME Orderly PROVE Spec => []OrderlyInv
<1>1. Init => OrderlyInv
  BY InitIInv, HelloInvInit, InStepInit, AgreeInit DEF OrderlyInv
<1>2. OrderlyInv /\ [Next]_vars => OrderlyInv'
  BY NextIInv, HelloStep, InStepStep, AgreeStep DEF OrderlyInv
<1> QED BY <1>1, <1>2, PTL DEF Spec

(* In every network in which no two connected nodes are as far apart as    *)
(* the limit of BellmanFord, and after every sequence of such commands,    *)
(* however they split and join it: once three hello periods have passed    *)
(* and no message is in flight, all routing tables show the shortest       *)
(* paths.  No stale cost outlives the triggered messages.                  *)
THEOREM Convergence ==
  ASSUME Orderly, Limit >= 3
  PROVE  Spec /\ []WithinLimit => []RoutesAreShortestPaths
<1>1. OrderlyInv /\ WithinLimit => RoutesAreShortestPaths
  BY SettledAgreement, SynchronizedShortest DEF OrderlyInv, RoutesAreShortestPaths, Settled
<1> QED BY <1>1, OrderlyInvariance, PTL

(* A network of at most Limit nodes (16 in the code) is never too wide, so *)
(* its routing tables need no hypothesis at all.                           *)
THEOREM SmallConvergence ==
  ASSUME Orderly, Limit >= 3, Cardinality(Nodes) <= Limit
  PROVE  Spec => []RoutesAreShortestPaths
<1>1. OrderlyInv => RoutesAreShortestPaths
  BY SettledAgreement, SmallNetworks, SynchronizedShortest
     DEF OrderlyInv, RoutesAreShortestPaths, Settled
<1> QED BY <1>1, OrderlyInvariance, PTL

(* In such a scenario the comment on m_costs is true, and AuditHellos      *)
(* never erases a cost that is not there.                                  *)
THEOREM NoCrash ==
  ASSUME Orderly
  PROVE  Spec => [](NeighborsHaveCosts /\ ~crashed)
<1>1. OrderlyInv => NeighborsHaveCosts /\ ~crashed
  BY DEF OrderlyInv, AgreeInv, NeighborsHaveCosts
<1> QED BY <1>1, OrderlyInvariance, PTL

(***************************************************************************)
(* Packets of the application, in a network whose tables have settled.     *)
(***************************************************************************)
DataPackets ==
  [status : {"transit", "delivered", "dropped"}, src : Nodes, dst : Nodes,
   from : Nodes, at : Nodes, ttl : Int, hops : Nat, settled : BOOLEAN]

(* On its way, a packet that was sent to a settled network still finds it  *)
(* settled, came over a link that works, and is as many hops closer to its *)
(* destination as it has travelled and as its TTL has lost.                *)
OnShortestPath(p) ==
  LET D(x) == Distance(LiveLinks, x, p.dst)
  IN  /\ p.status = "transit" =>
           /\ Settled
           /\ p.from \in up[p.at]
           /\ p.hops >= 1 /\ p.ttl = TTL - p.hops
           /\ D(p.src) \in 0 .. Cardinality(Nodes) /\ D(p.at) \in 0 .. Cardinality(Nodes)
           /\ p.hops + D(p.at) = D(p.src)
      /\ p.status = "delivered" => p.hops = D(p.src)
      /\ p.status = "dropped" => D(p.src) = INF

DeliveryInv ==
  \/ packet = Data!Idle
  \/ /\ packet \in DataPackets
     /\ packet.settled => OnShortestPath(packet)

(* Forwarding means the same distances.                                    *)
LEMMA SameDistances ==
  /\ Data!NoNode = NoNode /\ Data!INF = INF
  /\ \A g, a, b : Data!Distance(g, a, b) = Distance(g, a, b)
<1>1. Data!NoNode = NoNode
  BY DEF Data!NoNode, NoNode
<1>2. Data!INF = INF
  BY SMT DEF Data!INF, INF
<1>3. ASSUME NEW g, NEW a PROVE Data!Ball(g, a) = Ball(g, a)
  BY DEF Data!Ball, Ball
<1>4. ASSUME NEW S PROVE Data!Cardinality(S) = Cardinality(S)
  BY DEF Data!Cardinality, Cardinality
<1>5. ASSUME NEW g, NEW a, NEW b PROVE Data!Distance(g, a, b) = Distance(g, a, b)
  <2> DEFINE R == {k \in 0 .. Cardinality(DOMAIN g) : b \in Ball(g, a)[k]}
             Q == {k \in 0 .. Data!Cardinality(DOMAIN g) : b \in Data!Ball(g, a)[k]}
             Least(T) == CHOOSE k \in T : \A j \in T : k <= j
  <2>1. R = Q
    BY <1>3, <1>4
  <2>2. Distance(g, a, b) = IF R = {} THEN INF ELSE Least(R)
    BY DEF Distance
  <2>3. Data!Distance(g, a, b) = IF Q = {} THEN Data!INF ELSE Least(Q)
    BY DEF Data!Distance
  <2> HIDE DEF R, Q, Least
  <2> QED BY <1>2, <2>1, <2>2, <2>3
<1> QED BY <1>1, <1>2, <1>5

(* The working links are a graph, the same one for both modules.           *)
LEMMA LiveGraph ==
  ASSUME SimTypeOK
  PROVE  /\ LiveLinks \in GraphsOn(Nodes) /\ IsFiniteSet(Nodes) /\ Cardinality(Nodes) \in Nat
         /\ Data!LiveLinks = LiveLinks
<1>1. LiveLinks \in GraphsOn(Nodes) /\ IsFiniteSet(Nodes)
  BY NodesAssumption DEF LiveLinks, GraphsOn
<1>2. Cardinality(Nodes) \in Nat
  BY <1>1, FS_CardinalityType
<1>3. Data!LiveLinks = LiveLinks
  BY DEF Data!LiveLinks, LiveLinks, Live
<1> QED BY <1>1, <1>2, <1>3

(* A table that shows the shortest paths sends every packet that can       *)
(* arrive over a working link to a node one hop closer.                    *)
LEMMA SettledRoute ==
  ASSUME IInv, RoutesAreShortestPaths, Settled, Cardinality(Nodes) < INF - 1,
         NEW n \in Nodes, NEW d \in Nodes, n # d
  PROVE  LET hop  == Data!SearchTable(n, d)
             D(x) == Distance(LiveLinks, x, d)
         IN  \/ hop = NoNode /\ D(n) = INF
             \/ /\ hop \in Nodes /\ hop # NoNode /\ hop \in up[n] /\ n \in up[hop]
                /\ D(n) \in 1 .. Cardinality(Nodes) /\ D(hop) \in 0 .. Cardinality(Nodes)
                /\ D(hop) + 1 = D(n)
<1> DEFINE r == routingTable[n][d]
           hop == r.nextHop
           D(x) == Distance(LiveLinks, x, d)
           C == Cardinality(Nodes)
<1>1. Data!SearchTable(n, d) = hop
  BY DEF Data!SearchTable
<1>2. r \in Routes /\ SimTypeOK
  BY DEF IInv, TypeOK
<1>3. /\ LiveLinks \in GraphsOn(Nodes) /\ IsFiniteSet(Nodes) /\ C \in Nat
  BY <1>2, LiveGraph
<1>4. r.cost = D(n) /\ (r # NoRoute => Live(n, hop) /\ D(hop) = r.cost - 1)
  BY DEF RoutesAreShortestPaths, ShortestPaths, Settled
<1>5. \A x \in Nodes : D(x) \in 0 .. C \cup {INF}
  BY <1>3, DistanceRange
<1>6. INF \in Nat /\ 16 < INF
  BY SMT DEF INF
<1> HIDE DEF D, C, r
<1>7. CASE r = NoRoute
  <2>1. hop = NoNode /\ r.cost = INF
    BY <1>7 DEF NoRoute
  <2> QED BY <1>1, <1>4, <2>1 DEF D
<1>8. CASE r # NoRoute
  <2>1. hop \in Nodes /\ r.cost \in 0 .. Limit /\ hop # NoNode /\ Limit \in 1 .. 16
    BY <1>2, <1>8, NodesAssumption, LimitAssumption DEF Routes, NoNode
  <2>2. Live(n, hop) /\ D(hop) = r.cost - 1
    BY <1>4, <1>8
  <2>3. D(hop) \in 0 .. C \cup {INF} /\ D(n) \in 0 .. C \cup {INF}
    BY <1>5, <2>1
  <2>4. D(n) \in 1 .. C /\ D(hop) \in 0 .. C /\ D(hop) + 1 = D(n)
    BY <1>3, <1>4, <1>6, <2>1, <2>2, <2>3
  <2> QED BY <1>1, <2>1, <2>2, <2>4 DEF D, C, Live
<1> QED BY <1>7, <1>8

(* A packet that is sent out has its type, whatever the tables say.        *)
LEMMA TransmitType ==
  ASSUME IInv, NEW p \in DataPackets, NEW n \in Nodes, NEW hop
  PROVE  /\ Data!Transmit(p, n, hop) \in DataPackets
         /\ Data!Transmit(p, n, hop).settled = p.settled
<1>1. up[n] \subseteq Nodes
  BY DEF IInv, TypeOK, SimTypeOK
<1>2. CASE hop \in up[n]
  <2>1. Data!Transmit(p, n, hop) =
          [p EXCEPT !.from = n, !.at = hop, !.ttl = p.ttl - 1, !.hops = p.hops + 1]
    BY <1>2 DEF Data!Transmit
  <2>2. p.ttl - 1 \in Int /\ p.hops + 1 \in Nat /\ hop \in Nodes
    BY <1>1, <1>2 DEF DataPackets
  <2> QED BY <2>1, <2>2 DEF DataPackets
<1>3. CASE hop \notin up[n]
  BY <1>3 DEF Data!Transmit, DataPackets
<1> QED BY <1>2, <1>3

(* RouteOutput puts the packet on a shortest path, or finds that there is  *)
(* none.                                                                   *)
LEMMA DeliverySend ==
  ASSUME IInv, RoutesAreShortestPaths, TTL \in 0 .. 255, Cardinality(Nodes) <= TTL,
         SendPacket
  PROVE  DeliveryInv'
<1> DEFINE settled == Idle /\ age = Drain
<1>1. PICK s \in Nodes, d \in Nodes : s # d /\ Data!Send(s, d, settled) /\ UNCHANGED vars
  BY DEF SendPacket
<1> DEFINE p == [status |-> "transit", src |-> s, dst |-> d, from |-> s, at |-> s,
                 ttl |-> TTL, hops |-> 0, settled |-> settled]
           hop == Data!SearchTable(s, d)
           C == Cardinality(Nodes)
           D(x) == Distance(LiveLinks, x, d)
<1>2. packet' = Data!Transmit(p, s, hop)
  BY <1>1 DEF Data!Send, Data!RouteOutput
<1>3. p \in DataPackets
  BY DEF DataPackets
<1>4. packet' \in DataPackets /\ packet'.settled = settled
  <2> HIDE DEF p, hop
  <2> QED BY <1>2, <1>3, TransmitType DEF p
<1>5. UNCHANGED <<up, net, due, calm, age>> /\ LiveLinks' = LiveLinks
  BY <1>1 DEF vars, simVars, LiveLinks, Live
<1>6. SimTypeOK /\ C \in Nat /\ C < INF - 1
  <2>1. SimTypeOK
    BY DEF IInv, TypeOK
  <2>2. INF \in Nat /\ 256 < INF
    BY SMT DEF INF
  <2>3. C \in Nat
    BY <2>1, LiveGraph
  <2> QED BY <2>1, <2>2, <2>3
<1>7. ASSUME settled PROVE OnShortestPath(packet)'
  <2>1. \/ hop = NoNode /\ D(s) = INF
        \/ /\ hop \in Nodes /\ hop # NoNode /\ hop \in up[s] /\ s \in up[hop]
           /\ D(s) \in 1 .. C /\ D(hop) \in 0 .. C /\ D(hop) + 1 = D(s)
    BY <1>1, <1>6, <1>7, SettledRoute DEF Settled
  <2>2. NoNode \notin up[s]
    BY <1>6, NodesAssumption DEF SimTypeOK, NoNode
  <2>3. CASE hop = NoNode /\ D(s) = INF
    <3>1. packet' = [p EXCEPT !.status = "dropped"]
      BY <1>2, <2>2, <2>3 DEF Data!Transmit
    <3>2. packet'.status = "dropped" /\ packet'.src = s /\ packet'.dst = d
      BY <3>1
    <3> QED BY <1>5, <2>3, <3>2 DEF OnShortestPath
  <2>4. CASE /\ hop \in Nodes /\ hop # NoNode /\ hop \in up[s] /\ s \in up[hop]
             /\ D(s) \in 1 .. C /\ D(hop) \in 0 .. C /\ D(hop) + 1 = D(s)
    <3>1. packet' = [p EXCEPT !.from = s, !.at = hop, !.ttl = TTL - 1, !.hops = 0 + 1]
      <4> HIDE DEF hop
      <4> QED BY <1>2, <2>4 DEF Data!Transmit
    <3> HIDE DEF hop
    <3>2. /\ packet'.status = "transit" /\ packet'.src = s /\ packet'.dst = d
          /\ packet'.from = s /\ packet'.at = hop /\ packet'.ttl = TTL - 1 /\ packet'.hops = 1
      BY <3>1
    <3>3. Settled'
      BY <1>5, <1>7 DEF Settled, Idle
    <3> HIDE DEF D, C
    <3>4. /\ packet'.hops >= 1 /\ packet'.ttl = TTL - packet'.hops
          /\ D(s) \in 0 .. C /\ D(hop) \in 0 .. C
          /\ packet'.hops + D(hop) = D(s)
      BY <1>6, <2>4, <3>2
    <3>5. s \in up'[hop]
      BY <1>5, <2>4
    <3> QED BY <1>5, <3>2, <3>3, <3>4, <3>5 DEF OnShortestPath, D, C
  <2> QED BY <2>1, <2>3, <2>4
<1> QED BY <1>4, <1>7 DEF DeliveryInv

(* RouteInput keeps it there, and its TTL does not run out.                *)
LEMMA DeliveryReceive ==
  ASSUME IInv, RoutesAreShortestPaths, TTL \in 0 .. 255, Cardinality(Nodes) <= TTL,
         DeliveryInv, ReceivePacket
  PROVE  DeliveryInv'
<1> DEFINE p == packet
           r == packet.at
           d == packet.dst
           hop == Data!RouteInput(r, d)
           C == Cardinality(Nodes)
           D(x) == Distance(LiveLinks, x, d)
<1>1. UNCHANGED vars /\ Data!Receive
  BY DEF ReceivePacket
<1>2. p \in DataPackets /\ p.status = "transit" /\ (p.settled => OnShortestPath(p))
  BY <1>1 DEF DeliveryInv, Data!Receive, Data!InTransit, Data!Idle
<1>3. packet' = IF p.from \notin up[r] THEN [p EXCEPT !.status = "dropped"]
                ELSE IF r = d THEN [p EXCEPT !.status = "delivered"]
                ELSE IF r = p.src \/ p.ttl = 0 THEN [p EXCEPT !.status = "dropped"]
                ELSE Data!Transmit(p, r, hop)
  BY <1>1 DEF Data!Receive
<1>4. /\ r \in Nodes /\ d \in Nodes /\ p.src \in Nodes /\ p.settled \in BOOLEAN
      /\ p.hops \in Nat /\ p.ttl \in Int
  BY <1>2 DEF DataPackets
<1> HIDE DEF hop
<1>5. packet' \in DataPackets /\ packet'.settled = p.settled
  <2>1. ASSUME NEW x \in {"delivered", "dropped"}
        PROVE  [p EXCEPT !.status = x] \in DataPackets /\ [p EXCEPT !.status = x].settled = p.settled
    BY <1>2 DEF DataPackets
  <2>2. Data!Transmit(p, r, hop) \in DataPackets /\ Data!Transmit(p, r, hop).settled = p.settled
    BY <1>2, <1>4, TransmitType
  <2> QED BY <1>3, <2>1, <2>2
<1>6. UNCHANGED <<up, net, due, calm, age>> /\ LiveLinks' = LiveLinks
  BY <1>1 DEF vars, simVars, LiveLinks, Live
<1>7. SimTypeOK /\ C \in Nat /\ C < INF - 1
  <2>1. SimTypeOK
    BY DEF IInv, TypeOK
  <2>2. INF \in Nat /\ 256 < INF
    BY SMT DEF INF
  <2>3. C \in Nat
    BY <2>1, LiveGraph
  <2> QED BY <2>1, <2>2, <2>3
<1>8. ASSUME p.settled PROVE OnShortestPath(packet)'
  <2>1. /\ Settled /\ p.from \in up[r]
        /\ p.hops >= 1 /\ p.ttl = TTL - p.hops
        /\ D(p.src) \in 0 .. C /\ D(r) \in 0 .. C
        /\ p.hops + D(r) = D(p.src)
    BY <1>2, <1>8 DEF OnShortestPath
  <2>2. CASE r = d
    <3>1. packet' = [p EXCEPT !.status = "delivered"]
      BY <1>3, <2>1, <2>2
    <3>2. packet'.status = "delivered" /\ packet'.src = p.src /\ packet'.dst = d
          /\ packet'.hops = p.hops
      BY <1>2, <3>1 DEF DataPackets
    <3>3. D(r) = 0
      BY <1>4, <1>7, <2>2, LiveGraph, DistanceRange
    <3> HIDE DEF D
    <3>4. p.hops = D(p.src)
      BY <1>4, <1>7, <2>1, <3>3
    <3> QED BY <1>6, <3>2, <3>4 DEF OnShortestPath, D
  <2>3. CASE r # d
    <3>1. LET h == Data!SearchTable(r, d)
          IN  \/ h = NoNode /\ D(r) = INF
              \/ /\ h \in Nodes /\ h # NoNode /\ h \in up[r] /\ r \in up[h]
                 /\ D(r) \in 1 .. C /\ D(h) \in 0 .. C /\ D(h) + 1 = D(r)
      BY <1>4, <1>7, <2>1, <2>3, SettledRoute
    <3>2. /\ hop \in Nodes /\ hop \in up[r] /\ r \in up[hop]
          /\ D(r) \in 1 .. C /\ D(hop) \in 0 .. C /\ D(hop) + 1 = D(r)
      <4>1. D(r) # INF
        <5> HIDE DEF D, C
        <5> QED BY <1>7, <2>1
      <4> QED BY <3>1, <4>1, SameDistances DEF hop, Data!RouteInput
    <3>3. r # p.src /\ p.ttl # 0
      <4>1. ASSUME r = p.src PROVE FALSE
        <5>1. p.hops + D(r) = D(r) /\ D(r) \in Nat
          BY <2>1, <4>1, <1>7
        <5> HIDE DEF D
        <5> QED BY <1>4, <2>1, <5>1
      <4>2. p.ttl # 0
        <5> HIDE DEF D, C
        <5> QED BY <1>4, <1>7, <2>1, <3>2 DEF C
      <4> QED BY <4>1, <4>2
    <3>4. packet' = [p EXCEPT !.from = r, !.at = hop, !.ttl = p.ttl - 1, !.hops = p.hops + 1]
      BY <1>3, <2>1, <2>3, <3>2, <3>3 DEF Data!Transmit
    <3>5. /\ packet'.status = "transit" /\ packet'.src = p.src /\ packet'.dst = d
          /\ packet'.from = r /\ packet'.at = hop
          /\ packet'.ttl = p.ttl - 1 /\ packet'.hops = p.hops + 1
      BY <1>2, <3>4 DEF DataPackets
    <3>6. Settled'
      BY <1>6, <2>1 DEF Settled, Idle
    <3>7. /\ packet'.hops >= 1 /\ packet'.ttl = TTL - packet'.hops
          /\ D(p.src) \in 0 .. C /\ D(hop) \in 0 .. C
          /\ packet'.hops + D(hop) = D(p.src)
      <4> HIDE DEF D, C, r
      <4> QED BY <1>4, <1>7, <2>1, <3>2, <3>5
    <3>8. r \in up'[hop]
      BY <1>6, <3>2
    <3> QED BY <1>6, <3>5, <3>6, <3>7, <3>8 DEF OnShortestPath
  <2> QED BY <2>2, <2>3
<1> QED BY <1>5, <1>8 DEF DeliveryInv

(* While the packet travels, nothing but a LINK command can disturb a      *)
(* network that has settled.                                               *)
LEMMA DeliveryProtocol ==
  ASSUME IInv, DeliveryInv, ProtocolStep
  PROVE  DeliveryInv'
<1>1. CASE ~Data!InTransit
  BY <1>1 DEF ProtocolStep, DeliveryInv
<1>2. CASE Data!InTransit /\ up' # up
  <2>1. packet' = [packet EXCEPT !.settled = FALSE]
    BY <1>2 DEF ProtocolStep, Data!Unsettled
  <2>2. packet \in DataPackets
    BY <1>2 DEF DeliveryInv, Data!InTransit, Data!Idle
  <2>3. packet' \in DataPackets /\ ~packet'.settled
    BY <2>1, <2>2 DEF DataPackets
  <2> QED BY <2>3 DEF DeliveryInv
<1>3. CASE Data!InTransit /\ up' = up
  <2>1. packet' = packet /\ due' = {} /\ Next
    BY <1>3 DEF ProtocolStep
  <2>2. packet \in DataPackets /\ packet.status = "transit"
    BY <1>3 DEF DeliveryInv, Data!InTransit, Data!Idle
  <2>3. LiveLinks' = LiveLinks
    BY <1>3 DEF LiveLinks, Live
  <2>4. Settled => Settled'
    <3> SUFFICES ASSUME Settled PROVE Settled'
      OBVIOUS
    <3>1. net = <<>> /\ due = {} /\ calm /\ age = Drain
      BY DEF Settled, Idle
    <3>2. ~Receive
      BY <3>1 DEF Receive
    <3>3. ~Audit
      BY <3>1 DEF Audit, AuditHellos, AuditCrash, FirstDue
    <3>4. SimNext
      BY <2>1, <3>2, <3>3 DEF Next
    <3>5. ~ \E i \in 1 .. Len(net), x \in Nodes : DropPacket(i, x)
      BY <3>1
    <3>6. ASSUME NEW newUp, SetInterfaces(newUp) PROVE FALSE
      BY <1>3, <3>6 DEF SetInterfaces
    <3>7. ~HelloInstant
      <4>1. HelloInstant => Nodes = {}
        BY <2>1 DEF HelloInstant
      <4>2. packet.at \in Nodes
        BY <2>2 DEF DataPackets
      <4> QED BY <4>1, <4>2
    <3>8. ~Settle
      BY <3>1 DEF Settle
    <3> QED BY <3>4, <3>5, <3>6, <3>7, <3>8 DEF SimNext, LinkOperation, AllInterfacesOperation
  <2>5. packet.settled => OnShortestPath(packet)'
    BY <1>3, <2>1, <2>2, <2>3, <2>4 DEF DeliveryInv, OnShortestPath, Data!Idle
  <2> QED BY <2>1, <2>2, <2>5 DEF DeliveryInv
<1> QED BY <1>1, <1>2, <1>3

(* End to end: whenever the tables show the shortest paths in a settled    *)
(* network, a packet that is sent to one reaches its destination over a    *)
(* shortest path, and is dropped only if there is none; in every network   *)
(* whose paths the TTL of the IP header suffices for.                      *)
THEOREM Delivery ==
  ASSUME TTL \in 0 .. 255, Cardinality(Nodes) <= TTL
  PROVE  DataSpec /\ []RoutesAreShortestPaths => []PacketsDelivered
<1>1. Init /\ packet = Data!Idle => IInv /\ DeliveryInv
  BY InitIInv DEF DeliveryInv
<1>2. DataNext \/ UNCHANGED <<vars, packet>> => [Next]_vars
  BY DEF DataNext, SendPacket, ReceivePacket, ProtocolStep
<1>3. IInv /\ [DataNext]_<<vars, packet>> => IInv'
  BY <1>2, NextIInv
<1>4. IInv /\ DeliveryInv /\ RoutesAreShortestPaths /\ [DataNext]_<<vars, packet>> => DeliveryInv'
  <2> SUFFICES ASSUME IInv, DeliveryInv, RoutesAreShortestPaths, [DataNext]_<<vars, packet>>
               PROVE  DeliveryInv'
    OBVIOUS
  <2>1. CASE SendPacket
    BY <2>1, DeliverySend
  <2>2. CASE ReceivePacket
    BY <2>2, DeliveryReceive
  <2>3. CASE ProtocolStep
    BY <2>3, DeliveryProtocol
  <2>4. CASE UNCHANGED <<vars, packet>>
    <3>1. packet' = packet /\ UNCHANGED <<up, net, due, calm, age>> /\ LiveLinks' = LiveLinks
      BY <2>4 DEF vars, simVars, LiveLinks, Live
    <3> QED BY <3>1 DEF DeliveryInv, OnShortestPath, Settled, Idle
  <2> QED BY <2>1, <2>2, <2>3, <2>4 DEF DataNext
<1>5. IInv /\ DeliveryInv => PacketsDelivered
  <2> SUFFICES ASSUME IInv, DeliveryInv PROVE PacketsDelivered
    OBVIOUS
  <2>1. Data!LiveLinks = LiveLinks
    BY LiveGraph DEF IInv, TypeOK
  <2> QED BY <2>1, SameDistances
       DEF DeliveryInv, OnShortestPath, PacketsDelivered, Data!SettledDelivery
<1> QED BY <1>1, <1>3, <1>4, <1>5, PTL DEF DataSpec

(* The same without a hypothesis about the tables, where Convergence has   *)
(* none: commands to an idle network of at most as many nodes as the limit *)
(* of BellmanFord and the TTL.                                             *)
THEOREM SmallDelivery ==
  ASSUME TTL \in 0 .. 255, Cardinality(Nodes) <= TTL,
         Orderly, Limit >= 3, Cardinality(Nodes) <= Limit
  PROVE  DataSpec => []PacketsDelivered
<1>1. DataNext \/ UNCHANGED <<vars, packet>> => [Next]_vars
  BY DEF DataNext, SendPacket, ReceivePacket, ProtocolStep
<1>2. DataSpec => Spec
  BY <1>1, PTL DEF DataSpec, Spec
<1> QED BY <1>2, SmallConvergence, Delivery, PTL
=============================================================================
