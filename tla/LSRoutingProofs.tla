--------------------------- MODULE LSRoutingProofs ---------------------------
(***************************************************************************)
(* Safety of LSRouting for every topology, every sequence-number width and *)
(* every number of rounds and commands.                                    *)
(***************************************************************************)
EXTENDS LSForwarding, DijkstraProofs

(***************************************************************************)
(* The network.                                                            *)
(***************************************************************************)
(* The steps of the simulator itself preserve its type invariant; the only *)
(* thing they do to the network is to drop a copy of a packet.             *)
LEMMA SimNextStep ==
  ASSUME SimTypeOK, SimNext
  PROVE  /\ SimTypeOK'
         /\ \/ net' = net
            \/ \E i \in 1 .. Len(net), r \in Nodes : net' = InFlightWithout(i, r)
<1>1. CASE \E i \in 1 .. Len(net), r \in Nodes : DropPacket(i, r)
  BY <1>1 DEF DropPacket, SimTypeOK, clock
<1>2. ASSUME NEW newUp \in [Nodes -> SUBSET Nodes], SetInterfaces(newUp)
      PROVE  SimTypeOK' /\ net' = net
  BY <1>2, BoundsAssumption DEF SetInterfaces, SimTypeOK, Drain
<1>3. ASSUME NEW a \in Nodes, NEW b \in Nodes, NEW isUp \in BOOLEAN, LinkOperation(a, b, isUp)
      PROVE  SimTypeOK' /\ net' = net
  <2> DEFINE newUp ==
        [x \in Nodes |-> LET ends == {a, b} \ {x}
                         IN  IF x \notin {a, b} THEN up[x]
                             ELSE IF isUp THEN up[x] \cup ends ELSE up[x] \ ends]
  <2>1. newUp \in [Nodes -> SUBSET Nodes]
    BY DEF SimTypeOK
  <2>2. SetInterfaces(newUp)
    BY <1>3 DEF LinkOperation
  <2> QED BY <1>2, <2>1, <2>2
<1>4. ASSUME NEW a \in Nodes, NEW isUp \in BOOLEAN, AllInterfacesOperation(a, isUp)
      PROVE  SimTypeOK' /\ net' = net
  <2> DEFINE newUp == [up EXCEPT ![a] = IF isUp THEN Adjacent(a) ELSE {}]
  <2>1. newUp \in [Nodes -> SUBSET Nodes]
    BY DEF SimTypeOK, Adjacent
  <2>2. SetInterfaces(newUp)
    BY <1>4 DEF AllInterfacesOperation
  <2> QED BY <1>2, <2>1, <2>2
<1>5. CASE Settle
  BY <1>5 DEF Settle, SimTypeOK
<1>6. CASE HelloInstant
  <2>1. net' = net /\ up' = up /\ ops' = ops /\ due' = Nodes /\ calm' = FALSE
    BY <1>6 DEF HelloInstant
  <2>2. round' \in 0 .. MaxRounds /\ age' \in 0 .. Drain
    BY <1>6, BoundsAssumption DEF SimTypeOK, HelloInstant, Drain
  <2> QED BY <2>1, <2>2 DEF SimTypeOK
<1> QED BY <1>1, <1>3, <1>4, <1>5, <1>6 DEF SimNext

(* Packets in flight, all of whose link-state messages are in S.           *)
Flooded(q, S) ==
  /\ q \in Seq(Packets)
  /\ \A j \in 1 .. Len(q) : q[j].msg \in LSMessages => q[j].msg \in S

(* Taking a copy off the network leaves messages that were in flight.      *)
LEMMA InFlightWithoutFlooded ==
  ASSUME NEW S, Flooded(net, S), NEW i \in 1 .. Len(net), NEW r \in Nodes
  PROVE  Flooded(InFlightWithout(i, r), S)
<1>1. net \in Seq(Packets) /\ net[i] \in Packets
  BY DEF Flooded
<1>2. CASE net[i].to = {r}
  <2> DEFINE w == RemoveAt(net, i)
  <2>1. InFlightWithout(i, r) = w
    BY <1>2 DEF InFlightWithout
  <2>2. /\ w \in Seq(Packets) /\ Len(w) = Len(net) - 1
        /\ \A j \in 1 .. Len(net) - 1 : w[j] = IF j < i THEN net[j] ELSE net[j + 1]
    BY <1>1, RemoveAtElements
  <2> HIDE DEF w
  <2>3. \A j \in 1 .. Len(w) : \E k \in 1 .. Len(net) : w[j] = net[k]
    BY <1>1, <2>2
  <2> QED BY <2>1, <2>2, <2>3 DEF Flooded
<1>3. CASE net[i].to # {r}
  <2> DEFINE p == [net[i] EXCEPT !.to = @ \ {r}]
  <2>1. InFlightWithout(i, r) = [net EXCEPT ![i] = p]
    BY <1>3 DEF InFlightWithout
  <2>2. p \in Packets /\ p.msg = net[i].msg
    BY <1>1 DEF Packets
  <2> HIDE DEF p
  <2>3. /\ [net EXCEPT ![i] = p] \in Seq(Packets)
        /\ Len([net EXCEPT ![i] = p]) = Len(net)
        /\ \A j \in 1 .. Len(net) : [net EXCEPT ![i] = p][j] = IF j = i THEN p ELSE net[j]
    BY <1>1, <2>2
  <2> QED BY <2>1, <2>2, <2>3 DEF Flooded
<1> QED BY <1>2, <1>3

(* Sending appends.                                                        *)
LEMMA ConcatFlooded ==
  ASSUME NEW S, NEW a, NEW b, Flooded(a, S), Flooded(b, S)
  PROVE  Flooded(a \o b, S)
<1>1. a \in Seq(Packets) /\ b \in Seq(Packets)
  BY DEF Flooded
<1>2. /\ a \o b \in Seq(Packets)
      /\ Len(a \o b) = Len(a) + Len(b)
      /\ \A j \in 1 .. Len(a) + Len(b) :
           (a \o b)[j] = IF j <= Len(a) THEN a[j] ELSE b[j - Len(a)]
  BY <1>1, ConcatProperties
<1>3. ASSUME NEW j \in 1 .. Len(a \o b), (a \o b)[j].msg \in LSMessages
      PROVE  (a \o b)[j].msg \in S
  <2>1. CASE j <= Len(a)
    BY <1>1, <1>2, <1>3, <2>1 DEF Flooded
  <2>2. CASE ~(j <= Len(a))
    <3>1. j - Len(a) \in 1 .. Len(b)
      BY <1>1, <1>2, <2>2
    <3>2. (a \o b)[j] = b[j - Len(a)]
      BY <1>1, <1>2, <2>2
    <3> QED BY <1>3, <3>1, <3>2 DEF Flooded
  <2> QED BY <2>1, <2>2
<1> QED BY <1>2, <1>3 DEF Flooded

(* A broadcast puts copies of its one message on the network.              *)
LEMMA BroadcastFlooded ==
  ASSUME NEW S, up \in [Nodes -> SUBSET Nodes], NEW n \in Nodes,
         NEW m \in Messages, m \in LSMessages => m \in S
  PROVE  Flooded(BroadcastPacket(n, m), S)
<1> DEFINE p == [from |-> n, to |-> up[n], msg |-> m]
<1>1. p \in Packets
  BY DEF Packets
<1>2. p.msg = m
  OBVIOUS
<1> HIDE DEF p
<1>3. Flooded(<<>>, S)
  BY DEF Flooded
<1>4. Flooded(<<p>>, S)
  BY <1>1, <1>2 DEF Flooded
<1> QED BY <1>3, <1>4 DEF BroadcastPacket, p

(* Recording more messages as sent keeps what was recorded.                *)
LEMMA FloodedMonotone ==
  ASSUME NEW S, NEW T, NEW q, Flooded(q, S), S \subseteq T
  PROVE  Flooded(q, T)
BY DEF Flooded

(***************************************************************************)
(* The inductive invariant.  EntriesAuthentic speaks of the tables; what   *)
(* enters the tables comes from the network, so the induction also needs   *)
(* that every link-state message in flight was really originated.          *)
(***************************************************************************)
IInv == LiveTypeOK /\ Flooded(net, sent) /\ EntriesAuthentic /\ OwnEntryPresent

Entries == LSTableEntry \cup {NoEntry}

(* The absent entry is not an entry.                                       *)
LEMMA NoEntryIsNone == NoEntry \notin LSTableEntry
BY SeqLimitAssumption DEF NoEntry, LSTableEntry, SeqNums, NoNode

(* The sequence numbers of a 2^32-valued counter.                          *)
LEMMA NextSequenceNumber ==
  ASSUME NEW s \in SeqNums
  PROVE  GetNextSequenceNumber(s) \in SeqNums
BY SeqLimitAssumption DEF GetNextSequenceNumber, SeqNums

(* What a node receives is well formed, and a link-state message it        *)
(* receives was originated by the node it names.                           *)
LEMMA ReceivedMessage ==
  ASSUME Flooded(net, sent), NEW i \in 1 .. Len(net)
  PROVE  /\ net[i] \in Packets
         /\ net[i].msg.type = "HELLO_REQ" => net[i].msg \in HelloMessages
         /\ net[i].msg.type = "LS_TABLE_MSG" =>
              net[i].msg \in LSMessages /\ net[i].msg \in sent
<1>1. net[i] \in Packets
  BY DEF Flooded
<1>2. net[i].msg \in HelloMessages \cup LSMessages
  BY <1>1 DEF Packets, Messages
<1>3. net[i].msg.type = "HELLO_REQ" => net[i].msg \in HelloMessages
  BY <1>2 DEF LSMessages
<1>4. net[i].msg.type = "LS_TABLE_MSG" => net[i].msg \in LSMessages
  BY <1>2 DEF HelloMessages
<1> QED BY <1>1, <1>3, <1>4 DEF Flooded

(* The messages a node originates.                                         *)
LEMMA SentMessages ==
  ASSUME NEW n \in Nodes, NEW s \in SeqNums, NEW nbrs \in SUBSET Nodes
  PROVE  /\ LSTableMessage(n, s, nbrs) \in LSMessages
         /\ LSTableMessage(n, s, nbrs) \in Messages
         /\ [type |-> "HELLO_REQ", orig |-> n, seq |-> s] \in Messages
         /\ [type |-> "HELLO_REQ", orig |-> n, seq |-> s] \notin LSMessages
BY DEF LSTableMessage, LSMessages, HelloMessages, Messages

(* A broadcast hello.                                                      *)
LEMMA HelloFlooded ==
  ASSUME NEW S, up \in [Nodes -> SUBSET Nodes], NEW n \in Nodes, NEW s \in SeqNums
  PROVE  Flooded(SendHello(n, s), S)
<1>1. /\ [type |-> "HELLO_REQ", orig |-> n, seq |-> s] \in Messages
      /\ [type |-> "HELLO_REQ", orig |-> n, seq |-> s] \notin LSMessages
  BY SentMessages
<1> QED BY <1>1, BroadcastFlooded DEF SendHello

(* The initial states satisfy the invariant.                               *)
THEOREM InitIInv == Init => IInv
<1> SUFFICES ASSUME Init PROVE IInv
  OBVIOUS
<1>1. LiveTypeOK
  BY InitSeqsAssumption, BoundsAssumption, CmdsAssumption
     DEF Init, SimInit, LiveTypeOK, SimTypeOK, Adjacent, Drain
<1>2. Flooded(net, sent)
  BY DEF Init, SimInit, Flooded
<1>3. EntriesAuthentic /\ OwnEntryPresent
  BY DEF Init, EntriesAuthentic, OwnEntryPresent
<1> QED BY <1>1, <1>2, <1>3 DEF IInv

(***************************************************************************)
(* One lemma per action.                                                   *)
(***************************************************************************)
(* Entries that a step leaves alone stay authentic, whatever it sends.     *)
LEMMA AuthenticKept ==
  ASSUME EntriesAuthentic, sent \subseteq sent',
         \A a, o \in Nodes : o # a => lsTable'[a][o] = lsTable[a][o]
  PROVE  EntriesAuthentic'
<1> SUFFICES ASSUME NEW a \in Nodes, NEW o \in Nodes, o # a, lsTable'[a][o] # NoEntry
             PROVE  \E m \in sent' :
                      /\ m.orig = o
                      /\ m.seq = lsTable'[a][o].sequenceNumber
                      /\ GetNeighbors(lsTable'[a], o) \subseteq m.nbrs
                      /\ m.nbrs \ {a} \subseteq GetNeighbors(lsTable'[a], o)
  BY DEF EntriesAuthentic
<1>1. lsTable'[a][o] = lsTable[a][o]
  OBVIOUS
<1>2. GetNeighbors(lsTable'[a], o) = GetNeighbors(lsTable[a], o)
  BY <1>1 DEF GetNeighbors
<1> QED BY <1>1, <1>2 DEF EntriesAuthentic

(* ProcessHelloReq from a known neighbour preserves the invariant.         *)
LEMMA RefreshNeighborStep ==
  ASSUME IInv, NEW n \in Nodes, NEW i \in 1 .. Len(net), RefreshNeighbor(n, i)
  PROVE  IInv'
<1>1. net[i].msg \in HelloMessages
  BY ReceivedMessage DEF IInv, RefreshNeighbor, Receives
<1>2. Flooded(net', sent')
  BY InFlightWithoutFlooded DEF IInv, RefreshNeighbor
<1>3. LiveTypeOK'
  BY <1>1, <1>2 DEF IInv, LiveTypeOK, SimTypeOK, Flooded, RefreshNeighbor, clock, HelloMessages
<1>4. EntriesAuthentic' /\ OwnEntryPresent'
  BY DEF IInv, EntriesAuthentic, OwnEntryPresent, RefreshNeighbor
<1> QED BY <1>2, <1>3, <1>4 DEF IInv, Flooded

(* So does ProcessHelloReq from a new one, which originates a message.     *)
LEMMA DiscoverNeighborStep ==
  ASSUME IInv, NEW n \in Nodes, NEW i \in 1 .. Len(net), DiscoverNeighbor(n, i)
  PROVE  IInv'
<1> DEFINE m == net[i].msg
           lsa == LSTableMessage(n, seq[n], neighborTable'[n])
<1>1. m \in HelloMessages
  BY ReceivedMessage DEF IInv, DiscoverNeighbor, Receives
<1>2. neighborTable' \in [Nodes -> SUBSET Nodes] /\ heard' \in [Nodes -> SUBSET Nodes]
  BY <1>1 DEF IInv, LiveTypeOK, DiscoverNeighbor, HelloMessages
<1>3. seq[n] \in SeqNums /\ seq' \in [Nodes -> SeqNums]
  BY NextSequenceNumber DEF IInv, LiveTypeOK, DiscoverNeighbor
<1>4. lsa \in LSMessages /\ lsa \in Messages
  BY <1>2, <1>3, SentMessages
<1>5. sent' = sent \cup {lsa} /\ net' = InFlightWithout(i, n) \o BroadcastPacket(n, lsa)
  BY DEF DiscoverNeighbor
<1>6. Flooded(net', sent')
  <2>1. Flooded(InFlightWithout(i, n), sent')
    BY <1>5, InFlightWithoutFlooded, FloodedMonotone DEF IInv
  <2>2. Flooded(BroadcastPacket(n, lsa), sent')
    BY <1>4, <1>5, BroadcastFlooded DEF IInv, LiveTypeOK, SimTypeOK
  <2> QED BY <1>5, <2>1, <2>2, ConcatFlooded
<1> DEFINE own == AddOwnLink(lsTable[n][n], m)
<1>7. lsTable' = [lsTable EXCEPT ![n][n] = own]
  BY DEF DiscoverNeighbor
<1>8. own \in LSTableEntry
  <2>1. CASE lsTable[n][n] # NoEntry
    <3>1. lsTable[n][n] \in LSTableEntry
      BY <2>1 DEF IInv, LiveTypeOK
    <3>2. push_back(lsTable[n][n].neighborCosts, m.orig) \in [Nodes -> Nat]
      BY <1>1, <3>1 DEF push_back, LSTableEntry, HelloMessages
    <3> QED BY <2>1, <3>1, <3>2 DEF LSTableEntry, AddOwnLink
  <2>2. CASE lsTable[n][n] = NoEntry
    BY <1>1, <2>2 DEF LSTableEntry, CostsOf, HelloMessages, AddOwnLink
  <2> QED BY <2>1, <2>2
<1> HIDE DEF own, lsa
<1>9. lsTable' \in [Nodes -> [Nodes -> Entries]]
  BY <1>7, <1>8 DEF IInv, LiveTypeOK, Entries
<1>10. LiveTypeOK'
  BY <1>2, <1>3, <1>4, <1>5, <1>6, <1>9
     DEF IInv, LiveTypeOK, SimTypeOK, Flooded, DiscoverNeighbor, clock, Entries
<1>11. lsTable'[n][n] # NoEntry /\ \A a, o \in Nodes : o # a => lsTable'[a][o] = lsTable[a][o]
  BY <1>7, <1>8, NoEntryIsNone DEF IInv, LiveTypeOK
<1>12. EntriesAuthentic'
  BY <1>5, <1>11, AuthenticKept DEF IInv
<1>13. OwnEntryPresent'
  <2> SUFFICES ASSUME NEW a \in Nodes, neighborTable'[a] # {} PROVE lsTable'[a][a] # NoEntry
    BY DEF OwnEntryPresent
  <2>1. CASE a = n
    BY <2>1, <1>11
  <2>2. CASE a # n
    BY <2>2, <1>7 DEF IInv, OwnEntryPresent, LiveTypeOK, DiscoverNeighbor
  <2> QED BY <2>1, <2>2
<1> QED BY <1>6, <1>10, <1>12, <1>13 DEF IInv, Flooded

(* ProcessLSTableMessage installs the message it received, and forwards    *)
(* that same message.                                                      *)
LEMMA ProcessLSTableMessageStep ==
  ASSUME IInv, NEW n \in Nodes, NEW i \in 1 .. Len(net), ProcessLSTableMessage(n, i)
  PROVE  IInv'
<1> DEFINE m == net[i].msg
           entry == [neighborCosts |-> CostsOf(m.nbrs), sequenceNumber |-> m.seq]
<1>1. m \in LSMessages /\ m \in sent /\ m \in Messages
  BY ReceivedMessage DEF IInv, ProcessLSTableMessage, Receives, Messages
<1>2. entry \in LSTableEntry
  BY <1>1 DEF LSTableEntry, LSMessages, CostsOf
<1>3. Flooded(InFlightWithout(i, n), sent)
  BY InFlightWithoutFlooded DEF IInv
<1>4. UNCHANGED <<up, clock, ops, seq, neighborTable, heard, cmds, sent>>
  BY DEF ProcessLSTableMessage
<1>5. CASE ~IsNewer(lsTable[n], m)
  <2>1. net' = InFlightWithout(i, n) /\ UNCHANGED lsTable
    BY <1>5 DEF ProcessLSTableMessage
  <2>2. Flooded(net', sent')
    BY <1>3, <1>4, <2>1
  <2>3. LiveTypeOK'
    BY <1>4, <2>1, <2>2 DEF IInv, LiveTypeOK, SimTypeOK, Flooded, clock
  <2>4. EntriesAuthentic' /\ OwnEntryPresent'
    BY <1>4, <2>1 DEF IInv, EntriesAuthentic, OwnEntryPresent
  <2> QED BY <2>2, <2>3, <2>4 DEF IInv, Flooded
<1>6. CASE IsNewer(lsTable[n], m)
  <2> HIDE DEF entry
  <2>1. /\ net' = InFlightWithout(i, n) \o BroadcastPacket(n, m)
        /\ lsTable' = [lsTable EXCEPT ![n][m.orig] = entry]
    BY <1>6 DEF ProcessLSTableMessage, entry
  <2>2. Flooded(net', sent')
    BY <1>1, <1>3, <1>4, <2>1, BroadcastFlooded, ConcatFlooded DEF IInv, LiveTypeOK, SimTypeOK
  <2>3. lsTable' \in [Nodes -> [Nodes -> Entries]]
    BY <1>1, <1>2, <2>1 DEF IInv, LiveTypeOK, Entries, LSMessages
  <2>4. LiveTypeOK'
    BY <1>4, <2>2, <2>3 DEF IInv, LiveTypeOK, SimTypeOK, Flooded, clock, Entries
  <2>5. lsTable'[n][m.orig] = entry
    BY <1>1, <2>1 DEF IInv, LiveTypeOK, LSMessages
  <2>6. \A a, o \in Nodes : <<a, o>> # <<n, m.orig>> => lsTable'[a][o] = lsTable[a][o]
    BY <1>1, <2>1 DEF IInv, LiveTypeOK, LSMessages
  <2>7. EntriesAuthentic'
    <3> SUFFICES ASSUME NEW a \in Nodes, NEW o \in Nodes, o # a, lsTable'[a][o] # NoEntry
                 PROVE  \E l \in sent' :
                          /\ l.orig = o
                          /\ l.seq = lsTable'[a][o].sequenceNumber
                          /\ GetNeighbors(lsTable'[a], o) \subseteq l.nbrs
                          /\ l.nbrs \ {a} \subseteq GetNeighbors(lsTable'[a], o)
      BY DEF EntriesAuthentic
    <3>1. CASE <<a, o>> = <<n, m.orig>>
      <4>1. GetNeighbors(lsTable'[a], o) = m.nbrs
        BY <1>1, <2>5, <3>1 DEF GetNeighbors, entry, CostsOf, LSMessages
      <4> QED BY <1>1, <1>4, <2>5, <3>1, <4>1 DEF entry
    <3>2. CASE <<a, o>> # <<n, m.orig>>
      <4>1. lsTable'[a][o] = lsTable[a][o]
        BY <2>6, <3>2
      <4>2. GetNeighbors(lsTable'[a], o) = GetNeighbors(lsTable[a], o)
        BY <4>1 DEF GetNeighbors
      <4> QED BY <1>4, <4>1, <4>2 DEF IInv, EntriesAuthentic
    <3> QED BY <3>1, <3>2
  <2>8. OwnEntryPresent'
    BY <1>2, <1>4, <2>5, <2>6, NoEntryIsNone DEF IInv, OwnEntryPresent
  <2> QED BY <2>2, <2>4, <2>7, <2>8 DEF IInv, Flooded
<1> QED BY <1>5, <1>6

(* Erasing the first occurrence of some links takes out no other link.     *)
LEMMA RemoveLinks ==
  ASSUME NEW costs \in [Nodes -> Nat], NEW gone \in SUBSET Nodes
  PROVE  /\ removeLSTableLink(costs, gone) \in [Nodes -> Nat]
         /\ \A m \in Nodes : removeLSTableLink(costs, gone)[m] > 0 => costs[m] > 0
         /\ \A m \in Nodes \ gone : removeLSTableLink(costs, gone)[m] = costs[m]
BY DEF removeLSTableLink

(* The expiry of neighbours keeps every entry and its sequence number, and *)
(* takes nothing but the link back to this node out of other nodes' ones.  *)
LEMMA UnlinkExpiredProperties ==
  ASSUME LiveTypeOK, NEW n \in Nodes, NEW o \in Nodes
  PROVE  /\ UnlinkExpired(n)[o] \in Entries
         /\ UnlinkExpired(n)[o] = NoEntry <=> lsTable[n][o] = NoEntry
         /\ UnlinkExpired(n)[o].sequenceNumber = lsTable[n][o].sequenceNumber
         /\ o # n => /\ GetNeighbors(UnlinkExpired(n), o) \subseteq GetNeighbors(lsTable[n], o)
                     /\ GetNeighbors(lsTable[n], o) \ {n} \subseteq GetNeighbors(UnlinkExpired(n), o)
<1> DEFINE entry == lsTable[n][o]
           gone == IF o = n THEN Expired(n) ELSE {n}
           cut == [entry EXCEPT !.neighborCosts = removeLSTableLink(@, gone)]
<1>1. entry \in Entries /\ gone \in SUBSET Nodes
  BY DEF LiveTypeOK, Entries, Expired
<1>2. CASE entry = NoEntry
  <2>1. UnlinkExpired(n)[o] = NoEntry
    BY <1>2 DEF UnlinkExpired
  <2> QED BY <1>2, <2>1 DEF GetNeighbors, Entries
<1>3. CASE entry # NoEntry
  <2>1. entry \in LSTableEntry
    BY <1>1, <1>3 DEF Entries
  <2>2. /\ cut \in LSTableEntry
        /\ cut.sequenceNumber = entry.sequenceNumber
        /\ cut.neighborCosts = removeLSTableLink(entry.neighborCosts, gone)
    BY <1>1, <2>1, RemoveLinks DEF LSTableEntry
  <2>3. UnlinkExpired(n)[o] \in {entry, cut}
    BY <1>3 DEF UnlinkExpired
  <2> HIDE DEF entry, gone, cut
  <2>4. UnlinkExpired(n)[o] \in LSTableEntry
    BY <2>1, <2>2, <2>3
  <2>5. UnlinkExpired(n)[o].sequenceNumber = entry.sequenceNumber
    BY <2>2, <2>3
  <2>6. ASSUME o # n
        PROVE  /\ GetNeighbors(UnlinkExpired(n), o) \subseteq GetNeighbors(lsTable[n], o)
               /\ GetNeighbors(lsTable[n], o) \ {n} \subseteq GetNeighbors(UnlinkExpired(n), o)
    <3>1. gone = {n} /\ entry.neighborCosts \in [Nodes -> Nat]
      BY <2>1, <2>6 DEF gone, LSTableEntry
    <3>2. \A x \in Nodes : cut.neighborCosts[x] > 0 => entry.neighborCosts[x] > 0
      BY <1>1, <2>2, <3>1, RemoveLinks
    <3>3. \A x \in Nodes \ {n} : cut.neighborCosts[x] = entry.neighborCosts[x]
      BY <1>1, <2>2, <3>1, RemoveLinks
    <3> QED BY <2>3, <3>2, <3>3 DEF GetNeighbors, entry
  <2> QED BY <1>3, <2>1, <2>4, <2>5, <2>6, NoEntryIsNone DEF Entries, entry
<1> QED BY <1>2, <1>3

(* AuditHellos: a hello, and after an expiry the shorter tables and a      *)
(* message about them.                                                     *)
LEMMA AuditHellosStep ==
  ASSUME IInv, NEW n \in Nodes, AuditHellos(n)
  PROVE  IInv'
<1> DEFINE s1 == GetNextSequenceNumber(seq[n])
           lsa == LSTableMessage(n, s1, neighborTable'[n])
<1>1. seq[n] \in SeqNums /\ s1 \in SeqNums /\ GetNextSequenceNumber(s1) \in SeqNums
  BY NextSequenceNumber DEF IInv, LiveTypeOK
<1>2. neighborTable' \in [Nodes -> SUBSET Nodes] /\ heard' \in [Nodes -> SUBSET Nodes]
  BY DEF IInv, LiveTypeOK, AuditHellos
<1>3. lsa \in LSMessages /\ lsa \in Messages
  BY <1>1, <1>2, SentMessages
<1> HIDE DEF s1, lsa
<1>4. SimTypeOK' /\ cmds' \in 0 .. MaxCmds
  BY DEF IInv, LiveTypeOK, SimTypeOK, AuditHellos
<1>5. \A S : Flooded(SendHello(n, seq[n]), S)
  BY <1>1, HelloFlooded DEF IInv, LiveTypeOK, SimTypeOK
<1>6. CASE Expired(n) = {}
  <2>1. /\ seq' = [seq EXCEPT ![n] = s1]
        /\ net' = net \o SendHello(n, seq[n])
        /\ UNCHANGED <<lsTable, sent>>
    BY <1>6 DEF AuditHellos, s1
  <2>2. Flooded(net', sent')
    BY <1>5, <2>1, ConcatFlooded DEF IInv
  <2>3. LiveTypeOK'
    BY <1>1, <1>2, <1>4, <2>1, <2>2 DEF IInv, LiveTypeOK, Flooded
  <2>4. EntriesAuthentic'
    BY <2>1, AuthenticKept DEF IInv
  <2>5. OwnEntryPresent'
    BY <2>1 DEF IInv, LiveTypeOK, OwnEntryPresent, AuditHellos
  <2> QED BY <2>2, <2>3, <2>4, <2>5 DEF IInv, Flooded
<1>7. CASE Expired(n) # {}
  <2>1. /\ seq' = [seq EXCEPT ![n] = GetNextSequenceNumber(s1)]
        /\ net' = net \o SendHello(n, seq[n]) \o BroadcastPacket(n, lsa)
        /\ lsTable' = [lsTable EXCEPT ![n] = UnlinkExpired(n)]
        /\ sent' = sent \cup {lsa}
    BY <1>7 DEF AuditHellos, s1, lsa
  <2>2. Flooded(net', sent')
    <3>1. Flooded(net, sent')
      BY <2>1, FloodedMonotone DEF IInv
    <3>2. Flooded(BroadcastPacket(n, lsa), sent')
      BY <1>3, <2>1, BroadcastFlooded DEF IInv, LiveTypeOK, SimTypeOK
    <3> QED BY <1>5, <2>1, <3>1, <3>2, ConcatFlooded
  <2>3. \A o \in Nodes : UnlinkExpired(n)[o] \in Entries
    BY UnlinkExpiredProperties DEF IInv
  <2>4. UnlinkExpired(n) \in [Nodes -> Entries]
    BY <2>3 DEF UnlinkExpired
  <2>5. lsTable' \in [Nodes -> [Nodes -> Entries]]
    BY <2>1, <2>4 DEF IInv, LiveTypeOK, Entries
  <2>6. LiveTypeOK'
    BY <1>1, <1>2, <1>3, <1>4, <2>1, <2>2, <2>5 DEF IInv, LiveTypeOK, Flooded, Entries
  <2>7. lsTable'[n] = UnlinkExpired(n) /\ \A a \in Nodes \ {n} : lsTable'[a] = lsTable[a]
    BY <2>1 DEF IInv, LiveTypeOK
  <2>8. EntriesAuthentic'
    <3> SUFFICES ASSUME NEW a \in Nodes, NEW o \in Nodes, o # a, lsTable'[a][o] # NoEntry
                 PROVE  \E l \in sent' :
                          /\ l.orig = o
                          /\ l.seq = lsTable'[a][o].sequenceNumber
                          /\ GetNeighbors(lsTable'[a], o) \subseteq l.nbrs
                          /\ l.nbrs \ {a} \subseteq GetNeighbors(lsTable'[a], o)
      BY DEF EntriesAuthentic
    <3>1. /\ lsTable[a][o] # NoEntry
          /\ lsTable'[a][o].sequenceNumber = lsTable[a][o].sequenceNumber
          /\ GetNeighbors(lsTable'[a], o) \subseteq GetNeighbors(lsTable[a], o)
          /\ GetNeighbors(lsTable[a], o) \ {a} \subseteq GetNeighbors(lsTable'[a], o)
      <4>1. CASE a = n
        BY <2>7, <4>1, UnlinkExpiredProperties DEF IInv
      <4>2. CASE a # n
        BY <2>7, <4>2
      <4> QED BY <4>1, <4>2
    <3>2. PICK l \in sent : /\ l.orig = o
                           /\ l.seq = lsTable[a][o].sequenceNumber
                           /\ GetNeighbors(lsTable[a], o) \subseteq l.nbrs
                           /\ l.nbrs \ {a} \subseteq GetNeighbors(lsTable[a], o)
      BY <3>1 DEF IInv, EntriesAuthentic
    <3> QED BY <2>1, <3>1, <3>2
  <2>9. OwnEntryPresent'
    <3>1. \A a \in Nodes : neighborTable'[a] \subseteq neighborTable[a]
      BY DEF IInv, LiveTypeOK, AuditHellos
    <3>2. \A a \in Nodes : lsTable[a][a] # NoEntry => lsTable'[a][a] # NoEntry
      BY <2>7, UnlinkExpiredProperties DEF IInv
    <3> QED BY <3>1, <3>2 DEF IInv, OwnEntryPresent
  <2> QED BY <2>2, <2>6, <2>8, <2>9 DEF IInv, Flooded
<1> QED BY <1>6, <1>7

(* The HELLO and LSTABLEMSG commands.                                      *)
LEMMA ProcessCommandStep ==
  ASSUME IInv, NEW n \in Nodes, ProcessCommand(n)
  PROVE  IInv'
<1> DEFINE lsa == LSTableMessage(n, seq[n], neighborTable[n])
<1>1. seq[n] \in SeqNums /\ seq' \in [Nodes -> SeqNums]
  BY NextSequenceNumber DEF IInv, LiveTypeOK, ProcessCommand
<1>2. lsa \in LSMessages /\ lsa \in Messages
  BY <1>1, SentMessages DEF IInv, LiveTypeOK
<1>3. /\ sent \subseteq sent' /\ sent' \subseteq sent \cup {lsa}
      /\ \/ net' = net \o SendHello(n, seq[n])
         \/ net' = net \o BroadcastPacket(n, lsa) /\ lsa \in sent'
         \/ net' = net
  BY DEF ProcessCommand
<1> HIDE DEF lsa
<1>4. Flooded(net', sent')
  <2>1. Flooded(net, sent')
    BY <1>3, FloodedMonotone DEF IInv
  <2>2. Flooded(SendHello(n, seq[n]), sent')
    BY <1>1, HelloFlooded DEF IInv, LiveTypeOK, SimTypeOK
  <2>3. lsa \in sent' => Flooded(BroadcastPacket(n, lsa), sent')
    BY <1>2, BroadcastFlooded DEF IInv, LiveTypeOK, SimTypeOK
  <2> QED BY <1>3, <2>1, <2>2, <2>3, ConcatFlooded
<1>5. LiveTypeOK'
  BY <1>1, <1>2, <1>3, <1>4, CmdsAssumption
     DEF IInv, LiveTypeOK, SimTypeOK, Flooded, ProcessCommand, clock
<1>6. EntriesAuthentic' /\ OwnEntryPresent'
  BY <1>3, AuthenticKept DEF IInv, ProcessCommand, OwnEntryPresent
<1> QED BY <1>4, <1>5, <1>6 DEF IInv, Flooded

(* Link commands, losses and the passing of time.                          *)
LEMMA SimStep ==
  ASSUME IInv, SimNext, UNCHANGED lsVars
  PROVE  IInv'
<1>1. UNCHANGED <<seq, neighborTable, heard, lsTable, routingTable, cmds, sent>>
  BY DEF lsVars
<1>2. EntriesAuthentic' /\ OwnEntryPresent'
  BY <1>1 DEF IInv, EntriesAuthentic, OwnEntryPresent
<1>3. Flooded(net', sent) /\ SimTypeOK'
  BY SimNextStep, InFlightWithoutFlooded DEF IInv, LiveTypeOK
<1>4. LiveTypeOK'
  BY <1>1, <1>3 DEF IInv, LiveTypeOK, Flooded
<1> QED BY <1>1, <1>2, <1>3, <1>4 DEF IInv, Flooded

(* The invariant is inductive.                                             *)
THEOREM NextIInv == IInv /\ [Step]_liveVars => IInv'
<1> SUFFICES ASSUME IInv, [Step]_liveVars PROVE IInv'
  OBVIOUS
<1>1. CASE Receive
  BY <1>1, RefreshNeighborStep, DiscoverNeighborStep, ProcessLSTableMessageStep
     DEF Receive, ProcessHelloReq
<1>2. ASSUME NEW n \in Nodes, AuditHellos(n) PROVE IInv'
  BY <1>2, AuditHellosStep
<1>3. ASSUME NEW n \in Nodes, ProcessCommand(n) PROVE IInv'
  BY <1>3, ProcessCommandStep
<1>4. CASE SimNext /\ UNCHANGED lsVars
  BY <1>4, SimStep
<1>5. CASE UNCHANGED liveVars
  BY <1>5 DEF liveVars, simVars, lsVars, IInv, LiveTypeOK, SimTypeOK, Flooded, EntriesAuthentic,
     OwnEntryPresent
<1> QED BY <1>1, <1>2, <1>3, <1>4, <1>5 DEF Step

(* As long as the process lives it takes steps of Step, and the step that  *)
(* ends it changes nothing else.                                           *)
LEMMA SpecSteps == Spec => Init /\ [][Step]_liveVars
<1>1. [Next]_vars => [Step]_liveVars
  BY DEF Next, Survives, AuditCrash, vars
<1> QED BY <1>1, PTL DEF Spec

(* Hence it holds throughout.                                              *)
THEOREM Invariance == Spec => []IInv
<1> QED BY InitIInv, NextIInv, SpecSteps, PTL

(* Type correctness of the protocol's state.                               *)
THEOREM TypeCorrect == Spec => []TypeOK
<1> DEFINE Boolean == crashed \in BOOLEAN
<1>1. IInv /\ Boolean => TypeOK
  BY DEF IInv, TypeOK
<1>2. Init => Boolean
  BY DEF Init
<1>3. Boolean /\ [Next]_vars => Boolean'
  BY DEF Next, Survives, AuditCrash, vars
<1> HIDE DEF Boolean
<1> QED BY <1>1, <1>2, <1>3, Invariance, PTL DEF Spec

(* Every stored link-state entry of another node is one it originated.     *)
THEOREM Authenticity == Spec => []EntriesAuthentic
<1>1. IInv => EntriesAuthentic
  BY DEF IInv
<1> QED BY <1>1, Invariance, PTL

(* The entry that AuditHellos and Dijkstra dereference unchecked exists.   *)
THEOREM OwnEntry == Spec => []OwnEntryPresent
<1>1. IInv => OwnEntryPresent
  BY DEF IInv
<1> QED BY <1>1, Invariance, PTL

(* ProcessLSTableMessage compares, AuditHellos edits in place.             *)
LEMMA EntriesKept ==
  ASSUME IInv, [Step]_liveVars
  PROVE  \A n, o \in Nodes : NotOlder(lsTable[n][o], lsTable'[n][o])
<1> DEFINE Kept == \A n, o \in Nodes : NotOlder(lsTable[n][o], lsTable'[n][o])
<1>1. ASSUME IInv, [Step]_liveVars PROVE Kept
  <2>0. \A a, o \in Nodes : lsTable[a][o] \in Entries
    BY <1>1 DEF IInv, LiveTypeOK, Entries
  <2>1. \A e \in Entries : NotOlder(e, e)
    BY SeqLimitAssumption DEF NotOlder, Entries, LSTableEntry, SeqNums
  <2>2. CASE UNCHANGED lsTable
    BY <2>0, <2>1, <2>2
  <2>3. ASSUME NEW n \in Nodes, NEW i \in 1 .. Len(net), DiscoverNeighbor(n, i)
        PROVE  Kept
    <3> DEFINE own == AddOwnLink(lsTable[n][n], net[i].msg)
    <3>1. lsTable' = [lsTable EXCEPT ![n][n] = own]
      BY <2>3 DEF DiscoverNeighbor
    <3>2. NotOlder(lsTable[n][n], own)
      <4> SUFFICES ASSUME lsTable[n][n] # NoEntry
                   PROVE  own # NoEntry /\ own.sequenceNumber >= lsTable[n][n].sequenceNumber
        BY DEF NotOlder
      <4>1. lsTable[n][n] \in LSTableEntry
        BY <2>0 DEF Entries
      <4>2. own.sequenceNumber = lsTable[n][n].sequenceNumber
        BY <4>1 DEF AddOwnLink, LSTableEntry
      <4> QED BY <4>1, <4>2, SeqLimitAssumption DEF LSTableEntry, NoEntry, SeqNums, NoNode
    <3> HIDE DEF own
    <3>3. lsTable \in [Nodes -> [Nodes -> Entries]]
      BY <1>1 DEF IInv, LiveTypeOK, Entries
    <3> QED BY <2>0, <2>1, <3>1, <3>2, <3>3
  <2>4. ASSUME NEW n \in Nodes, NEW i \in 1 .. Len(net), ProcessLSTableMessage(n, i)
        PROVE  Kept
    <3> DEFINE m == net[i].msg
               entry == [neighborCosts |-> CostsOf(m.nbrs), sequenceNumber |-> m.seq]
    <3>1. CASE ~IsNewer(lsTable[n], m)
      BY <2>2, <2>4, <3>1 DEF ProcessLSTableMessage
    <3>2. CASE IsNewer(lsTable[n], m)
      <4>1. m \in LSMessages
        BY <1>1, <2>4, ReceivedMessage DEF IInv, ProcessLSTableMessage, Receives
      <4>2. entry \in LSTableEntry
        BY <4>1 DEF LSTableEntry, LSMessages, CostsOf
      <4>3. lsTable' = [lsTable EXCEPT ![n][m.orig] = entry]
        BY <2>4, <3>2 DEF ProcessLSTableMessage
      <4>4. NotOlder(lsTable[n][m.orig], entry)
        <5>1. m.orig \in Nodes /\ m.seq \in Int
          BY <4>1, SeqLimitAssumption DEF LSMessages, SeqNums
        <5>2. lsTable[n][m.orig] # NoEntry =>
                /\ lsTable[n][m.orig].sequenceNumber \in Int
                /\ m.seq > lsTable[n][m.orig].sequenceNumber
          BY <2>0, <3>2, <5>1, SeqLimitAssumption DEF IsNewer, Entries, LSTableEntry, SeqNums
        <5> QED BY <4>2, <5>1, <5>2, NoEntryIsNone DEF NotOlder
      <4> HIDE DEF entry
      <4>5. lsTable \in [Nodes -> [Nodes -> Entries]] /\ m.orig \in Nodes
        BY <1>1, <4>1 DEF IInv, LiveTypeOK, Entries, LSMessages
      <4> QED BY <2>0, <2>1, <4>3, <4>4, <4>5
    <3> QED BY <3>1, <3>2
  <2>5. ASSUME NEW n \in Nodes, AuditHellos(n)
        PROVE  Kept
    <3>1. CASE Expired(n) = {}
      BY <2>2, <2>5, <3>1 DEF AuditHellos
    <3>2. CASE Expired(n) # {}
      <4>1. lsTable' = [lsTable EXCEPT ![n] = UnlinkExpired(n)]
        BY <2>5, <3>2 DEF AuditHellos
      <4>2. ASSUME NEW o \in Nodes PROVE NotOlder(lsTable[n][o], UnlinkExpired(n)[o])
        BY <1>1, <2>0, <2>1, UnlinkExpiredProperties DEF IInv, NotOlder
      <4>3. lsTable \in [Nodes -> [Nodes -> Entries]]
        BY <1>1 DEF IInv, LiveTypeOK, Entries
      <4> QED BY <2>0, <2>1, <4>1, <4>2, <4>3
    <3> QED BY <3>1, <3>2
  <2>6. CASE Receive
    <3>1. PICK n \in Nodes, i \in 1 .. Len(net) :
            RefreshNeighbor(n, i) \/ DiscoverNeighbor(n, i) \/ ProcessLSTableMessage(n, i)
      BY <2>6 DEF Receive, ProcessHelloReq
    <3>2. CASE RefreshNeighbor(n, i)
      BY <2>2, <3>2 DEF RefreshNeighbor
    <3> QED BY <2>3, <2>4, <3>1, <3>2
  <2>7. ASSUME NEW n \in Nodes, ProcessCommand(n) PROVE Kept
    BY <2>2, <2>7 DEF ProcessCommand
  <2>8. CASE (SimNext /\ UNCHANGED lsVars) \/ UNCHANGED liveVars
    BY <2>2, <2>8 DEF lsVars, liveVars
  <2> HIDE DEF Kept
  <2> QED BY <1>1, <2>5, <2>6, <2>7, <2>8 DEF Step
<1> QED BY <1>1

(* However a flood is delivered, no step loses an entry or goes back to an *)
(* older one.                                                              *)
THEOREM Monotonicity == Spec => EntriesNeverRegress
<1>1. IInv /\ [Step]_liveVars =>
        [\A n, o \in Nodes : NotOlder(lsTable[n][o], lsTable'[n][o])]_vars
  BY EntriesKept
<1> QED BY <1>1, Invariance, SpecSteps, PTL DEF EntriesNeverRegress

(***************************************************************************)
(* Flooding implements LSDatabase.  The removal of a link erases one       *)
(* occurrence of it; that it removes the link needs that no node's entry   *)
(* at another node holds a link twice.                                     *)
(***************************************************************************)
SingleLinks ==
  \A n, o, m \in Nodes : o # n => lsTable[n][o].neighborCosts[m] \in {0, 1}

(* The database of the refinement mapping.                                 *)
Db == [n \in Nodes |-> [o \in Nodes |-> DatabaseEntry(n, o)]]

(* How an LS table changes, whatever the step.                             *)
Installs(n, m) ==
  /\ IsNewer(lsTable[n], m)
  /\ lsTable' = [lsTable EXCEPT ![n][m.orig] =
       [neighborCosts |-> CostsOf(m.nbrs), sequenceNumber |-> m.seq]]
  /\ UNCHANGED sent

Unlinks(n) ==
  /\ Expired(n) # {}
  /\ lsTable' = [lsTable EXCEPT ![n] = UnlinkExpired(n)]
  /\ \E s \in SeqNums :
       sent' = sent \cup {LSTableMessage(n, s, neighborTable[n] \ Expired(n))}

KeepsOthers ==
  /\ \A n, o \in Nodes : o # n => lsTable'[n][o] = lsTable[n][o]
  /\ UNCHANGED sent \/ \E m \in LSMessages : sent' = sent \cup {m}

(* Every step changes the tables in one of these ways.                     *)
LEMMA TableSteps ==
  ASSUME IInv, [Step]_liveVars
  PROVE  \/ KeepsOthers
         \/ \E n \in Nodes, m \in sent : m \in LSMessages /\ Installs(n, m)
         \/ \E n \in Nodes : Unlinks(n)
<1>0. lsTable \in [Nodes -> [Nodes -> Entries]] /\ seq \in [Nodes -> SeqNums]
      /\ neighborTable \in [Nodes -> SUBSET Nodes]
  BY DEF IInv, LiveTypeOK, Entries
<1>1. CASE Receive
  <2>1. PICK n \in Nodes, i \in 1 .. Len(net) :
          RefreshNeighbor(n, i) \/ DiscoverNeighbor(n, i) \/ ProcessLSTableMessage(n, i)
    BY <1>1 DEF Receive, ProcessHelloReq
  <2>2. CASE RefreshNeighbor(n, i)
    BY <2>2 DEF RefreshNeighbor, KeepsOthers
  <2>3. CASE DiscoverNeighbor(n, i)
    <3> DEFINE lsa == LSTableMessage(n, seq[n], neighborTable'[n])
               own == AddOwnLink(lsTable[n][n], net[i].msg)
    <3>1. net[i].msg \in HelloMessages
      BY <2>3, ReceivedMessage DEF IInv, DiscoverNeighbor, Receives
    <3>2. neighborTable'[n] \in SUBSET Nodes
      BY <1>0, <2>3, <3>1 DEF DiscoverNeighbor, HelloMessages
    <3>3. lsa \in LSMessages
      BY <1>0, <3>2, SentMessages
    <3>4. sent' = sent \cup {lsa} /\ lsTable' = [lsTable EXCEPT ![n][n] = own]
      BY <2>3 DEF DiscoverNeighbor
    <3> HIDE DEF lsa, own
    <3>5. \A a, o \in Nodes : o # a => lsTable'[a][o] = lsTable[a][o]
      BY <1>0, <3>4
    <3> QED BY <3>3, <3>4, <3>5 DEF KeepsOthers
  <2>4. CASE ProcessLSTableMessage(n, i)
    <3> DEFINE m == net[i].msg
    <3>1. m \in LSMessages /\ m \in sent
      BY <2>4, ReceivedMessage DEF IInv, ProcessLSTableMessage, Receives
    <3>2. CASE IsNewer(lsTable[n], m)
      <4>1. Installs(n, m)
        BY <2>4, <3>2 DEF ProcessLSTableMessage, Installs
      <4> QED BY <3>1, <4>1
    <3>3. CASE ~IsNewer(lsTable[n], m)
      BY <2>4, <3>3 DEF ProcessLSTableMessage, KeepsOthers
    <3> QED BY <3>2, <3>3
  <2> QED BY <2>1, <2>2, <2>3, <2>4
<1>2. ASSUME NEW n \in Nodes, AuditHellos(n)
      PROVE  KeepsOthers \/ Unlinks(n)
  <2>1. CASE Expired(n) = {}
    BY <1>2, <2>1 DEF AuditHellos, KeepsOthers
  <2>2. CASE Expired(n) # {}
    <3>1. neighborTable'[n] = neighborTable[n] \ Expired(n)
      BY <1>0, <1>2 DEF AuditHellos
    <3>2. GetNextSequenceNumber(seq[n]) \in SeqNums
      BY <1>0, NextSequenceNumber
    <3> QED BY <1>2, <2>2, <3>1, <3>2 DEF AuditHellos, Unlinks
  <2> QED BY <2>1, <2>2
<1>3. ASSUME NEW n \in Nodes, ProcessCommand(n)
      PROVE  KeepsOthers
  <2>1. LSTableMessage(n, seq[n], neighborTable[n]) \in LSMessages
    BY <1>0, SentMessages
  <2> QED BY <1>3, <2>1 DEF ProcessCommand, KeepsOthers
<1>4. CASE (SimNext /\ UNCHANGED lsVars) \/ UNCHANGED liveVars
  BY <1>4 DEF lsVars, liveVars, KeepsOthers
<1> QED BY <1>1, <1>2, <1>3, <1>4 DEF Step

(* What the three ways do to the entry of one node at another.             *)
LEMMA InstalledEntries ==
  ASSUME IInv, NEW n \in Nodes, NEW m \in LSMessages, Installs(n, m)
  PROVE  /\ lsTable'[n][m.orig] =
              [neighborCosts |-> CostsOf(m.nbrs), sequenceNumber |-> m.seq]
         /\ lsTable'[n][m.orig] # NoEntry
         /\ \A a, o \in Nodes : ~(a = n /\ o = m.orig) => lsTable'[a][o] = lsTable[a][o]
<1> DEFINE entry == [neighborCosts |-> CostsOf(m.nbrs), sequenceNumber |-> m.seq]
<1>1. m.orig \in Nodes /\ lsTable \in [Nodes -> [Nodes -> Entries]]
  BY DEF IInv, LiveTypeOK, Entries, LSMessages
<1>2. entry \in LSTableEntry
  BY DEF LSTableEntry, LSMessages, CostsOf
<1>3. lsTable' = [lsTable EXCEPT ![n][m.orig] = entry]
  BY DEF Installs
<1> HIDE DEF entry
<1>4. lsTable'[n][m.orig] = entry
  BY <1>1, <1>3
<1>5. \A a, o \in Nodes : ~(a = n /\ o = m.orig) => lsTable'[a][o] = lsTable[a][o]
  BY <1>1, <1>3
<1> QED BY <1>2, <1>4, <1>5, NoEntryIsNone DEF entry

(* AuditHellos edits the table of its own node only.                       *)
LEMMA UnlinkedEntries ==
  ASSUME IInv, NEW n \in Nodes, Unlinks(n)
  PROVE  lsTable'[n] = UnlinkExpired(n) /\ \A a \in Nodes \ {n} : lsTable'[a] = lsTable[a]
BY DEF Unlinks, IInv, LiveTypeOK

(* Entries of other nodes come from messages, which list a node once.      *)
LEMMA SingleLinksInit == Init => SingleLinks
BY DEF Init, SingleLinks, NoEntry

LEMMA SingleLinksStep ==
  ASSUME IInv, SingleLinks, [Step]_liveVars
  PROVE  SingleLinks'
<1> SUFFICES ASSUME NEW a \in Nodes, NEW o \in Nodes, NEW x \in Nodes, o # a
             PROVE  lsTable'[a][o].neighborCosts[x] \in {0, 1}
  BY DEF SingleLinks
<1>0. lsTable[a][o].neighborCosts[x] \in {0, 1}
  BY DEF SingleLinks
<1>1. CASE KeepsOthers
  BY <1>0, <1>1 DEF KeepsOthers
<1>2. ASSUME NEW n \in Nodes, NEW m \in LSMessages, Installs(n, m)
      PROVE  lsTable'[a][o].neighborCosts[x] \in {0, 1}
  <2>1. CASE a = n /\ o = m.orig
    <3>1. lsTable'[n][m.orig].neighborCosts = CostsOf(m.nbrs)
      <4>1. lsTable'[n][m.orig] =
              [neighborCosts |-> CostsOf(m.nbrs), sequenceNumber |-> m.seq]
        BY <1>2, InstalledEntries
      <4> QED BY <4>1
    <3> QED BY <2>1, <3>1 DEF CostsOf
  <2>2. CASE ~(a = n /\ o = m.orig)
    <3>1. lsTable'[a][o] = lsTable[a][o]
      BY <1>2, <2>2, InstalledEntries
    <3> QED BY <1>0, <3>1
  <2> QED BY <2>1, <2>2
<1>3. ASSUME NEW n \in Nodes, Unlinks(n)
      PROVE  lsTable'[a][o].neighborCosts[x] \in {0, 1}
  <2>1. CASE a # n
    BY <1>0, <1>3, <2>1, UnlinkedEntries
  <2>2. CASE a = n
    <3> DEFINE entry == lsTable[n][o]
               cut == [entry EXCEPT !.neighborCosts = removeLSTableLink(@, {n})]
    <3>1. lsTable'[a][o] = UnlinkExpired(n)[o]
      BY <1>3, <2>2, UnlinkedEntries
    <3>2. UnlinkExpired(n)[o] \in {entry, cut}
      BY <2>2 DEF UnlinkExpired
    <3>3. CASE UnlinkExpired(n)[o] = entry
      BY <1>0, <2>2, <3>1, <3>3
    <3>4. CASE UnlinkExpired(n)[o] = cut /\ entry # NoEntry
      <4>1. entry \in LSTableEntry
        BY <3>4 DEF IInv, LiveTypeOK
      <4>2. cut.neighborCosts = removeLSTableLink(entry.neighborCosts, {n})
        BY <4>1 DEF LSTableEntry
      <4> QED BY <1>0, <2>2, <3>1, <3>4, <4>2 DEF removeLSTableLink
    <3>5. entry = NoEntry => UnlinkExpired(n)[o] = entry
      BY DEF UnlinkExpired
    <3> QED BY <3>2, <3>3, <3>4, <3>5
  <2> QED BY <2>1, <2>2
<1> QED BY <1>1, <1>2, <1>3, TableSteps

(* The database depends on the tables entry by entry.                      *)
LEMMA SameEntry ==
  ASSUME NEW a \in Nodes, NEW o \in Nodes, o # a => lsTable'[a][o] = lsTable[a][o]
  PROVE  DatabaseEntry(a, o)' = DatabaseEntry(a, o)
BY DEF DatabaseEntry, GetNeighbors

(* A step that leaves the entries of other nodes alone publishes at most.  *)
LEMMA KeepsOthersSimulates ==
  ASSUME KeepsOthers
  PROVE  [Database!Next]_(Database!vars)
<1>1. Db' = Db
  <2>1. \A a, o \in Nodes : DatabaseEntry(a, o)' = DatabaseEntry(a, o)
    BY SameEntry DEF KeepsOthers
  <2> QED BY <2>1 DEF Db
<1>2. CASE UNCHANGED sent
  BY <1>1, <1>2 DEF Database!vars, Db
<1>3. ASSUME NEW m, sent' = sent \cup {m}
      PROVE  Database!Next
  BY <1>1, <1>3 DEF Database!Next, Database!Publish, Db
<1> QED BY <1>2, <1>3 DEF KeepsOthers

(* The message a node installs is on the board and newer than what it has. *)
LEMMA InstallsSimulates ==
  ASSUME IInv, NEW n \in Nodes, NEW m \in LSMessages, m \in sent, Installs(n, m)
  PROVE  [Database!Next]_(Database!vars)
<1>1. m.orig \in Nodes /\ m.seq \in SeqNums /\ m.nbrs \subseteq Nodes
  BY DEF LSMessages
<1>2. \A a, o \in Nodes :
        ~(a = n /\ o = m.orig) => DatabaseEntry(a, o)' = DatabaseEntry(a, o)
  <2>1. \A a, o \in Nodes : ~(a = n /\ o = m.orig) => lsTable'[a][o] = lsTable[a][o]
    BY InstalledEntries
  <2> QED BY <2>1, SameEntry
<1>3. CASE m.orig = n
  <2>1. Db' = Db
    <3>1. DatabaseEntry(n, n)' = DatabaseEntry(n, n)
      BY DEF DatabaseEntry
    <3> QED BY <1>2, <1>3, <3>1 DEF Db
  <2> QED BY <2>1 DEF Database!vars, Db, Installs
<1>4. CASE m.orig # n
  <2>1. DatabaseEntry(n, m.orig)' = [seq |-> m.seq, links |-> m.nbrs]
    <3>1. /\ lsTable'[n][m.orig] =
               [neighborCosts |-> CostsOf(m.nbrs), sequenceNumber |-> m.seq]
          /\ lsTable'[n][m.orig] # NoEntry
      BY InstalledEntries
    <3>2. GetNeighbors(lsTable'[n], m.orig) = m.nbrs
      BY <1>1, <3>1 DEF GetNeighbors, CostsOf
    <3> QED BY <1>4, <3>1, <3>2 DEF DatabaseEntry
  <2>2. m.seq > DatabaseEntry(n, m.orig).seq
    BY <1>1, <1>4, SeqLimitAssumption DEF Installs, IsNewer, DatabaseEntry, SeqNums
  <2>3. Db' = [Db EXCEPT ![n][m.orig] = [seq |-> m.seq, links |-> m.nbrs]]
    <3>1. \A a, o \in Nodes :
            DatabaseEntry(a, o)' =
              IF a = n /\ o = m.orig THEN [seq |-> m.seq, links |-> m.nbrs]
              ELSE DatabaseEntry(a, o)
      BY <1>2, <2>1
    <3> QED BY <1>1, <3>1 DEF Db
  <2>4. Db[n][m.orig] = DatabaseEntry(n, m.orig)
    BY <1>1 DEF Db
  <2>5. Database!Learn(n, m)
    BY <1>4, <2>2, <2>3, <2>4 DEF Database!Learn, Db, Installs
  <2> QED BY <2>5 DEF Database!Next
<1> QED BY <1>3, <1>4

(* An expiry takes this node out of the entries of the lost neighbours,    *)
(* and publishes a message without them.                                   *)
LEMMA UnlinksSimulates ==
  ASSUME IInv, SingleLinks, NEW n \in Nodes, Unlinks(n)
  PROVE  [Database!Next]_(Database!vars)
<1> DEFINE gone == Expired(n) \ {n}
<1>1. PICK s \in SeqNums :
        sent' = sent \cup {LSTableMessage(n, s, neighborTable[n] \ Expired(n))}
  BY DEF Unlinks
<1> DEFINE lsa == LSTableMessage(n, s, neighborTable[n] \ Expired(n))
<1>2. lsa \in sent' /\ lsa.orig = n /\ lsa.nbrs \cap gone = {} /\ gone \in SUBSET Nodes
  BY <1>1 DEF LSTableMessage, IInv, LiveTypeOK, Expired
<1>3. ASSUME NEW o \in Nodes
      PROVE  DatabaseEntry(n, o)' =
               IF o \in gone THEN [DatabaseEntry(n, o) EXCEPT !.links = @ \ {n}]
               ELSE DatabaseEntry(n, o)
  <2> DEFINE entry == lsTable[n][o]
             cut == [entry EXCEPT !.neighborCosts = removeLSTableLink(@, {n})]
  <2>0. lsTable'[n][o] = UnlinkExpired(n)[o]
    BY UnlinkedEntries
  <2>1. CASE o = n
    BY <2>1 DEF DatabaseEntry
  <2>2. CASE o # n /\ entry = NoEntry
    <3>1. lsTable'[n][o] = NoEntry
      BY <2>0, <2>2 DEF UnlinkExpired
    <3>2. DatabaseEntry(n, o)' = [seq |-> -1, links |-> {}]
      BY <3>1 DEF DatabaseEntry
    <3>3. DatabaseEntry(n, o) = [seq |-> -1, links |-> {}]
      BY <2>2 DEF DatabaseEntry
    <3> QED BY <3>2, <3>3
  <2>3. CASE o # n /\ entry # NoEntry /\ o \notin Expired(n)
    <3>1. lsTable'[n][o] = lsTable[n][o]
      BY <2>0, <2>3 DEF UnlinkExpired
    <3> QED BY <2>3, <3>1, SameEntry
  <2>4. CASE o # n /\ entry # NoEntry /\ o \in Expired(n)
    <3>1. lsTable'[n][o] = cut
      BY <2>0, <2>4 DEF UnlinkExpired
    <3>2. entry \in LSTableEntry
      BY <2>4 DEF IInv, LiveTypeOK
    <3>3. /\ cut.sequenceNumber = entry.sequenceNumber
          /\ cut.neighborCosts = removeLSTableLink(entry.neighborCosts, {n})
      BY <3>2 DEF LSTableEntry
    <3>4. lsTable'[n][o] # NoEntry
      BY <2>0, <2>4, UnlinkExpiredProperties DEF IInv
    <3>5. \A x \in Nodes : entry.neighborCosts[x] \in {0, 1}
      BY <2>4 DEF SingleLinks
    <3> HIDE DEF cut
    <3>6. \A x \in Nodes : lsTable'[n][o].neighborCosts[x] =
                             IF x = n THEN 0 ELSE entry.neighborCosts[x]
      BY <3>1, <3>3, <3>5 DEF removeLSTableLink
    <3>7. GetNeighbors(lsTable'[n], o) = GetNeighbors(lsTable[n], o) \ {n}
      BY <3>6 DEF GetNeighbors
    <3>8. DatabaseEntry(n, o) =
            [seq |-> entry.sequenceNumber, links |-> GetNeighbors(lsTable[n], o)]
      BY <2>4 DEF DatabaseEntry
    <3>9. DatabaseEntry(n, o)' =
            [seq |-> entry.sequenceNumber, links |-> GetNeighbors(lsTable'[n], o)]
      BY <2>4, <3>1, <3>3, <3>4 DEF DatabaseEntry
    <3> QED BY <2>4, <3>7, <3>8, <3>9
  <2> QED BY <2>1, <2>2, <2>3, <2>4
<1>4. \A a \in Nodes \ {n} : \A o \in Nodes : DatabaseEntry(a, o)' = DatabaseEntry(a, o)
  BY UnlinkedEntries, SameEntry
<1> HIDE DEF gone, lsa
<1>5. Db' = [Db EXCEPT ![n] = [o \in Nodes |->
               IF o \in gone THEN [Db[n][o] EXCEPT !.links = @ \ {n}] ELSE Db[n][o]]]
  <2>1. \A o \in Nodes : Db[n][o] = DatabaseEntry(n, o)
    BY DEF Db
  <2> QED BY <1>3, <1>4, <2>1 DEF Db
<1>6. Database!GiveUp(n, gone, lsa)
  BY <1>1, <1>2, <1>5 DEF Database!GiveUp, Db, lsa
<1> QED BY <1>2, <1>6 DEF Database!Next

(* Flooding with sequence numbers implements the board of LSDatabase.      *)
THEOREM Refinement == Spec => ImplementsDatabase
<1>1. Init => Database!Init
  BY DEF Init, Database!Init, Database!Nothing, DatabaseEntry
<1>2. IInv /\ SingleLinks /\ [Step]_liveVars => [Database!Next]_(Database!vars)
  BY TableSteps, KeepsOthersSimulates, InstallsSimulates, UnlinksSimulates
<1>3. Spec => []SingleLinks
  BY SingleLinksInit, SingleLinksStep, Invariance, SpecSteps, PTL
<1> QED BY <1>1, <1>2, <1>3, Invariance, SpecSteps, PTL DEF ImplementsDatabase, Database!Spec
-----------------------------------------------------------------------------
(***************************************************************************)
(* The next hops of Dijkstra().  A route leads to this node itself, or     *)
(* starts at a neighbour whose interface was found.                        *)
(***************************************************************************)
UsableRoutes(hops) ==
  {NoRoute} \cup {r \in [nextHop : hops, interface : hops, cost : Nat] :
                    r.interface = r.nextHop}

(* States of the main loop in which every route is usable; this node       *)
(* counts as found, or the byte past the map is set, so it is never open.  *)
UsableStates(n, t, nbrs) ==
  {st \in [rt : [Nodes -> UsableRoutes(nbrs \cup {n})],
           found : SUBSET Nodes, stray : BOOLEAN] :
     /\ IF n \in Known(t) THEN n \in st.found ELSE st.stray
     /\ \A d \in Nodes \ {n} : st.rt[d] \in UsableRoutes(nbrs)}

(* GetMinCostNode returns an open node or none.                            *)
LEMMA MinCostNodeIsOpen ==
  ASSUME NEW t, NEW st
  PROVE  GetMinCostNode(st, t) \in Open(st, t) \cup {NoNode}
<1> DEFINE open == Open(st, t)
           best == {d \in open : \A e \in open : st.rt[d].cost <= st.rt[e].cost}
<1>1. GetMinCostNode(st, t) = IF best = {} THEN NoNode
                              ELSE CHOOSE d \in best : \A e \in best : d <= e
  BY DEF GetMinCostNode
<1>2. best \subseteq open /\ open \subseteq Nat
  BY NodesAssumption DEF Open
<1> HIDE DEF best, open
<1>3. best # {} => \E d \in best : \A e \in best : d <= e
  BY <1>2, LeastNatural
<1>4. GetMinCostNode(st, t) \in best \cup {NoNode}
  BY <1>1, <1>3, Zenon
<1> QED BY <1>2, <1>4 DEF open

(* A round of the main loop hands usable routes on.                        *)
LEMMA RelaxUsable ==
  ASSUME NEW n \in Nodes, NEW t, NEW nbrs \in SUBSET Nodes,
         NEW st \in UsableStates(n, t, nbrs)
  PROVE  Relax(st, t, nbrs) \in UsableStates(n, t, nbrs)
<1> DEFINE c == GetMinCostNode(st, t)
           marked == MarkFound(st, t, c)
           route == [nextHop   |-> st.rt[c].nextHop,
                     interface |-> InterfaceTo(nbrs, st.rt[c].nextHop),
                     cost      |-> st.rt[c].cost + 1]
           better == {d \in GetNeighbors(t, c) : st.rt[c].cost + 1 < st.rt[d].cost}
           rt == [d \in Nodes |-> IF d \in better THEN route ELSE st.rt[d]]
<1>1. c \in Open(st, t) \cup {NoNode}
  BY MinCostNodeIsOpen
<1>2. /\ marked \in UsableStates(n, t, nbrs)
      /\ marked.rt = st.rt
  <2> HIDE DEF c
  <2> QED BY DEF MarkFound, UsableStates, Known
<1>3. Relax(st, t, nbrs) = IF c = NoNode THEN marked ELSE [marked EXCEPT !.rt = rt]
  <2>1. marked.rt = st.rt
    BY <1>2
  <2> QED BY <2>1 DEF Relax, FirstHop
<1>4. CASE c # NoNode
  <2>1. c \in Nodes \ {n} /\ st.rt[c] # NoRoute
    BY <1>1, <1>4 DEF Open, UsableStates
  <2> HIDE DEF c
  <2>2. st.rt[c] \in [nextHop : nbrs, interface : nbrs, cost : Nat]
    BY <2>1 DEF UsableStates, UsableRoutes
  <2>3. route \in UsableRoutes(nbrs) /\ route \in UsableRoutes(nbrs \cup {n})
    BY <2>2 DEF UsableRoutes, InterfaceTo
  <2> HIDE DEF route, better
  <2>4. /\ rt \in [Nodes -> UsableRoutes(nbrs \cup {n})]
        /\ \A d \in Nodes \ {n} : rt[d] \in UsableRoutes(nbrs)
    BY <2>3 DEF UsableStates
  <2> HIDE DEF rt, marked
  <2>5. [marked EXCEPT !.rt = rt] \in UsableStates(n, t, nbrs)
    BY <1>2, <2>4 DEF UsableStates
  <2> QED BY <1>3, <1>4, <2>5
<1> QED BY <1>2, <1>3, <1>4

(* Dijkstra() only installs usable routes when the links of this node's    *)
(* own entry are links to neighbours.                                      *)
LEMMA DijkstraUsable ==
  ASSUME NEW n \in Nodes, NEW t, NEW nbrs \in SUBSET Nodes, NEW stray \in BOOLEAN,
         GetNeighbors(t, n) \subseteq nbrs
  PROVE  /\ Dijkstra(n, t, nbrs, stray) \in [Nodes -> UsableRoutes(nbrs \cup {n})]
         /\ \A d \in Nodes \ {n} : Dijkstra(n, t, nbrs, stray)[d] \in UsableRoutes(nbrs)
<1> DEFINE S == UsableStates(n, t, nbrs)
           blank == [rt |-> InitialRoutes(n, t, nbrs), found |-> {}, stray |-> stray]
           start == MarkFound(blank, t, n)
           F == [st \in S |-> Relax(st, t, nbrs)]
           Body(f) == [k \in Nat |->
                         IF k = 0 THEN start ELSE Relax(f[k - 1], t, nbrs)]
           loop == CHOOSE f : f = Body(f)
           size == Cardinality(Known(t))
<1>1. start \in S
  <2> DEFINE rt == InitialRoutes(n, t, nbrs)
  <2>1. \A d \in Nodes \ {n} : rt[d] \in UsableRoutes(nbrs)
    BY DEF InitialRoutes, InterfaceTo, UsableRoutes
  <2>2. rt \in [Nodes -> UsableRoutes(nbrs \cup {n})]
    BY DEF InitialRoutes, InterfaceTo, UsableRoutes
  <2> HIDE DEF rt
  <2>3. blank = [rt |-> rt, found |-> {}, stray |-> stray]
    BY DEF rt
  <2> HIDE DEF blank
  <2>4. CASE n \in Known(t)
    <3>1. start = [rt |-> rt, found |-> {n}, stray |-> stray]
      BY <2>3, <2>4 DEF MarkFound
    <3> HIDE DEF start
    <3> QED BY <2>1, <2>2, <2>4, <3>1 DEF UsableStates
  <2>5. CASE n \notin Known(t)
    <3>1. start = [rt |-> rt, found |-> {}, stray |-> TRUE]
      BY <2>3, <2>5 DEF MarkFound
    <3> HIDE DEF start
    <3> QED BY <2>1, <2>2, <2>5, <3>1 DEF UsableStates
  <2> QED BY <2>4, <2>5
<1>2. F \in [S -> S]
  BY RelaxUsable
<1>3. PICK g \in [Nat -> S] : g[0] = start /\ \A k \in Nat : g[k + 1] = F[g[k]]
  <2> HIDE DEF F, start, S
  <2> QED BY <1>1, <1>2, LoopExists
<1>4. g = Body(g)
  <2> HIDE DEF start, S
  <2> SUFFICES ASSUME NEW k \in Nat PROVE g[k] = Body(g)[k]
    BY <1>3
  <2>1. CASE k = 0
    BY <2>1, <1>3
  <2>2. CASE k # 0
    <3>1. k - 1 \in Nat /\ k = (k - 1) + 1 /\ g[k - 1] \in S
      BY <2>2
    <3> QED BY <2>2, <3>1, <1>3
  <2> QED BY <2>1, <2>2
<1>5. loop = Body(loop)
  BY <1>4
<1>6. Dijkstra(n, t, nbrs, stray) =
        loop[IF size = 0 THEN Cardinality(Nodes) ELSE size - 1].rt
  BY DEF Dijkstra
<1> HIDE DEF loop, start, S
<1>7. \A k \in Nat : loop[k] \in S
  <2> DEFINE T == {k \in Nat : loop[k] \in S}
  <2>1. 0 \in T
    BY <1>1, <1>5
  <2>2. ASSUME NEW k \in Nat, k \in T PROVE k + 1 \in T
    <3>1. k + 1 \in Nat /\ k + 1 # 0 /\ (k + 1) - 1 = k
      OBVIOUS
    <3>2. loop[k + 1] = Body(loop)[k + 1]
      BY <1>5
    <3>3. loop[k + 1] = Relax(loop[k], t, nbrs)
      BY <3>1, <3>2
    <3> QED BY <2>2, <3>3, RelaxUsable DEF S
  <2> HIDE DEF T
  <2>3. \A k \in Nat : k \in T
    BY <2>1, <2>2, SetInduction
  <2> QED BY <2>3 DEF T
<1>8. /\ size \in Nat /\ Cardinality(Nodes) \in Nat
  BY FS_Subset, FS_CardinalityType, NodesAssumption DEF Known
<1>9. (IF size = 0 THEN Cardinality(Nodes) ELSE size - 1) \in Nat
  BY <1>8
<1> QED BY <1>6, <1>7, <1>9 DEF S, UsableStates
(***************************************************************************)
(* The inductive invariant of RoutesUseNeighbors.  The links of a node's   *)
(* own entry are links to neighbours, once each; the entry may come from   *)
(* an echo of this node's own messages, so none of those in flight may     *)
(* name a neighbour that is gone.  Neighbours only go when the hello timer *)
(* expires, and then all messages of the round before have been delivered: *)
(* a message in flight is from a node whose AuditHellos has run.           *)
(***************************************************************************)
Drained == (calm => net = <<>>) /\ (due # {} => ~calm)

UpToDate ==
  {m \in LSMessages : m.orig \notin due /\ m.nbrs \subseteq neighborTable[m.orig]}

OwnLinks ==
  \A n, m \in Nodes :
    lsTable[n][n].neighborCosts[m] \in IF m \in neighborTable[n] THEN {0, 1} ELSE {0}

UsableTables ==
  /\ routingTable \in [Nodes -> [Nodes -> UsableRoutes(Nodes)]]
  /\ \A n \in Nodes :
       routingTable[n] \in [Nodes -> UsableRoutes(neighborTable[n] \cup {n})]

HopInv == Drained /\ Flooded(net, UpToDate) /\ OwnLinks /\ UsableTables

LEMMA UsableRoutesMonotone ==
  ASSUME NEW A, NEW B, A \subseteq B
  PROVE  UsableRoutes(A) \subseteq UsableRoutes(B)
BY DEF UsableRoutes

(* Recomputing the routes of a node makes them usable.                     *)
LEMMA UpdateRoutesUsable ==
  ASSUME UsableTables, OwnLinks', NEW n \in Nodes, UpdateRoutes(n),
         neighborTable' \in [Nodes -> SUBSET Nodes],
         \A a \in Nodes \ {n} : neighborTable'[a] = neighborTable[a]
  PROVE  UsableTables'
<1>1. PICK stray \in BOOLEAN :
        routingTable' = [routingTable EXCEPT
          ![n] = Dijkstra(n, lsTable'[n], neighborTable'[n], stray)]
  BY DEF UpdateRoutes
<1> DEFINE rt == Dijkstra(n, lsTable'[n], neighborTable'[n], stray)
<1>2. GetNeighbors(lsTable'[n], n) \subseteq neighborTable'[n]
  BY DEF OwnLinks, GetNeighbors
<1>3. rt \in [Nodes -> UsableRoutes(neighborTable'[n] \cup {n})]
  BY <1>2, DijkstraUsable
<1>4. rt \in [Nodes -> UsableRoutes(Nodes)]
  BY <1>3, UsableRoutesMonotone
<1> HIDE DEF rt
<1>5. routingTable' = [routingTable EXCEPT ![n] = rt]
  BY <1>1 DEF rt
<1>6. routingTable' \in [Nodes -> [Nodes -> UsableRoutes(Nodes)]]
  BY <1>4, <1>5 DEF UsableTables
<1>7. ASSUME NEW a \in Nodes
      PROVE  routingTable'[a] \in [Nodes -> UsableRoutes(neighborTable'[a] \cup {a})]
  <2>1. CASE a = n
    BY <1>3, <1>5, <2>1 DEF UsableTables
  <2>2. CASE a # n
    BY <1>5, <2>2 DEF UsableTables
  <2> QED BY <2>1, <2>2
<1> QED BY <1>6, <1>7 DEF UsableTables

LEMMA HopInvInit == Init => HopInv
<1> SUFFICES ASSUME Init PROVE HopInv
  OBVIOUS
<1>1. Drained /\ Flooded(net, UpToDate)
  BY DEF Init, SimInit, Drained, Flooded
<1>2. OwnLinks
  BY DEF Init, OwnLinks, NoEntry
<1>3. UsableTables
  BY DEF Init, UsableTables, UsableRoutes
<1> QED BY <1>1, <1>2, <1>3 DEF HopInv

(* A packet that arrives was in flight, so the network is not calm.        *)
LEMMA NotCalm ==
  ASSUME Drained, NEW i \in 1 .. Len(net), UNCHANGED clock
  PROVE  Drained'
BY DEF Drained, clock

LEMMA HopRefreshNeighbor ==
  ASSUME IInv, HopInv, NEW n \in Nodes, NEW i \in 1 .. Len(net), RefreshNeighbor(n, i)
  PROVE  HopInv'
<1>1. UpToDate' = UpToDate
  BY DEF UpToDate, RefreshNeighbor, clock
<1>2. Flooded(net', UpToDate)
  BY InFlightWithoutFlooded DEF HopInv, RefreshNeighbor
<1>3. OwnLinks' /\ UsableTables'
  BY DEF HopInv, OwnLinks, UsableTables, RefreshNeighbor
<1>4. Drained'
  BY NotCalm DEF HopInv, RefreshNeighbor
<1> QED BY <1>1, <1>2, <1>3, <1>4 DEF HopInv, Flooded

LEMMA HopDiscoverNeighbor ==
  ASSUME IInv, HopInv, NEW n \in Nodes, NEW i \in 1 .. Len(net), DiscoverNeighbor(n, i)
  PROVE  HopInv'
<1> DEFINE m == net[i].msg
           lsa == LSTableMessage(n, seq[n], neighborTable'[n])
<1>1. /\ net' = InFlightWithout(i, n) \o BroadcastPacket(n, lsa)
      /\ neighborTable' = [neighborTable EXCEPT ![n] = @ \cup {m.orig}]
      /\ lsTable' = [lsTable EXCEPT ![n][n] = AddOwnLink(@, m)]
      /\ UpdateRoutes(n) /\ m.orig \notin neighborTable[n]
      /\ UNCHANGED clock /\ due' = due /\ due = {}
  BY DEF DiscoverNeighbor, Receives, Arrives, clock
<1>2. m \in HelloMessages /\ m.orig \in Nodes
  BY ReceivedMessage DEF IInv, DiscoverNeighbor, Receives, HelloMessages
<1>3. /\ neighborTable' \in [Nodes -> SUBSET Nodes]
      /\ \A a \in Nodes : neighborTable[a] \subseteq neighborTable'[a]
      /\ \A a \in Nodes \ {n} : neighborTable'[a] = neighborTable[a]
      /\ neighborTable'[n] = neighborTable[n] \cup {m.orig}
  BY <1>1, <1>2 DEF IInv, LiveTypeOK
<1>4. lsa \in LSMessages /\ lsa \in Messages /\ lsa.orig = n /\ lsa.nbrs = neighborTable'[n]
  <2>1. seq[n] \in SeqNums
    BY DEF IInv, LiveTypeOK
  <2> QED BY <1>3, <2>1, SentMessages DEF LSTableMessage
<1> HIDE DEF lsa
<1>5. UpToDate \subseteq UpToDate' /\ lsa \in UpToDate'
  BY <1>1, <1>3, <1>4 DEF UpToDate, LSMessages
<1>6. Flooded(net', UpToDate')
  <2>1. Flooded(InFlightWithout(i, n), UpToDate')
    BY <1>5, InFlightWithoutFlooded, FloodedMonotone DEF HopInv
  <2>2. Flooded(BroadcastPacket(n, lsa), UpToDate')
    BY <1>4, <1>5, BroadcastFlooded DEF IInv, LiveTypeOK, SimTypeOK
  <2> QED BY <1>1, <2>1, <2>2, ConcatFlooded
<1>7. OwnLinks'
  <2> SUFFICES ASSUME NEW a \in Nodes, NEW x \in Nodes
               PROVE  lsTable'[a][a].neighborCosts[x] \in
                        IF x \in neighborTable'[a] THEN {0, 1} ELSE {0}
    BY DEF OwnLinks
  <2>1. CASE a # n
    <3>1. lsTable'[a][a] = lsTable[a][a]
      BY <1>1, <2>1 DEF IInv, LiveTypeOK
    <3> QED BY <1>3, <2>1, <3>1 DEF HopInv, OwnLinks
  <2>2. CASE a = n
    <3>1. lsTable'[n][n] = AddOwnLink(lsTable[n][n], m)
      BY <1>1 DEF IInv, LiveTypeOK
    <3>2. CASE lsTable[n][n] = NoEntry
      <4>1. lsTable'[n][n].neighborCosts = CostsOf({m.orig})
        BY <3>1, <3>2 DEF AddOwnLink
      <4> QED BY <1>3, <2>2, <4>1 DEF CostsOf
    <3>3. CASE lsTable[n][n] # NoEntry
      <4>1. lsTable[n][n] \in LSTableEntry
        BY <3>3 DEF IInv, LiveTypeOK
      <4>2. lsTable'[n][n].neighborCosts = push_back(lsTable[n][n].neighborCosts, m.orig)
        BY <3>1, <3>3, <4>1 DEF AddOwnLink, LSTableEntry
      <4>3. lsTable[n][n].neighborCosts \in [Nodes -> Nat]
        BY <4>1 DEF LSTableEntry
      <4>4. lsTable[n][n].neighborCosts[m.orig] = 0
        BY <1>1, <1>2 DEF HopInv, OwnLinks
      <4>5. lsTable[n][n].neighborCosts[x] \in IF x \in neighborTable[n] THEN {0, 1} ELSE {0}
        BY DEF HopInv, OwnLinks
      <4> QED BY <1>2, <1>3, <2>2, <4>2, <4>3, <4>4, <4>5 DEF push_back
    <3> QED BY <3>2, <3>3
  <2> QED BY <2>1, <2>2
<1>8. UsableTables'
  BY <1>1, <1>3, <1>7, UpdateRoutesUsable DEF HopInv
<1>9. Drained'
  BY <1>1, NotCalm DEF HopInv
<1> QED BY <1>6, <1>7, <1>8, <1>9 DEF HopInv, Flooded

LEMMA HopProcessLSTableMessage ==
  ASSUME IInv, HopInv, NEW n \in Nodes, NEW i \in 1 .. Len(net),
         ProcessLSTableMessage(n, i)
  PROVE  HopInv'
<1> DEFINE m == net[i].msg
           entry == [neighborCosts |-> CostsOf(m.nbrs), sequenceNumber |-> m.seq]
<1>1. m \in LSMessages /\ m \in Messages /\ m \in UpToDate /\ m.orig \in Nodes
  <2>1. m \in LSMessages /\ m \in Messages
    BY ReceivedMessage DEF IInv, ProcessLSTableMessage, Receives, Messages
  <2>2. m \in UpToDate
    BY <2>1 DEF HopInv, Flooded
  <2> QED BY <2>1, <2>2 DEF LSMessages
<1>2. UNCHANGED neighborTable /\ UNCHANGED clock /\ UNCHANGED due
  BY DEF ProcessLSTableMessage, clock
<1>3. UpToDate' = UpToDate
  BY <1>2 DEF UpToDate
<1>4. Flooded(InFlightWithout(i, n), UpToDate)
  BY InFlightWithoutFlooded DEF HopInv
<1>5. Drained'
  BY <1>2, NotCalm DEF HopInv
<1>6. CASE ~IsNewer(lsTable[n], m)
  <2>1. net' = InFlightWithout(i, n) /\ UNCHANGED <<lsTable, routingTable>>
    BY <1>6 DEF ProcessLSTableMessage
  <2>2. OwnLinks' /\ UsableTables'
    BY <1>2, <2>1 DEF HopInv, OwnLinks, UsableTables
  <2> QED BY <1>3, <1>4, <1>5, <2>1, <2>2 DEF HopInv, Flooded
<1>7. CASE IsNewer(lsTable[n], m)
  <2> HIDE DEF entry
  <2>1. /\ net' = InFlightWithout(i, n) \o BroadcastPacket(n, m)
        /\ lsTable' = [lsTable EXCEPT ![n][m.orig] = entry]
        /\ UpdateRoutes(n)
    BY <1>7 DEF ProcessLSTableMessage, entry
  <2>2. Flooded(net', UpToDate)
    <3>1. Flooded(BroadcastPacket(n, m), UpToDate)
      BY <1>1, BroadcastFlooded DEF IInv, LiveTypeOK, SimTypeOK
    <3> QED BY <1>4, <2>1, <3>1, ConcatFlooded
  <2>3. OwnLinks'
    <3> SUFFICES ASSUME NEW a \in Nodes, NEW x \in Nodes
                 PROVE  lsTable'[a][a].neighborCosts[x] \in
                          IF x \in neighborTable[a] THEN {0, 1} ELSE {0}
      BY <1>2 DEF OwnLinks
    <3>1. CASE a = n /\ a = m.orig
      <4>1. lsTable'[a][a] = entry
        BY <2>1, <3>1 DEF IInv, LiveTypeOK
      <4>2. m.nbrs \subseteq neighborTable[a]
        BY <1>1, <3>1 DEF UpToDate
      <4> QED BY <4>1, <4>2 DEF entry, CostsOf
    <3>2. CASE ~(a = n /\ a = m.orig)
      <4>1. lsTable'[a][a] = lsTable[a][a]
        BY <1>1, <2>1, <3>2 DEF IInv, LiveTypeOK
      <4> QED BY <4>1 DEF HopInv, OwnLinks
    <3> QED BY <3>1, <3>2
  <2>4. UsableTables'
    BY <1>2, <2>1, <2>3, UpdateRoutesUsable DEF HopInv, IInv, LiveTypeOK
  <2> QED BY <1>3, <1>5, <2>2, <2>3, <2>4 DEF HopInv, Flooded
<1> QED BY <1>6, <1>7

LEMMA HopAuditHellos ==
  ASSUME IInv, HopInv, NEW n \in Nodes, AuditHellos(n)
  PROVE  HopInv'
<1> DEFINE s1 == GetNextSequenceNumber(seq[n])
           lsa == LSTableMessage(n, s1, neighborTable'[n])
<1>1. /\ neighborTable' = [neighborTable EXCEPT ![n] = @ \ Expired(n)]
      /\ due' = due \ {n} /\ n \in due /\ UNCHANGED calm
  BY DEF AuditHellos, FirstDue
<1>2. /\ neighborTable' \in [Nodes -> SUBSET Nodes]
      /\ \A a \in Nodes \ {n} : neighborTable'[a] = neighborTable[a]
      /\ neighborTable'[n] = neighborTable[n] \ Expired(n)
  BY <1>1 DEF IInv, LiveTypeOK
<1>3. Drained'
  BY <1>1 DEF HopInv, Drained
<1>4. UpToDate \subseteq UpToDate'
  BY <1>1, <1>2 DEF UpToDate, LSMessages
<1>5. Flooded(net, UpToDate')
  BY <1>4, FloodedMonotone DEF HopInv
<1>6. seq[n] \in SeqNums /\ s1 \in SeqNums
  BY NextSequenceNumber DEF IInv, LiveTypeOK
<1>7. Flooded(SendHello(n, seq[n]), UpToDate')
  BY <1>6, HelloFlooded DEF IInv, LiveTypeOK, SimTypeOK
<1>8. lsa \in LSMessages /\ lsa \in Messages /\ lsa \in UpToDate'
  <2>1. lsa \in LSMessages /\ lsa \in Messages
    BY <1>2, <1>6, SentMessages
  <2>2. lsa.orig = n /\ lsa.nbrs = neighborTable'[n]
    BY DEF LSTableMessage
  <2> HIDE DEF lsa
  <2> QED BY <1>1, <2>1, <2>2 DEF UpToDate
<1> HIDE DEF s1, lsa
<1>9. CASE Expired(n) = {}
  <2>1. /\ net' = net \o SendHello(n, seq[n])
        /\ UNCHANGED <<lsTable, routingTable>>
    BY <1>9 DEF AuditHellos
  <2>2. \A a \in Nodes : neighborTable'[a] = neighborTable[a]
    BY <1>2, <1>9
  <2>3. OwnLinks' /\ UsableTables'
    BY <2>1, <2>2 DEF HopInv, OwnLinks, UsableTables
  <2>4. Flooded(net', UpToDate')
    BY <1>5, <1>7, <2>1, ConcatFlooded
  <2> QED BY <1>3, <2>3, <2>4 DEF HopInv, Flooded
<1>10. CASE Expired(n) # {}
  <2>1. /\ net' = net \o SendHello(n, seq[n]) \o BroadcastPacket(n, lsa)
        /\ lsTable' = [lsTable EXCEPT ![n] = UnlinkExpired(n)]
        /\ UpdateRoutes(n)
    BY <1>10 DEF AuditHellos, s1, lsa
  <2>2. Flooded(net', UpToDate')
    <3>1. Flooded(BroadcastPacket(n, lsa), UpToDate')
      BY <1>8, BroadcastFlooded DEF IInv, LiveTypeOK, SimTypeOK
    <3> QED BY <1>5, <1>7, <2>1, <3>1, ConcatFlooded
  <2>3. OwnLinks'
    <3> SUFFICES ASSUME NEW a \in Nodes, NEW x \in Nodes
                 PROVE  lsTable'[a][a].neighborCosts[x] \in
                          IF x \in neighborTable'[a] THEN {0, 1} ELSE {0}
      BY DEF OwnLinks
    <3>1. CASE a # n
      <4>1. lsTable'[a] = lsTable[a]
        BY <2>1, <3>1 DEF IInv, LiveTypeOK
      <4> QED BY <1>2, <3>1, <4>1 DEF HopInv, OwnLinks
    <3>2. CASE a = n
      <4>1. lsTable'[n][n] = UnlinkExpired(n)[n]
        BY <2>1 DEF IInv, LiveTypeOK
      <4>2. lsTable[n][n].neighborCosts[x] \in IF x \in neighborTable[n] THEN {0, 1} ELSE {0}
        BY DEF HopInv, OwnLinks
      <4>3. CASE lsTable[n][n] = NoEntry
        <5>1. lsTable'[n][n] = NoEntry
          BY <4>1, <4>3 DEF UnlinkExpired
        <5> QED BY <3>2, <5>1 DEF NoEntry
      <4>4. CASE lsTable[n][n] # NoEntry
        <5>1. lsTable[n][n] \in LSTableEntry
          BY <4>4 DEF IInv, LiveTypeOK
        <5>2. lsTable'[n][n].neighborCosts =
                removeLSTableLink(lsTable[n][n].neighborCosts, Expired(n))
          BY <4>1, <4>4, <5>1 DEF UnlinkExpired, LSTableEntry
        <5>3. lsTable'[n][n].neighborCosts[x] =
                IF x \in Expired(n) /\ lsTable[n][n].neighborCosts[x] > 0
                THEN lsTable[n][n].neighborCosts[x] - 1
                ELSE lsTable[n][n].neighborCosts[x]
          BY <5>2 DEF removeLSTableLink
        <5> QED BY <1>2, <3>2, <4>2, <5>3
      <4> QED BY <4>3, <4>4
    <3> QED BY <3>1, <3>2
  <2>4. UsableTables'
    BY <1>2, <2>1, <2>3, UpdateRoutesUsable DEF HopInv
  <2> QED BY <1>3, <2>2, <2>3, <2>4 DEF HopInv, Flooded
<1> QED BY <1>9, <1>10

LEMMA HopSim ==
  ASSUME IInv, HopInv, SimNext, UNCHANGED lsVars
  PROVE  HopInv'
<1>1. UNCHANGED <<neighborTable, lsTable, routingTable>>
  BY DEF lsVars
<1>2. OwnLinks' /\ UsableTables'
  BY <1>1 DEF HopInv, OwnLinks, UsableTables
<1>3. ASSUME NEW i \in 1 .. Len(net), NEW r \in Nodes, DropPacket(i, r)
      PROVE  Drained' /\ Flooded(net', UpToDate')
  <2>1. net' = InFlightWithout(i, r) /\ UNCHANGED clock /\ UNCHANGED due
    BY <1>3 DEF DropPacket, clock
  <2>2. UpToDate' = UpToDate
    BY <1>1, <2>1 DEF UpToDate
  <2> QED BY <2>1, <2>2, InFlightWithoutFlooded, NotCalm DEF HopInv
<1>4. ASSUME NEW newUp, SetInterfaces(newUp)
      PROVE  Drained' /\ Flooded(net', UpToDate')
  <2>1. UNCHANGED <<net, due, calm>>
    BY <1>4 DEF SetInterfaces
  <2>2. UpToDate' = UpToDate
    BY <1>1, <2>1 DEF UpToDate
  <2> QED BY <2>1, <2>2 DEF HopInv, Drained, Flooded
<1>5. CASE Settle
  <2>1. net' = <<>> /\ due' = {}
    BY <1>5 DEF Settle
  <2> QED BY <1>2, <2>1 DEF HopInv, Drained, Flooded
<1>6. CASE HelloInstant
  <2>1. net' = <<>> /\ calm' = FALSE
    BY <1>6 DEF HelloInstant, HopInv, Drained
  <2> QED BY <1>2, <2>1 DEF HopInv, Drained, Flooded
<1>7. Drained' /\ Flooded(net', UpToDate') => HopInv'
  BY <1>2 DEF HopInv, Flooded
<1> QED BY <1>3, <1>4, <1>5, <1>6, <1>7
        DEF SimNext, LinkOperation, AllInterfacesOperation

(* One step of the protocol, without HELLO and LSTABLEMSG commands.        *)
LEMMA HopStep ==
  ASSUME Commands \subseteq {"PING"}, IInv, HopInv, [Step]_liveVars
  PROVE  HopInv'
<1>1. CASE Receive
  BY <1>1, HopRefreshNeighbor, HopDiscoverNeighbor, HopProcessLSTableMessage
     DEF Receive, ProcessHelloReq
<1>2. ASSUME NEW n \in Nodes, AuditHellos(n) PROVE HopInv'
  BY <1>2, HopAuditHellos
<1>3. ASSUME NEW n \in Nodes, ProcessCommand(n) PROVE HopInv'
  BY <1>3 DEF ProcessCommand, clock, HopInv, Drained, Flooded, UpToDate, OwnLinks, UsableTables
<1>4. CASE SimNext /\ UNCHANGED lsVars
  BY <1>4, HopSim
<1>5. CASE UNCHANGED liveVars
  BY <1>5 DEF liveVars, simVars, lsVars, HopInv, Drained, Flooded, UpToDate, OwnLinks,
     UsableTables
<1> QED BY <1>1, <1>2, <1>3, <1>4, <1>5 DEF Step

(* Dijkstra never takes an interface from an end() iterator, and never     *)
(* keeps a route through a node that AuditHellos has dropped, as long as   *)
(* nobody issues HELLO and LSTABLEMSG commands: an LSTABLEMSG that is in   *)
(* flight when the timers expire names neighbours that are gone, and its   *)
(* echo is believed.                                                       *)
THEOREM NextHops ==
  ASSUME Commands \subseteq {"PING"}
  PROVE  Spec => []RoutesUseNeighbors
<1>1. HopInv => RoutesUseNeighbors
  BY DEF HopInv, UsableTables, UsableRoutes, RoutesUseNeighbors
<1>2. IInv /\ HopInv /\ [Step]_liveVars => HopInv'
  BY HopStep
<1> QED BY <1>1, <1>2, HopInvInit, Invariance, SpecSteps, PTL

-----------------------------------------------------------------------------
(***************************************************************************)
(* Neighbours, once the hello timers have run three times.                 *)
(***************************************************************************)
(* A hello comes from the node that made it; a packet that was sent since  *)
(* the last command is only for nodes that its sender's interfaces face.   *)
HonestPackets == {p \in Packets : p.msg.type = "HELLO_REQ" => p.msg.orig = p.from}
FreshPackets == {p \in Packets : p.to \subseteq up[p.from]}

HelloPending(m, n) ==
  \E msg \in Messages : msg.type = "HELLO_REQ" /\ InFlight(net, m, n, msg)

(* The first instant after a command sends hellos over the working links   *)
(* only, but stale ones may be on their way until the network has drained; *)
(* the second discards what those brought; the third finds out who was not *)
(* heard.  Between the instants, every hello is on its way or has come.    *)
HelloInv ==
  /\ net \in Seq(HonestPackets)
  /\ age >= 2 \/ (age = 1 /\ calm) => net \in Seq(FreshPackets)
  /\ \A n \in Nodes :
       /\ age = Drain \/ (age = 2 /\ n \notin due) => heard[n] \subseteq LiveLinks[n]
       /\ age = Drain /\ n \notin due => neighborTable[n] \subseteq LiveLinks[n]
  /\ age >= 1 =>
       \A m \in Nodes \ due, n \in Nodes :
         Live(m, n) => HelloPending(m, n) \/ (due = {} /\ m \in neighborTable[n])

(* Taking a copy off the network keeps the others, and what is true of     *)
(* their packets.                                                          *)
LEMMA HelloTaken ==
  ASSUME LiveTypeOK, NEW i \in 1 .. Len(net), NEW r \in Nodes
  PROVE  /\ net \in Seq(HonestPackets) => InFlightWithout(i, r) \in Seq(HonestPackets)
         /\ net \in Seq(FreshPackets) => InFlightWithout(i, r) \in Seq(FreshPackets)
         /\ \A f, x, msg : InFlight(net, f, x, msg) =>
              \/ InFlight(InFlightWithout(i, r), f, x, msg)
              \/ f = net[i].from /\ x = r /\ msg = net[i].msg
<1>1. net \in Seq(Packets) /\ Packets = PacketsOf(Nodes, Messages)
  BY DEF LiveTypeOK, Packets, PacketsOf
<1>2. InFlightWithout(i, r) = Without(net, i, r)
  BY DEF InFlightWithout, Without
<1>3. /\ \A p \in HonestPackets : \A x : [p EXCEPT !.to = @ \ {x}] \in HonestPackets
      /\ \A p \in FreshPackets : \A x : [p EXCEPT !.to = @ \ {x}] \in FreshPackets
  BY DEF Packets, HonestPackets, FreshPackets
<1>4. /\ HonestPackets \in SUBSET PacketsOf(Nodes, Messages)
      /\ FreshPackets \in SUBSET PacketsOf(Nodes, Messages)
  BY <1>1 DEF HonestPackets, FreshPackets
<1>5. ASSUME NEW f, NEW x, NEW msg, InFlight(net, f, x, msg)
      PROVE  InFlight(Without(net, i, r), f, x, msg)
               \/ (f = net[i].from /\ x = r /\ msg = net[i].msg)
  BY <1>1, <1>5, OthersInFlight
<1>6. ASSUME net \in Seq(HonestPackets) PROVE Without(net, i, r) \in Seq(HonestPackets)
  BY <1>3, <1>4, <1>6, WithoutProperties
<1>7. ASSUME net \in Seq(FreshPackets) PROVE Without(net, i, r) \in Seq(FreshPackets)
  BY <1>3, <1>4, <1>7, WithoutProperties
<1> QED BY <1>2, <1>5, <1>6, <1>7

(* A node takes a packet, sends others, and counts its sender among its    *)
(* neighbours, if it was a hello.                                          *)
LEMMA HelloArrival ==
  ASSUME LiveTypeOK, HelloInv, NEW n \in Nodes, NEW i \in 1 .. Len(net),
         NEW extra \in Seq(HonestPackets), extra \in Seq(FreshPackets),
         Arrives(i, n), net[i].from \in up[n],
         net' = InFlightWithout(i, n) \o extra,
         UNCHANGED <<up, due, calm, age>>,
         \A a \in Nodes \ {n} : neighborTable'[a] = neighborTable[a] /\ heard'[a] = heard[a],
         neighborTable[n] \subseteq neighborTable'[n],
         neighborTable'[n] \subseteq neighborTable[n] \cup {net[i].from},
         heard'[n] \subseteq heard[n] \cup {net[i].from},
         net[i].msg.type = "HELLO_REQ" => net[i].from \in neighborTable'[n]
  PROVE  HelloInv'
<1> DEFINE m == net[i].from
           w == InFlightWithout(i, n)
<1>1. /\ net \in Seq(Packets) /\ net \in Seq(HonestPackets)
      /\ up \in [Nodes -> SUBSET Nodes] /\ due = {} /\ age \in 0 .. 3 /\ n \in net[i].to
  BY DEF LiveTypeOK, SimTypeOK, HelloInv, Arrives, Drain
<1>2. m \in Nodes
  BY <1>1 DEF Packets
<1>3. /\ net \in Seq(HonestPackets) => w \in Seq(HonestPackets)
      /\ net \in Seq(FreshPackets) => w \in Seq(FreshPackets)
      /\ \A f, x, msg : InFlight(net, f, x, msg) =>
           InFlight(w, f, x, msg) \/ (f = m /\ x = n /\ msg = net[i].msg)
  BY HelloTaken
<1> HIDE DEF w
<1>4. /\ FreshPackets' = FreshPackets /\ LiveLinks' = LiveLinks
      /\ \A a, b : Live(a, b)' <=> Live(a, b)
  BY DEF FreshPackets, LiveLinks, Live
<1>5. net' \in Seq(HonestPackets)
  BY <1>1, <1>3 DEF w
<1>6. net \in Seq(FreshPackets) => net' \in Seq(FreshPackets)
  BY <1>3 DEF w
<1>7. net \in Seq(FreshPackets) => m \in LiveLinks[n]
  <2> SUFFICES ASSUME net \in Seq(FreshPackets) PROVE m \in LiveLinks[n]
    OBVIOUS
  <2>1. net[i] \in FreshPackets
    OBVIOUS
  <2>2. n \in up[m]
    BY <1>1, <2>1 DEF FreshPackets
  <2> QED BY <1>2, <2>2 DEF LiveLinks, Live
<1> HIDE DEF m
<1>8. ASSUME NEW a \in Nodes
      PROVE  /\ age = Drain \/ (age = 2 /\ a \notin due) => heard'[a] \subseteq LiveLinks[a]
             /\ age = Drain /\ a \notin due => neighborTable'[a] \subseteq LiveLinks[a]
  <2>1. /\ age = Drain \/ (age = 2 /\ a \notin due) => heard[a] \subseteq LiveLinks[a]
        /\ age = Drain /\ a \notin due => neighborTable[a] \subseteq LiveLinks[a]
        /\ age = Drain \/ age = 2 => net \in Seq(FreshPackets)
    BY DEF HelloInv, Drain
  <2>2. CASE a # n
    BY <2>1, <2>2
  <2>3. CASE a = n
    BY <1>7, <2>1, <2>3 DEF m
  <2> QED BY <2>2, <2>3
<1>9. ASSUME age >= 1, NEW a \in Nodes \ due, NEW b \in Nodes, Live(a, b)
      PROVE  HelloPending(a, b)' \/ (due = {} /\ a \in neighborTable'[b])
  <2>1. HelloPending(a, b) \/ a \in neighborTable[b]
    BY <1>9 DEF HelloInv
  <2>2. CASE a \in neighborTable[b]
    BY <1>1, <2>2
  <2>3. CASE HelloPending(a, b)
    <3>1. PICK msg \in Messages : msg.type = "HELLO_REQ" /\ InFlight(net, a, b, msg)
      BY <2>3 DEF HelloPending
    <3>2. CASE InFlight(w, a, b, msg)
      <4>1. InFlight(net', a, b, msg)
        BY <1>1, <1>3, <3>2, ConcatInFlight DEF w
      <4> QED BY <3>1, <4>1 DEF HelloPending
    <3>3. CASE a = m /\ b = n /\ msg = net[i].msg
      BY <1>1, <3>1, <3>3 DEF m
    <3> QED BY <1>3, <3>1, <3>2, <3>3
  <2> QED BY <2>1, <2>2, <2>3
<1> QED BY <1>4, <1>5, <1>6, <1>8, <1>9 DEF HelloInv

(* The copy that DropPacket discards came over a link that does not work.  *)
LEMMA HelloDrop ==
  ASSUME LiveTypeOK, HelloInv, NEW r \in Nodes, NEW i \in 1 .. Len(net), DropPacket(i, r),
         UNCHANGED <<neighborTable, heard>>
  PROVE  HelloInv'
<1> DEFINE w == InFlightWithout(i, r)
<1>1. UNCHANGED <<up, due, calm, age>> /\ net[i].from \notin up[r]
  BY DEF DropPacket, clock
<1>2. /\ net \in Seq(HonestPackets) => w \in Seq(HonestPackets)
      /\ net \in Seq(FreshPackets) => w \in Seq(FreshPackets)
      /\ \A f, x, msg : InFlight(net, f, x, msg) =>
           InFlight(w, f, x, msg) \/ (f = net[i].from /\ x = r /\ msg = net[i].msg)
  BY HelloTaken
<1>3. net' = w
  BY DEF DropPacket
<1> HIDE DEF w
<1>4. /\ FreshPackets' = FreshPackets /\ LiveLinks' = LiveLinks
      /\ \A a, b : Live(a, b)' <=> Live(a, b)
  BY <1>1 DEF FreshPackets, LiveLinks, Live
<1>5. ASSUME NEW a \in Nodes, NEW b \in Nodes, Live(a, b), HelloPending(a, b)
      PROVE  HelloPending(a, b)'
  BY <1>1, <1>2, <1>3, <1>5 DEF HelloPending, Live
<1> QED BY <1>1, <1>2, <1>3, <1>4, <1>5 DEF HelloInv

(* The other steps of the simulator.                                       *)
LEMMA HelloSim ==
  ASSUME LiveTypeOK, HelloInv, SimNext, UNCHANGED <<neighborTable, heard>>
  PROVE  HelloInv'
<1>1. CASE \E i \in 1 .. Len(net), r \in Nodes : DropPacket(i, r)
  BY <1>1, HelloDrop
<1>2. ASSUME NEW newUp, SetInterfaces(newUp)
      PROVE  HelloInv'
  <2>1. net' = net /\ age' = 0
    BY <1>2 DEF SetInterfaces
  <2> QED BY <2>1 DEF HelloInv, Drain, HonestPackets
<1>3. CASE Settle
  <2>1. net = <<>> /\ UNCHANGED <<up, net, due, age>>
    BY <1>3 DEF Settle
  <2>2. LiveLinks' = LiveLinks /\ \A a, b : Live(a, b)' <=> Live(a, b)
    BY <2>1 DEF LiveLinks, Live
  <2>3. net' \in Seq(FreshPackets') /\ net' \in Seq(HonestPackets)
    BY <2>1
  <2>4. ~ \E a, b : HelloPending(a, b)
    BY <2>1 DEF HelloPending, InFlight
  <2> QED BY <2>1, <2>2, <2>3, <2>4 DEF HelloInv
<1>4. CASE HelloInstant
  <2>1. /\ UNCHANGED <<up, net>> /\ due = {} /\ calm /\ due' = Nodes /\ ~calm'
        /\ age' = IF age < Drain THEN age + 1 ELSE age
    BY <1>4 DEF HelloInstant
  <2>2. FreshPackets' = FreshPackets /\ LiveLinks' = LiveLinks
    BY <2>1 DEF FreshPackets, LiveLinks, Live
  <2>3. age \in 0 .. 3
    BY DEF LiveTypeOK, SimTypeOK, Drain
  <2>4. age' >= 2 => age >= 1
    BY <2>1, <2>3 DEF Drain
  <2>5. age' = Drain => age >= 2
    BY <2>1, <2>3 DEF Drain
  <2>6. age >= 1 => net \in Seq(FreshPackets)
    BY <2>1, <2>3 DEF HelloInv
  <2>7. \A n \in Nodes : age >= 2 => heard[n] \subseteq LiveLinks[n]
    BY <2>1, <2>3 DEF HelloInv, Drain
  <2> QED BY <2>1, <2>2, <2>4, <2>5, <2>6, <2>7 DEF HelloInv, HonestPackets
<1> QED BY <1>1, <1>2, <1>3, <1>4 DEF SimNext, LinkOperation, AllInterfacesOperation

(* AuditHellos sends a hello, and drops who was not heard.                 *)
LEMMA HelloAudit ==
  ASSUME LiveTypeOK, HelloInv, NEW n \in Nodes, FirstDue(n),
         NEW msg \in Messages, msg.type = "HELLO_REQ", msg.orig = n,
         NEW extra \in Seq(HonestPackets), extra \in Seq(FreshPackets),
         net' = (net \o BroadcastPacket(n, msg)) \o extra,
         neighborTable' = [neighborTable EXCEPT ![n] = @ \ Expired(n)],
         heard' = [heard EXCEPT ![n] = {}],
         due' = due \ {n}, UNCHANGED <<up, calm, age>>
  PROVE  HelloInv'
<1> DEFINE b == BroadcastPacket(n, msg)
           p == [from |-> n, to |-> up[n], msg |-> msg]
<1>1. /\ net \in Seq(Packets) /\ net \in Seq(HonestPackets)
      /\ up \in [Nodes -> SUBSET Nodes] /\ n \in due
  BY DEF LiveTypeOK, SimTypeOK, HelloInv, FirstDue
<1>2. p \in HonestPackets /\ p \in FreshPackets
  BY <1>1 DEF HonestPackets, FreshPackets, Packets
<1>3. b = IF up[n] = {} THEN <<>> ELSE <<p>>
  BY DEF BroadcastPacket
<1> HIDE DEF p
<1>4. b \in Seq(HonestPackets) /\ b \in Seq(FreshPackets)
  BY <1>2, <1>3
<1>5. \A x \in up[n] : InFlight(b, n, x, msg)
  <2> SUFFICES ASSUME NEW x \in up[n] PROVE InFlight(b, n, x, msg)
    OBVIOUS
  <2>1. b = <<p>> /\ Len(b) = 1 /\ b[1] = p
    BY <1>3
  <2> HIDE DEF b
  <2>2. 1 \in 1 .. Len(b) /\ b[1].from = n /\ b[1].msg = msg /\ x \in b[1].to
    BY <2>1 DEF p
  <2> QED BY <2>2 DEF InFlight
<1> HIDE DEF b
<1>6. /\ net \o b \in Seq(HonestPackets) /\ net' \in Seq(HonestPackets)
      /\ net \in Seq(FreshPackets) => net' \in Seq(FreshPackets)
  BY <1>1, <1>4 DEF b
<1>7. /\ \A f, x, g : InFlight(net, f, x, g) => InFlight(net', f, x, g)
      /\ \A x \in up[n] : InFlight(net', n, x, msg)
  <2>1. \A f, x, g : InFlight(net \o b, f, x, g) <=> InFlight(net, f, x, g) \/ InFlight(b, f, x, g)
    BY <1>1, <1>4, ConcatInFlight
  <2>2. \A f, x, g : InFlight(net', f, x, g) <=> InFlight(net \o b, f, x, g) \/ InFlight(extra, f, x, g)
    BY <1>6, ConcatInFlight DEF b
  <2> QED BY <1>5, <2>1, <2>2
<1>8. /\ FreshPackets' = FreshPackets /\ LiveLinks' = LiveLinks
      /\ \A x, y : Live(x, y)' <=> Live(x, y)
  BY DEF FreshPackets, LiveLinks, Live
<1>9. ASSUME NEW a \in Nodes
      PROVE  /\ age = Drain \/ (age = 2 /\ a \notin due') => heard'[a] \subseteq LiveLinks[a]
             /\ age = Drain /\ a \notin due' => neighborTable'[a] \subseteq LiveLinks[a]
  <2>1. /\ age = Drain \/ (age = 2 /\ a \notin due) => heard[a] \subseteq LiveLinks[a]
        /\ age = Drain /\ a \notin due => neighborTable[a] \subseteq LiveLinks[a]
    BY DEF HelloInv
  <2>2. CASE a # n
    BY <2>1, <2>2 DEF LiveTypeOK
  <2>3. CASE a = n
    <3>1. heard'[a] = {} /\ neighborTable'[a] \subseteq heard[a]
      BY <2>3 DEF LiveTypeOK, Expired
    <3> QED BY <2>1, <3>1
  <2> QED BY <2>2, <2>3
<1>10. ASSUME age >= 1, NEW a \in Nodes \ due', NEW x \in Nodes, Live(a, x)
       PROVE  HelloPending(a, x)'
  <2>1. CASE a = n
    <3>1. x \in up[n]
      BY <1>10, <2>1 DEF Live
    <3> QED BY <1>7, <3>1, <2>1 DEF HelloPending
  <2>2. CASE a # n
    <3>1. HelloPending(a, x)
      BY <1>1, <1>10, <2>2 DEF HelloInv
    <3> QED BY <1>7, <3>1 DEF HelloPending
  <2> QED BY <2>1, <2>2
<1> QED BY <1>6, <1>8, <1>9, <1>10 DEF HelloInv

LEMMA HelloInvInit == Init => HelloInv
BY DEF Init, SimInit, HelloInv, Drain

(* What a node broadcasts goes over working interfaces; it floods messages *)
(* of other nodes, but its hellos are its own.                             *)
LEMMA BroadcastFresh ==
  ASSUME LiveTypeOK, NEW n \in Nodes, NEW msg \in Messages,
         msg.type = "HELLO_REQ" => msg.orig = n
  PROVE  /\ BroadcastPacket(n, msg) \in Seq(HonestPackets)
         /\ BroadcastPacket(n, msg) \in Seq(FreshPackets)
<1> DEFINE p == [from |-> n, to |-> up[n], msg |-> msg]
<1>1. p \in HonestPackets /\ p \in FreshPackets
  BY DEF HonestPackets, FreshPackets, Packets, LiveTypeOK, SimTypeOK
<1>2. BroadcastPacket(n, msg) = IF up[n] = {} THEN <<>> ELSE <<p>>
  BY DEF BroadcastPacket
<1> HIDE DEF p
<1> QED BY <1>1, <1>2

LEMMA HelloReceive ==
  ASSUME IInv, HelloInv, NEW n \in Nodes, NEW i \in 1 .. Len(net),
         ProcessHelloReq(n, i) \/ ProcessLSTableMessage(n, i)
  PROVE  HelloInv'
<1> DEFINE m == net[i].msg
           w == InFlightWithout(i, n)
           none == <<>>
<1>1. /\ LiveTypeOK /\ m \in Messages /\ net[i].from \in Nodes /\ w \in Seq(HonestPackets)
      /\ m.type = "HELLO_REQ" => m \in HelloMessages
      /\ m.type = "LS_TABLE_MSG" => m \in LSMessages
  BY ReceivedMessage, HelloTaken DEF IInv, HelloInv, Packets
<1>2. m.type = "HELLO_REQ" => m.orig = net[i].from
  BY DEF HelloInv, HonestPackets
<1> HIDE DEF m, w
<1>3. none \in Seq(HonestPackets) /\ none \in Seq(FreshPackets) /\ w \o none = w
  BY <1>1
<1> HIDE DEF none
<1>4. CASE RefreshNeighbor(n, i)
  <2>1. /\ Arrives(i, n) /\ net[i].from \in up[n] /\ m.orig \in neighborTable[n]
        /\ m.type = "HELLO_REQ"
        /\ heard' = [heard EXCEPT ![n] = @ \cup {m.orig}]
        /\ net' = w \o none
        /\ UNCHANGED <<up, due, calm, age, neighborTable>>
    BY <1>3, <1>4 DEF RefreshNeighbor, Receives, m, w, clock
  <2> QED BY <1>1, <1>2, <1>3, <2>1, HelloArrival DEF LiveTypeOK, w
<1>5. CASE DiscoverNeighbor(n, i)
  <2> DEFINE lsa == LSTableMessage(n, seq[n], neighborTable'[n])
             extra == BroadcastPacket(n, lsa)
  <2>1. /\ Arrives(i, n) /\ net[i].from \in up[n] /\ m.type = "HELLO_REQ"
        /\ neighborTable' = [neighborTable EXCEPT ![n] = @ \cup {m.orig}]
        /\ heard' = [heard EXCEPT ![n] = @ \cup {m.orig}]
        /\ net' = w \o extra
        /\ UNCHANGED <<up, due, calm, age>>
    BY <1>5 DEF DiscoverNeighbor, Receives, m, w, clock
  <2>2. /\ \A a \in Nodes \ {n} : neighborTable'[a] = neighborTable[a] /\ heard'[a] = heard[a]
        /\ neighborTable'[n] = neighborTable[n] \cup {m.orig}
        /\ heard'[n] = heard[n] \cup {m.orig}
        /\ neighborTable'[n] \in SUBSET Nodes
    BY <1>1, <1>2, <2>1 DEF LiveTypeOK
  <2>3. lsa \in Messages /\ lsa.type # "HELLO_REQ"
    BY <1>1, <2>2 DEF LiveTypeOK, LSTableMessage, Messages, LSMessages
  <2> HIDE DEF lsa
  <2>4. extra \in Seq(HonestPackets) /\ extra \in Seq(FreshPackets)
    BY <1>1, <2>3, BroadcastFresh
  <2> HIDE DEF extra
  <2> QED BY <1>1, <1>2, <2>1, <2>2, <2>4, HelloArrival DEF w
<1>6. CASE ProcessLSTableMessage(n, i)
  <2> DEFINE extra == IF IsNewer(lsTable[n], m) THEN BroadcastPacket(n, m) ELSE none
  <2>1. /\ Arrives(i, n) /\ net[i].from \in up[n] /\ m.type = "LS_TABLE_MSG"
        /\ net' = w \o extra
        /\ UNCHANGED <<up, due, calm, age, neighborTable, heard>>
    BY <1>3, <1>6 DEF ProcessLSTableMessage, Receives, m, w, clock
  <2>2. extra \in Seq(HonestPackets) /\ extra \in Seq(FreshPackets)
    BY <1>1, <1>3, <2>1, BroadcastFresh
  <2> HIDE DEF extra
  <2> QED BY <1>1, <1>2, <2>1, <2>2, HelloArrival DEF LiveTypeOK, m, w
<1> QED BY <1>4, <1>5, <1>6 DEF ProcessHelloReq

LEMMA HelloTimer ==
  ASSUME IInv, HelloInv, NEW n \in Nodes, AuditHellos(n)
  PROVE  HelloInv'
<1> DEFINE msg == [type |-> "HELLO_REQ", orig |-> n, seq |-> seq[n]]
           s1 == GetNextSequenceNumber(seq[n])
           lsa == LSTableMessage(n, s1, neighborTable'[n])
<1>1. /\ FirstDue(n)
      /\ neighborTable' = [neighborTable EXCEPT ![n] = @ \ Expired(n)]
      /\ heard' = [heard EXCEPT ![n] = {}]
      /\ due' = due \ {n} /\ UNCHANGED <<up, calm, age>>
  BY DEF AuditHellos
<1>2. LiveTypeOK /\ seq[n] \in SeqNums /\ s1 \in SeqNums /\ neighborTable'[n] \in SUBSET Nodes
  BY <1>1, NextSequenceNumber DEF IInv, LiveTypeOK
<1>3. msg \in Messages /\ msg.type = "HELLO_REQ" /\ msg.orig = n
  BY <1>2 DEF Messages, HelloMessages
<1>4. lsa \in Messages /\ lsa.type # "HELLO_REQ"
  BY <1>2 DEF LSTableMessage, Messages, LSMessages
<1>5. \/ net' = (net \o BroadcastPacket(n, msg)) \o BroadcastPacket(n, lsa)
      \/ net' = net \o BroadcastPacket(n, msg)
  BY DEF AuditHellos, SendHello
<1> HIDE DEF msg, lsa
<1>6. PICK extra \in Seq(HonestPackets) :
        extra \in Seq(FreshPackets) /\ net' = (net \o BroadcastPacket(n, msg)) \o extra
  <2>1. CASE net' = (net \o BroadcastPacket(n, msg)) \o BroadcastPacket(n, lsa)
    BY <1>2, <1>4, <2>1, BroadcastFresh
  <2>2. CASE net' = net \o BroadcastPacket(n, msg)
    <3> DEFINE none == <<>>
    <3>1. net \in Seq(HonestPackets) /\ BroadcastPacket(n, msg) \in Seq(HonestPackets)
      BY <1>2, <1>3, BroadcastFresh DEF HelloInv
    <3>2. net' = (net \o BroadcastPacket(n, msg)) \o none
      BY <2>2, <3>1
    <3>3. none \in Seq(HonestPackets) /\ none \in Seq(FreshPackets)
      OBVIOUS
    <3> HIDE DEF none
    <3> QED BY <3>2, <3>3
  <2> QED BY <1>5, <2>1, <2>2
<1> QED BY <1>1, <1>2, <1>3, <1>6, HelloAudit

(* HELLO and LSTABLEMSG commands add packets; PING adds none of these.     *)
LEMMA HelloCommand ==
  ASSUME IInv, HelloInv, NEW n \in Nodes, ProcessCommand(n)
  PROVE  HelloInv'
<1> DEFINE msg == [type |-> "HELLO_REQ", orig |-> n, seq |-> seq[n]]
           lsa == LSTableMessage(n, seq[n], neighborTable[n])
<1>1. UNCHANGED <<up, due, calm, age, neighborTable, heard>>
  BY DEF ProcessCommand, clock
<1>2. /\ LiveTypeOK /\ net \in Seq(HonestPackets)
      /\ msg \in Messages /\ msg.orig = n /\ lsa \in Messages /\ lsa.type # "HELLO_REQ"
  BY DEF IInv, LiveTypeOK, HelloInv, Messages, HelloMessages, LSMessages, LSTableMessage
<1>3. \/ net' = net \o BroadcastPacket(n, msg)
      \/ net' = net \o BroadcastPacket(n, lsa)
      \/ net' = net
  BY DEF ProcessCommand, SendHello
<1> HIDE DEF msg, lsa
<1>4. PICK extra \in Seq(HonestPackets) : extra \in Seq(FreshPackets) /\ net' = net \o extra
  <2> DEFINE none == <<>>
  <2>1. none \in Seq(HonestPackets) /\ none \in Seq(FreshPackets) /\ net \o none = net
    BY <1>2
  <2> HIDE DEF none
  <2> QED BY <1>2, <1>3, <2>1, BroadcastFresh
<1>5. /\ net' \in Seq(HonestPackets)
      /\ net \in Seq(FreshPackets) => net' \in Seq(FreshPackets)
  BY <1>2, <1>4
<1>6. \A f, x, g : InFlight(net, f, x, g) => InFlight(net', f, x, g)
  BY <1>2, <1>4, ConcatInFlight
<1>7. /\ FreshPackets' = FreshPackets /\ LiveLinks' = LiveLinks
      /\ \A a, b : Live(a, b)' <=> Live(a, b)
      /\ \A a, b : HelloPending(a, b) => HelloPending(a, b)'
  BY <1>1, <1>6 DEF FreshPackets, LiveLinks, Live, HelloPending
<1> QED BY <1>1, <1>5, <1>7 DEF HelloInv

LEMMA HelloStep == IInv /\ HelloInv /\ [Step]_liveVars => HelloInv'
<1> SUFFICES ASSUME IInv, HelloInv, [Step]_liveVars PROVE HelloInv'
  OBVIOUS
<1>1. CASE Receive
  BY <1>1, HelloReceive DEF Receive
<1>2. ASSUME NEW n \in Nodes, AuditHellos(n) PROVE HelloInv'
  BY <1>2, HelloTimer
<1>3. ASSUME NEW n \in Nodes, ProcessCommand(n) PROVE HelloInv'
  BY <1>3, HelloCommand
<1>4. CASE SimNext /\ UNCHANGED lsVars
  BY <1>4, HelloSim DEF lsVars, IInv
<1>5. CASE UNCHANGED liveVars
  <2>1. UNCHANGED <<up, net, due, calm, age, neighborTable, heard>>
    BY <1>5 DEF liveVars, simVars, lsVars
  <2>2. /\ FreshPackets' = FreshPackets /\ LiveLinks' = LiveLinks
        /\ \A a, b : (Live(a, b)' <=> Live(a, b)) /\ (HelloPending(a, b)' <=> HelloPending(a, b))
    BY <2>1 DEF FreshPackets, LiveLinks, Live, HelloPending
  <2> QED BY <2>1, <2>2 DEF HelloInv
<1> QED BY <1>1, <1>2, <1>3, <1>4, <1>5 DEF Step

(* In every network, whatever commands came before and whatever hellos     *)
(* they left in flight: three hello periods after the last one, every      *)
(* neighbour table has exactly the ends of the working links.              *)
THEOREM Discovery == Spec => []NeighborsSettled
<1>1. Init => IInv /\ HelloInv
  BY InitIInv, HelloInvInit
<1>2. IInv /\ HelloInv /\ [Step]_liveVars => IInv' /\ HelloInv'
  BY NextIInv, HelloStep
<1>3. IInv /\ HelloInv => NeighborsSettled
  <2> SUFFICES ASSUME IInv, HelloInv, Idle, age = Drain, NEW n \in Nodes
               PROVE  neighborTable[n] = LiveLinks[n]
    BY DEF NeighborsSettled
  <2>1. due = {} /\ net = <<>> /\ age >= 1
    BY DEF Idle, Drain
  <2>2. neighborTable[n] \subseteq LiveLinks[n]
    BY <2>1 DEF HelloInv
  <2>3. \A m : ~HelloPending(m, n)
    BY <2>1 DEF HelloPending, InFlight
  <2>4. LiveLinks[n] \subseteq neighborTable[n]
    BY <2>1, <2>3 DEF HelloInv, LiveLinks, Live
  <2> QED BY <2>2, <2>4
<1> QED BY <1>1, <1>2, <1>3, SpecSteps, PTL

(***************************************************************************)
(* The entry at end().  In an orderly scenario, a node that y has found    *)
(* has y's entry, or y's message is on its way to it; and a node that has  *)
(* found y has y's entry by the time that the network is calm, as its own  *)
(* hello has made y find it.                                               *)
(***************************************************************************)
Present(x, y) == lsTable[x][y] # NoEntry

Announced(q, y, x) == \E m \in LSMessages : m.orig = y /\ InFlight(q, y, x, m)

PresenceInv ==
  /\ net \in Seq(FreshPackets) /\ (~calm => age >= 1)
  /\ \A x, y \in Nodes :
       /\ x \in neighborTable[y] => Present(x, y) \/ (Live(x, y) /\ Announced(net, y, x))
       /\ y \in neighborTable[x] => Present(x, y) \/ (due = {} /\ ~calm /\ Live(x, y))

(* A node takes a packet, sends others, and if it finds a new neighbour it *)
(* announces itself to it.                                                 *)
LEMMA PresenceArrival ==
  ASSUME LiveTypeOK, PresenceInv, ~calm, NEW n \in Nodes, NEW i \in 1 .. Len(net),
         NEW extra \in Seq(FreshPackets), Arrives(i, n), net[i].from \in up[n],
         net' = InFlightWithout(i, n) \o extra,
         UNCHANGED <<up, due, calm, age>>,
         \A x, y \in Nodes : Present(x, y) => Present(x, y)',
         \A x \in Nodes : \A y \in neighborTable'[x] :
           y \in neighborTable[x] \/ (x = n /\ y = net[i].from /\ Announced(extra, n, y)),
         net[i].msg \in LSMessages => lsTable'[n][net[i].msg.orig] # NoEntry
  PROVE  PresenceInv'
<1> DEFINE m == net[i].from
           w == InFlightWithout(i, n)
<1>1. /\ net \in Seq(FreshPackets) /\ net[i] \in FreshPackets /\ n \in net[i].to /\ due = {}
      /\ up \in [Nodes -> SUBSET Nodes] /\ m \in Nodes
  BY DEF LiveTypeOK, SimTypeOK, PresenceInv, Arrives, Packets
<1>2. /\ w \in Seq(FreshPackets)
      /\ \A f, x, msg : InFlight(net, f, x, msg) =>
           InFlight(w, f, x, msg) \/ (f = m /\ x = n /\ msg = net[i].msg)
  BY <1>1, HelloTaken
<1>3. Live(n, m)
  BY <1>1 DEF FreshPackets, Live
<1> HIDE DEF w, m
<1>4. FreshPackets' = FreshPackets /\ \A a, b : Live(a, b)' <=> Live(a, b)
  BY DEF FreshPackets, Live
<1>5. net' \in Seq(FreshPackets)
  BY <1>2 DEF w
<1>6. \A f, x, msg : InFlight(w, f, x, msg) \/ InFlight(extra, f, x, msg) => InFlight(net', f, x, msg)
  BY <1>2, ConcatInFlight DEF w
<1>7. ASSUME NEW x \in Nodes, NEW y \in Nodes, x \in neighborTable'[y]
      PROVE  Present(x, y)' \/ (Live(x, y) /\ Announced(net', y, x))
  <2>1. CASE x \in neighborTable[y]
    <3>1. CASE Present(x, y)
      BY <3>1
    <3>2. CASE Live(x, y) /\ Announced(net, y, x)
      <4>1. PICK g \in LSMessages : g.orig = y /\ InFlight(net, y, x, g)
        BY <3>2 DEF Announced
      <4>2. CASE InFlight(w, y, x, g)
        BY <1>6, <3>2, <4>1, <4>2 DEF Announced
      <4>3. CASE y = m /\ x = n /\ g = net[i].msg
        BY <4>1, <4>3 DEF Present
      <4> QED BY <1>2, <4>1, <4>2, <4>3
    <3> QED BY <2>1, <3>1, <3>2 DEF PresenceInv
  <2>2. CASE y = n /\ x = m /\ Announced(extra, n, x)
    BY <1>3, <1>6, <2>2 DEF Announced, Live
  <2> QED BY <1>7, <2>1, <2>2 DEF m
<1>8. ASSUME NEW x \in Nodes, NEW y \in Nodes, y \in neighborTable'[x]
      PROVE  Present(x, y)' \/ Live(x, y)
  BY <1>3, <1>8 DEF PresenceInv, m
<1> QED BY <1>1, <1>4, <1>5, <1>7, <1>8 DEF PresenceInv

LEMMA PresenceReceive ==
  ASSUME IInv, HopInv, HelloInv, PresenceInv, NEW n \in Nodes, NEW i \in 1 .. Len(net),
         ProcessHelloReq(n, i) \/ ProcessLSTableMessage(n, i),
         \A x, y \in Nodes : Present(x, y) => Present(x, y)'
  PROVE  PresenceInv'
<1> DEFINE m == net[i].msg
           w == InFlightWithout(i, n)
           none == <<>>
<1>1. /\ LiveTypeOK /\ m \in Messages /\ net[i].from \in Nodes /\ w \in Seq(FreshPackets)
      /\ m.type = "LS_TABLE_MSG" <=> m \in LSMessages
  <2>1. m.type = "LS_TABLE_MSG" => m \in LSMessages
    BY ReceivedMessage DEF IInv
  <2>2. m \in LSMessages => m.type = "LS_TABLE_MSG"
    BY DEF LSMessages
  <2> QED BY <2>1, <2>2, ReceivedMessage, HelloTaken DEF IInv, PresenceInv, Packets
<1>2. m.type = "HELLO_REQ" => m.orig = net[i].from
  BY DEF HelloInv, HonestPackets
<1>3. ~calm
  BY DEF HopInv, Drained
<1> HIDE DEF m, w
<1>4. none \in Seq(FreshPackets) /\ w \o none = w
  BY <1>1
<1> HIDE DEF none
<1>5. CASE RefreshNeighbor(n, i)
  <2>1. /\ Arrives(i, n) /\ net[i].from \in up[n] /\ m.type = "HELLO_REQ"
        /\ net' = w \o none
        /\ UNCHANGED <<up, due, calm, age, neighborTable>>
    BY <1>4, <1>5 DEF RefreshNeighbor, Receives, m, w, clock
  <2> QED BY <1>1, <1>3, <1>4, <2>1, PresenceArrival DEF m, w
<1>6. CASE DiscoverNeighbor(n, i)
  <2> DEFINE lsa == LSTableMessage(n, seq[n], neighborTable'[n])
             p == [from |-> n, to |-> up[n], msg |-> lsa]
             extra == BroadcastPacket(n, lsa)
  <2>1. /\ Arrives(i, n) /\ net[i].from \in up[n] /\ m.type = "HELLO_REQ"
        /\ neighborTable' = [neighborTable EXCEPT ![n] = @ \cup {m.orig}]
        /\ net' = w \o extra
        /\ UNCHANGED <<up, due, calm, age>>
    BY <1>6 DEF DiscoverNeighbor, Receives, m, w, clock
  <2>2. /\ \A a \in Nodes \ {n} : neighborTable'[a] = neighborTable[a]
        /\ neighborTable'[n] = neighborTable[n] \cup {net[i].from}
        /\ neighborTable'[n] \in SUBSET Nodes
    BY <1>1, <1>2, <2>1 DEF LiveTypeOK
  <2>3. lsa \in LSMessages /\ lsa \in Messages /\ lsa.orig = n /\ lsa.type # "HELLO_REQ"
    BY <1>1, <2>2 DEF LiveTypeOK, LSTableMessage, Messages, LSMessages
  <2> HIDE DEF lsa
  <2>4. extra \in Seq(FreshPackets)
    BY <1>1, <2>3, BroadcastFresh
  <2>5. Announced(extra, n, net[i].from)
    <3>1. extra = <<p>>
      BY <2>1 DEF BroadcastPacket
    <3>2. InFlight(<<p>>, n, net[i].from, lsa)
      BY <2>1 DEF InFlight
    <3> QED BY <2>3, <3>1, <3>2 DEF Announced
  <2> HIDE DEF extra
  <2>6. \A x \in Nodes : \A y \in neighborTable'[x] :
          y \in neighborTable[x] \/ (x = n /\ y = net[i].from /\ Announced(extra, n, y))
    <3> SUFFICES ASSUME NEW x \in Nodes, NEW y \in neighborTable'[x], y \notin neighborTable[x]
                 PROVE  x = n /\ y = net[i].from /\ Announced(extra, n, y)
      OBVIOUS
    <3>1. x = n /\ y = net[i].from
      BY <2>2
    <3> QED BY <2>5, <3>1
  <2>7. net[i].msg \notin LSMessages
    BY <1>1, <2>1 DEF m
  <2> QED BY <1>1, <1>3, <2>1, <2>4, <2>6, <2>7, PresenceArrival DEF w
<1>7. CASE ProcessLSTableMessage(n, i)
  <2> DEFINE extra == IF IsNewer(lsTable[n], m) THEN BroadcastPacket(n, m) ELSE none
  <2>1. /\ Arrives(i, n) /\ net[i].from \in up[n] /\ m.type = "LS_TABLE_MSG"
        /\ net' = w \o extra
        /\ UNCHANGED <<up, due, calm, age, neighborTable>>
    BY <1>4, <1>7 DEF ProcessLSTableMessage, Receives, m, w, clock
  <2>2. extra \in Seq(FreshPackets)
    BY <1>1, <1>4, <2>1, BroadcastFresh
  <2>3. lsTable'[n][m.orig] # NoEntry
    <3>1. m.orig \in Nodes /\ m.seq \in SeqNums /\ lsTable \in [Nodes -> [Nodes -> Entries]]
      BY <1>1, <2>1 DEF LSMessages, LiveTypeOK, Entries
    <3>2. CASE ~IsNewer(lsTable[n], m)
      BY <1>7, <3>1, <3>2 DEF ProcessLSTableMessage, m, IsNewer
    <3>3. CASE IsNewer(lsTable[n], m)
      <4> DEFINE entry == [neighborCosts |-> CostsOf(m.nbrs), sequenceNumber |-> m.seq]
      <4>1. lsTable' = [lsTable EXCEPT ![n][m.orig] = entry]
        BY <1>7, <3>3 DEF ProcessLSTableMessage, m
      <4>2. entry.sequenceNumber # NoEntry.sequenceNumber
        BY <3>1, SeqLimitAssumption DEF SeqNums, NoEntry, NoNode
      <4> HIDE DEF entry
      <4>3. lsTable'[n][m.orig] = entry
        BY <3>1, <4>1
      <4> QED BY <4>2, <4>3
    <3> QED BY <3>2, <3>3
  <2> HIDE DEF extra
  <2> QED BY <1>1, <1>3, <2>1, <2>2, <2>3, PresenceArrival DEF m, w
<1> QED BY <1>5, <1>6, <1>7 DEF ProcessHelloReq

(* At an instant every neighbour's entry is there, and AuditHellos erases  *)
(* none.                                                                   *)
LEMMA PresenceAudit ==
  ASSUME IInv, HopInv, HelloInv, PresenceInv, NEW n \in Nodes, AuditHellos(n),
         \A x, y \in Nodes : Present(x, y) => Present(x, y)'
  PROVE  PresenceInv'
<1> DEFINE msg == [type |-> "HELLO_REQ", orig |-> n, seq |-> seq[n]]
           s1 == GetNextSequenceNumber(seq[n])
           lsa == LSTableMessage(n, s1, neighborTable'[n])
<1>1. /\ due # {} /\ UNCHANGED <<up, calm, age>>
      /\ neighborTable' = [neighborTable EXCEPT ![n] = @ \ Expired(n)]
  BY DEF AuditHellos, FirstDue
<1>2. LiveTypeOK /\ seq[n] \in SeqNums /\ s1 \in SeqNums /\ neighborTable'[n] \in SUBSET Nodes
  BY <1>1, NextSequenceNumber DEF IInv, LiveTypeOK
<1>3. msg \in Messages /\ msg.orig = n /\ lsa \in Messages /\ lsa.type # "HELLO_REQ"
  BY <1>2 DEF Messages, HelloMessages, LSTableMessage, LSMessages
<1>4. \/ net' = (net \o BroadcastPacket(n, msg)) \o BroadcastPacket(n, lsa)
      \/ net' = net \o BroadcastPacket(n, msg)
  BY DEF AuditHellos, SendHello
<1> HIDE DEF msg, lsa
<1>5. /\ BroadcastPacket(n, msg) \in Seq(FreshPackets) /\ BroadcastPacket(n, lsa) \in Seq(FreshPackets)
      /\ net \in Seq(FreshPackets)
  BY <1>2, <1>3, BroadcastFresh DEF PresenceInv
<1>6. /\ net' \in Seq(FreshPackets)
      /\ \A f, x, g : InFlight(net, f, x, g) => InFlight(net', f, x, g)
  <2>1. net \o BroadcastPacket(n, msg) \in Seq(FreshPackets)
    BY <1>5
  <2>2. \A f, x, g : InFlight(net, f, x, g) => InFlight(net \o BroadcastPacket(n, msg), f, x, g)
    BY <1>5, ConcatInFlight
  <2>3. CASE net' = net \o BroadcastPacket(n, msg)
    BY <2>1, <2>2, <2>3
  <2>4. CASE net' = (net \o BroadcastPacket(n, msg)) \o BroadcastPacket(n, lsa)
    <3>1. \A f, x, g : InFlight(net \o BroadcastPacket(n, msg), f, x, g) => InFlight(net', f, x, g)
      BY <1>5, <2>1, <2>4, ConcatInFlight
    <3> QED BY <1>5, <2>1, <2>2, <2>4, <3>1
  <2> QED BY <1>4, <2>3, <2>4
<1>7. FreshPackets' = FreshPackets /\ \A a, b : Live(a, b)' <=> Live(a, b)
  BY <1>1 DEF FreshPackets, Live
<1>8. \A x \in Nodes : neighborTable'[x] \subseteq neighborTable[x]
  BY <1>1, <1>2 DEF LiveTypeOK
<1>9. \A x, y : Announced(net, y, x) => Announced(net', y, x)
  BY <1>6 DEF Announced
<1>10. \A x, y \in Nodes : y \in neighborTable[x] => Present(x, y)
  BY <1>1 DEF PresenceInv
<1>11. \A x, y \in Nodes :
         x \in neighborTable[y] => Present(x, y) \/ (Live(x, y) /\ Announced(net, y, x))
  BY DEF PresenceInv
<1> QED BY <1>1, <1>6, <1>7, <1>8, <1>9, <1>10, <1>11 DEF PresenceInv

(* Commands come when the network is idle, and the network drains only     *)
(* when all hellos and announcements have arrived.                         *)
LEMMA PresenceSim ==
  ASSUME Orderly, IInv, HopInv, HelloInv, PresenceInv, SimNext, UNCHANGED lsVars
  PROVE  PresenceInv'
<1>1. /\ UNCHANGED <<neighborTable, lsTable>> /\ net \in Seq(FreshPackets) /\ LiveTypeOK
      /\ \A x, y : Present(x, y)' <=> Present(x, y)
  BY DEF lsVars, Present, PresenceInv, IInv
<1>2. ASSUME net = <<>>, due = {}, NEW x \in Nodes, NEW y \in Nodes,
             x \in neighborTable[y] \/ y \in neighborTable[x]
      PROVE  Present(x, y)
  <2>1. \A a, b : ~Announced(net, a, b) /\ ~HelloPending(a, b)
    BY <1>2 DEF Announced, HelloPending, InFlight
  <2>2. CASE x \in neighborTable[y]
    BY <2>1, <2>2 DEF PresenceInv
  <2>3. CASE y \in neighborTable[x] /\ ~Present(x, y)
    <3>1. Live(x, y) /\ age >= 1
      BY <2>3 DEF PresenceInv
    <3>2. x \in neighborTable[y]
      BY <1>2, <2>1, <3>1 DEF HelloInv
    <3> QED BY <2>2, <3>2
  <2> QED BY <1>2, <2>2, <2>3
<1>3. ASSUME NEW i \in 1 .. Len(net), NEW a \in Nodes, DropPacket(i, a)
      PROVE  PresenceInv'
  <2>1. net' = InFlightWithout(i, a) /\ UNCHANGED <<up, due, calm, age>> /\ net[i].from \notin up[a]
    BY <1>3 DEF DropPacket, clock
  <2>2. /\ net' \in Seq(FreshPackets)
        /\ \A f, x, g : Live(f, x) /\ InFlight(net, f, x, g) => InFlight(net', f, x, g)
    BY <1>1, <2>1, HelloTaken DEF Live
  <2>3. FreshPackets' = FreshPackets /\ \A f, x : Live(f, x)' <=> Live(f, x)
    BY <2>1 DEF FreshPackets, Live
  <2>4. \A x, y : Live(x, y) /\ Announced(net, y, x) => Announced(net', y, x)
    BY <2>2 DEF Announced, Live
  <2> QED BY <1>1, <2>1, <2>2, <2>3, <2>4 DEF PresenceInv
<1>4. ASSUME NEW newUp, SetInterfaces(newUp)
      PROVE  PresenceInv'
  <2>1. net = <<>> /\ due = {} /\ calm /\ UNCHANGED <<net, calm>>
    BY <1>4 DEF SetInterfaces, Idle
  <2>2. net' \in Seq(FreshPackets')
    BY <2>1
  <2> QED BY <1>1, <1>2, <2>1, <2>2 DEF PresenceInv
<1>5. CASE Settle
  <2>1. net = <<>> /\ due = {} /\ UNCHANGED <<net, age>> /\ calm'
    BY <1>5 DEF Settle
  <2>2. net' \in Seq(FreshPackets')
    BY <2>1
  <2> QED BY <1>1, <1>2, <2>1, <2>2 DEF PresenceInv
<1>6. CASE HelloInstant
  <2>1. /\ net = <<>> /\ due = {} /\ UNCHANGED net
        /\ age' = IF age < Drain THEN age + 1 ELSE age
    BY <1>6 DEF HelloInstant, HopInv, Drained
  <2>2. net' \in Seq(FreshPackets')
    BY <2>1
  <2>3. age' >= 1
    BY <1>1, <2>1 DEF LiveTypeOK, SimTypeOK, Drain
  <2> QED BY <1>1, <1>2, <2>1, <2>2, <2>3 DEF PresenceInv
<1> QED BY <1>3, <1>4, <1>5, <1>6 DEF SimNext, LinkOperation, AllInterfacesOperation

LEMMA PresenceStep ==
  ASSUME Orderly, Commands \subseteq {"PING"}, IInv, HopInv, HelloInv, PresenceInv, [Step]_liveVars
  PROVE  PresenceInv'
<1>0. \A x, y \in Nodes : Present(x, y) => Present(x, y)'
  BY EntriesKept DEF NotOlder, Present
<1>1. CASE Receive
  BY <1>0, <1>1, PresenceReceive DEF Receive
<1>2. ASSUME NEW n \in Nodes, AuditHellos(n) PROVE PresenceInv'
  BY <1>0, <1>2, PresenceAudit
<1>3. ASSUME UNCHANGED <<up, net, due, calm, age, neighborTable, lsTable>> PROVE PresenceInv'
  BY <1>3 DEF PresenceInv, FreshPackets, Live, Present
<1>4. ASSUME NEW n \in Nodes, ProcessCommand(n) PROVE PresenceInv'
  BY <1>3, <1>4 DEF ProcessCommand, clock
<1>5. CASE SimNext /\ UNCHANGED lsVars
  BY <1>5, PresenceSim
<1>6. CASE UNCHANGED liveVars
  BY <1>3, <1>6 DEF liveVars, simVars, lsVars
<1> QED BY <1>1, <1>2, <1>4, <1>5, <1>6 DEF Step

(* In every network: when link commands only come to a settled network,    *)
(* and nobody issues HELLO and LSTABLEMSG commands, every neighbour that   *)
(* AuditHellos drops has an entry in m_lsTable, so that removeLSTableLink  *)
(* never works on the entry at end().                                      *)
THEOREM Survival ==
  ASSUME Orderly, Commands \subseteq {"PING"}
  PROVE  Spec => []AuditsSurvive
<1> DEFINE Inv == IInv /\ HopInv /\ HelloInv /\ PresenceInv
<1>1. Init => Inv /\ AuditsSurvive
  <2>1. Init => PresenceInv
    BY DEF Init, SimInit, PresenceInv
  <2> QED BY <2>1, InitIInv, HopInvInit, HelloInvInit DEF Init, AuditsSurvive
<1>2. Inv /\ [Step]_liveVars => Inv'
  BY NextIInv, HopStep, HelloStep, PresenceStep
<1>3. ASSUME PresenceInv, IInv, NEW n \in Nodes, AuditCrash(n) PROVE FALSE
  BY <1>3 DEF AuditCrash, FirstDue, Expired, PresenceInv, Present, IInv, LiveTypeOK
<1>4. Inv /\ AuditsSurvive /\ [Next]_vars => AuditsSurvive'
  BY <1>3 DEF Next, Survives, vars, AuditsSurvive
<1> QED BY <1>1, <1>2, <1>4, SpecSteps, PTL DEF Spec

(***************************************************************************)
(* The routing table is what Dijkstra() makes of the tables as they are    *)
(* now: the inductive invariant of InformedRoutes.                         *)
(***************************************************************************)
NotStarted(n) ==
  /\ lsTable[n] = [o \in Nodes |-> NoEntry]
  /\ routingTable[n] = [d \in Nodes |-> NoRoute]

Recomputed(n) ==
  \E stray \in BOOLEAN :
    routingTable[n] = Dijkstra(n, lsTable[n], neighborTable[n], stray)

InStep ==
  /\ routingTable = [n \in Nodes |-> routingTable[n]]
  /\ \A n \in Nodes : NotStarted(n) \/ Recomputed(n)

LEMMA InStepKept ==
  ASSUME InStep, UNCHANGED routingTable,
         \A a \in Nodes : lsTable'[a] = lsTable[a] /\ neighborTable'[a] = neighborTable[a]
  PROVE  InStep'
<1>1. ASSUME NEW a \in Nodes PROVE (NotStarted(a) \/ Recomputed(a))'
  <2>1. CASE NotStarted(a)
    BY <2>1 DEF NotStarted
  <2>2. CASE Recomputed(a)
    BY <2>2 DEF Recomputed
  <2> QED BY <2>1, <2>2 DEF InStep
<1> QED BY <1>1 DEF InStep

LEMMA InStepUpdated ==
  ASSUME InStep, NEW n \in Nodes, UpdateRoutes(n),
         \A a \in Nodes \ {n} :
           lsTable'[a] = lsTable[a] /\ neighborTable'[a] = neighborTable[a]
  PROVE  InStep'
<1>1. PICK stray \in BOOLEAN :
        routingTable' = [routingTable EXCEPT
          ![n] = Dijkstra(n, lsTable'[n], neighborTable'[n], stray)]
  BY DEF UpdateRoutes
<1> DEFINE rt == Dijkstra(n, lsTable'[n], neighborTable'[n], stray)
<1> HIDE DEF rt
<1>2. routingTable' = [routingTable EXCEPT ![n] = rt]
  BY <1>1 DEF rt
<1>3. /\ routingTable' = [a \in Nodes |-> routingTable'[a]]
      /\ routingTable'[n] = rt
      /\ \A a \in Nodes \ {n} : routingTable'[a] = routingTable[a]
  BY <1>2 DEF InStep
<1>4. Recomputed(n)'
  BY <1>3 DEF Recomputed, rt
<1>5. ASSUME NEW a \in Nodes \ {n} PROVE (NotStarted(a) \/ Recomputed(a))'
  <2>1. CASE NotStarted(a)
    BY <1>3, <2>1 DEF NotStarted
  <2>2. CASE Recomputed(a)
    BY <1>3, <2>2 DEF Recomputed
  <2> QED BY <2>1, <2>2 DEF InStep
<1> QED BY <1>3, <1>4, <1>5 DEF InStep

LEMMA InStepStep == IInv /\ InStep /\ [Step]_liveVars => InStep'
<1> SUFFICES ASSUME IInv, InStep, [Step]_liveVars PROVE InStep'
  OBVIOUS
<1>0. /\ lsTable \in [Nodes -> [Nodes -> Entries]]
      /\ neighborTable \in [Nodes -> SUBSET Nodes]
  BY DEF IInv, LiveTypeOK, Entries
<1>1. ASSUME NEW n \in Nodes, NEW i \in 1 .. Len(net), RefreshNeighbor(n, i) PROVE InStep'
  BY <1>1, InStepKept DEF RefreshNeighbor
<1>2. ASSUME NEW n \in Nodes, NEW i \in 1 .. Len(net), DiscoverNeighbor(n, i) PROVE InStep'
  <2> DEFINE own == AddOwnLink(lsTable[n][n], net[i].msg)
             more == neighborTable[n] \cup {net[i].msg.orig}
  <2>1. /\ lsTable' = [lsTable EXCEPT ![n][n] = own]
        /\ neighborTable' = [neighborTable EXCEPT ![n] = more]
        /\ UpdateRoutes(n)
    BY <1>2 DEF DiscoverNeighbor
  <2> HIDE DEF own, more
  <2>2. \A a \in Nodes \ {n} : lsTable'[a] = lsTable[a] /\ neighborTable'[a] = neighborTable[a]
    BY <1>0, <2>1
  <2> QED BY <2>1, <2>2, InStepUpdated
<1>3. ASSUME NEW n \in Nodes, NEW i \in 1 .. Len(net), ProcessLSTableMessage(n, i) PROVE InStep'
  <2> DEFINE m == net[i].msg
             entry == [neighborCosts |-> CostsOf(m.nbrs), sequenceNumber |-> m.seq]
  <2> HIDE DEF entry
  <2>1. CASE ~IsNewer(lsTable[n], m)
    BY <1>3, <2>1, InStepKept DEF ProcessLSTableMessage
  <2>2. CASE IsNewer(lsTable[n], m)
    <3>1. /\ lsTable' = [lsTable EXCEPT ![n][m.orig] = entry]
          /\ neighborTable' = neighborTable
          /\ UpdateRoutes(n)
      BY <1>3, <2>2 DEF ProcessLSTableMessage, entry
    <3>2. \A a \in Nodes \ {n} : lsTable'[a] = lsTable[a] /\ neighborTable'[a] = neighborTable[a]
      BY <1>0, <3>1
    <3> QED BY <3>1, <3>2, InStepUpdated
  <2> QED BY <2>1, <2>2
<1>4. ASSUME NEW n \in Nodes, AuditHellos(n) PROVE InStep'
  <2>1. neighborTable' = [neighborTable EXCEPT ![n] = @ \ Expired(n)]
    BY <1>4 DEF AuditHellos
  <2>2. CASE Expired(n) = {}
    <3>1. UNCHANGED <<lsTable, routingTable>>
      BY <1>4, <2>2 DEF AuditHellos
    <3>2. \A a \in Nodes : neighborTable'[a] = neighborTable[a]
      BY <1>0, <2>1, <2>2
    <3> QED BY <3>1, <3>2, InStepKept
  <2>3. CASE Expired(n) # {}
    <3>1. lsTable' = [lsTable EXCEPT ![n] = UnlinkExpired(n)] /\ UpdateRoutes(n)
      BY <1>4, <2>3 DEF AuditHellos
    <3>2. \A a \in Nodes \ {n} : lsTable'[a] = lsTable[a] /\ neighborTable'[a] = neighborTable[a]
      BY <1>0, <2>1, <3>1
    <3> QED BY <3>1, <3>2, InStepUpdated
  <2> QED BY <2>2, <2>3
<1>5. ASSUME NEW n \in Nodes, ProcessCommand(n) PROVE InStep'
  BY <1>5, InStepKept DEF ProcessCommand
<1>6. CASE SimNext /\ UNCHANGED lsVars
  BY <1>6, InStepKept DEF lsVars
<1>7. CASE UNCHANGED liveVars
  BY <1>7, InStepKept DEF liveVars, lsVars
<1> QED BY <1>1, <1>2, <1>3, <1>4, <1>5, <1>6, <1>7 DEF Step, Receive, ProcessHelloReq

(* A node that knows its part of the network has the shortest paths there. *)
LEMMA InformedShortest ==
  ASSUME IInv, InStep, NEW n \in Nodes, Informed(n)
  PROVE  ShortestRoutes(n)
<1> DEFINE t == lsTable[n]
           G == Graph(t)
           L == LiveLinks
           R == {x \in Nodes : Distance(L, n, x) # INF}
<1>1. L \in GraphsOn(Nodes) /\ IsFiniteSet(Nodes) /\ Cardinality(Nodes) < INF
  BY NodesAssumption DEF LiveLinks, GraphsOn
<1>2. t \in Tables
  BY DEF IInv, LiveTypeOK, Tables
<1>3. G \in GraphsOn(Nodes) /\ \A x \in Nodes : x \notin Known(t) => G[x] = {}
  BY <1>2, UnknownHaveNoEdges
<1>4. /\ \A x \in Nodes : L[x] \subseteq Nodes
      /\ \A h \in L[n] : h \in Nodes /\ Live(n, h)
  BY DEF LiveLinks
<1>5. \A x \in R : L[x] = G[x] /\ (x = n \/ x \in Known(t))
  BY DEF Informed, Graph, Known
<1> HIDE DEF t, L, G
<1>6. n \in R
  <2>1. Distance(L, n, n) = 0
    BY <1>1, DistanceRange
  <2> QED BY <2>1, Infinity
<1>7. \A x \in R : L[x] \subseteq R
  <2> SUFFICES ASSUME NEW x \in R, NEW y \in L[x] PROVE y \in R
    OBVIOUS
  <2> QED BY <1>1, ReachIsClosed
<1>8. ASSUME NEW x \in R, NEW d PROVE Distance(L, x, d) = Distance(G, x, d)
  <2>1. R \in SUBSET Nodes
    OBVIOUS
  <2>2. \A y \in R : L[y] = G[y] /\ L[y] \subseteq R
    BY <1>5, <1>7
  <2> HIDE DEF R
  <2> QED BY <1>1, <1>3, <2>1, <2>2, SameReach
<1> SUFFICES ASSUME NEW d \in Nodes \ {n}
             PROVE  LET r == routingTable[n][d]
                    IN  /\ r.cost = Distance(L, n, d)
                        /\ r # NoRoute =>
                             /\ Live(n, r.nextHop)
                             /\ Distance(L, r.nextHop, d) = r.cost - 1
  BY DEF ShortestRoutes, L
<1> DEFINE r == routingTable[n][d]
<1>9. CASE t[n] = NoEntry
  <2>1. L[n] = {}
    BY <1>3, <1>5, <1>6, <1>9 DEF Known
  <2>2. Distance(L, n, d) = INF
    BY <1>1, <2>1, NoEdges
  <2>3. CASE NotStarted(n)
    BY <2>2, <2>3 DEF NotStarted, NoRoute
  <2>4. CASE Recomputed(n)
    <3>1. neighborTable[n] = {}
      BY <1>9 DEF IInv, OwnEntryPresent, t
    <3>2. PICK stray \in BOOLEAN : routingTable[n] = Dijkstra(n, t, {}, stray)
      BY <2>4, <3>1 DEF Recomputed, t
    <3>3. GetNeighbors(t, n) = {}
      BY <1>5, <1>6, <2>1 DEF G, Graph
    <3>4. r \in UsableRoutes({})
      BY <3>2, <3>3, DijkstraUsable
    <3>5. r = NoRoute
      BY <3>4 DEF UsableRoutes
    <3> QED BY <2>2, <3>5 DEF NoRoute
  <2> QED BY <2>3, <2>4 DEF InStep
<1>10. CASE t[n] # NoEntry
  <2>1. n \in Known(t)
    BY <1>10 DEF Known
  <2>2. Recomputed(n)
    BY <1>10 DEF InStep, NotStarted, t
  <2>3. PICK stray \in BOOLEAN : routingTable[n] = Dijkstra(n, t, neighborTable[n], stray)
    BY <2>2 DEF Recomputed, t
  <2>4. Complete(n, t)
    BY <1>5, <1>6, <1>8, <2>1 DEF Complete, G
  <2>5. neighborTable[n] \in SUBSET Nodes
    BY DEF IInv, LiveTypeOK
  <2>6. /\ r # NoRoute => r.nextHop \in G[n] /\ Distance(G, r.nextHop, d) = r.cost - 1
        /\ r.cost = Distance(G, n, d)
    BY <1>2, <2>1, <2>3, <2>4, <2>5, DijkstraIsCorrect DEF G
  <2>7. r.cost = Distance(L, n, d)
    BY <1>6, <1>8, <2>6
  <2>8. ASSUME r # NoRoute PROVE Live(n, r.nextHop) /\ Distance(L, r.nextHop, d) = r.cost - 1
    <3>1. r.nextHop \in L[n]
      BY <1>5, <1>6, <2>6, <2>8
    <3>2. r.nextHop \in R
      BY <1>6, <1>7, <3>1
    <3> QED BY <1>4, <1>8, <2>6, <2>8, <3>1, <3>2
  <2> QED BY <2>7, <2>8
<1> QED BY <1>9, <1>10

LEMMA InStepHolds == Spec => []InStep
<1>1. Init => InStep
  BY DEF Init, InStep, NotStarted
<1> QED BY <1>1, InStepStep, Invariance, SpecSteps, PTL

(* At any moment, in any network and whatever commands are issued: a node  *)
(* whose LS table is right about the nodes it can reach has the shortest   *)
(* paths to them and no other routes, whatever it still holds about nodes  *)
(* that it cannot reach and whatever Dijkstra() reads past the end of      *)
(* leastCostFound.                                                         *)
THEOREM Informing == Spec => []InformedRoutes
<1>1. IInv /\ InStep => InformedRoutes
  BY InformedShortest DEF InformedRoutes
<1> QED BY <1>1, InStepHolds, Invariance, PTL

Settled == Idle /\ age = Drain

(***************************************************************************)
(* Flooding.  FloodInv is the inductive invariant of the theorem           *)
(* FloodingConverges: what a node knows is known to its neighbours or on   *)
(* its way there, and its own entry is right or will be put right.         *)
(***************************************************************************)
(* Links fail at any time; one that comes up joins nodes that can reach    *)
(* each other already.  No sequence number is about to wrap around.        *)
JoinsNoParts ==
  \A x, y \in Nodes :
    Live(x, y)' /\ ~Live(x, y) => Settled /\ Distance(LiveLinks, x, y) # INF
Unwrapped == \A n \in Nodes : seq[n] + 2 < SeqLimit

(* Numbers are used once.                                                  *)
UsedOnce ==
  /\ \A m \in sent : m.seq < seq[m.orig]
  /\ \A m, k \in sent : m.orig = k.orig /\ m.seq = k.seq => m = k

Newest(m) == m \in sent /\ \A k \in sent : k.orig = m.orig => k = m \/ k.seq < m.seq

(* The number of x's entry for o, and the messages that it is at least as  *)
(* new as.                                                                 *)
Number(x, o) == lsTable[x][o].sequenceNumber
Knows(x, m) == Number(x, m.orig) >= m.seq

(* What x has of others, and its own newest message, is on its way from x  *)
(* to y or known to y.                                                     *)
Passed(x, y) ==
  \A m \in sent :
    /\ m.orig # y
    /\ IF m.orig = x THEN Newest(m) ELSE Number(x, m.orig) = m.seq
    => Knows(y, m) \/ InFlight(net, x, y, m)

(* An echo of an own message may replace the own entry by an older one, as *)
(* that entry has a foreign number at first.  But the newest message comes *)
(* back as well: it is still to arrive at a neighbour that will believe    *)
(* it, or on its way from there.                                           *)
Returning(n, m) ==
  \E x \in LiveLinks[n] :
    (InFlight(net, n, x, m) /\ ~Knows(x, m)) \/ InFlight(net, x, n, m)

OwnComplete(n) == GetNeighbors(lsTable[n], n) = neighborTable[n]

Restored(n, m) ==
  /\ m.orig = n /\ Newest(m) /\ m.nbrs = neighborTable[n] /\ lsTable[n][n] # NoEntry
  /\ OwnComplete(n) \/ Number(n, n) < m.seq
  /\ \/ Returning(n, m)
     \/ OwnComplete(n) /\ (Number(n, n) >= m.seq \/ LiveLinks[n] = {})

OwnRestored(n) ==
  \/ neighborTable[n] = {} /\ lsTable[n][n] = NoEntry /\ \A m \in sent : m.orig # n
  \/ \E m \in sent : Restored(n, m)

(* x has not taken itself out of the entry of y, and y is not about to     *)
(* expire.                                                                 *)
Exact(x, y) ==
  x # y /\ lsTable[x][y] # NoEntry =>
    \E m \in sent : m.orig = y /\ m.seq = Number(x, y) /\ GetNeighbors(lsTable[x], y) = m.nbrs
Alive(x, y) ==
  \/ y \in heard[x] \/ y \notin neighborTable[x]
  \/ x \notin due /\ (y \in due \/ HelloPending(y, x))

FloodInv ==
  /\ UsedOnce /\ net \in Seq(FreshPackets) /\ (due # {} => age >= 1)
  /\ \A n \in Nodes : OwnRestored(n)
  /\ \A x, y \in Nodes : Live(x, y) => Passed(x, y) /\ Exact(x, y) /\ Alive(x, y)

(* Nobody has said anything yet.                                           *)
LEMMA FloodInit == Init => FloodInv
BY DEF Init, SimInit, FloodInv, UsedOnce, OwnRestored, Passed, Exact, Alive

(* Every number in a table was used by the node it belongs to.             *)
LEMMA TableNumbers ==
  ASSUME IInv, UsedOnce, NEW x \in Nodes, NEW o \in Nodes
  PROVE  /\ Number(x, o) \in Int /\ seq[o] \in Nat
         /\ lsTable[x][o] = NoEntry => Number(x, o) = -1
         /\ lsTable[x][o] # NoEntry => Number(x, o) \in Nat
         /\ x # o => Number(x, o) < seq[o]
<1>1. lsTable[x][o] \in LSTableEntry \cup {NoEntry} /\ seq[o] \in SeqNums
  BY DEF IInv, LiveTypeOK
<1>2. seq[o] \in Nat
  BY <1>1, SeqLimitAssumption DEF SeqNums
<1>3. CASE lsTable[x][o] = NoEntry
  BY <1>2, <1>3 DEF Number, NoEntry, NoNode
<1>4. CASE lsTable[x][o] # NoEntry
  <2>1. Number(x, o) \in SeqNums
    BY <1>1, <1>4 DEF LSTableEntry, Number
  <2>2. Number(x, o) \in Nat
    BY <2>1, SeqLimitAssumption DEF SeqNums
  <2>3. x # o => \E m \in sent : m.orig = o /\ m.seq = Number(x, o)
    BY <1>4 DEF IInv, EntriesAuthentic, Number
  <2>4. x # o => Number(x, o) < seq[o]
    BY <2>3 DEF UsedOnce
  <2> QED BY <1>2, <1>4, <2>2, <2>4
<1> QED BY <1>3, <1>4

(* What was sent is well formed.                                           *)
LEMMA SentNumbers ==
  ASSUME IInv, NEW m \in sent
  PROVE  m \in LSMessages /\ m.orig \in Nodes /\ m.seq \in Nat /\ m.nbrs \in SUBSET Nodes
<1>1. m \in LSMessages
  BY DEF IInv, LiveTypeOK
<1> QED BY <1>1, SeqLimitAssumption DEF LSMessages, SeqNums

(* The next numbers, when none wraps around.                               *)
LEMMA NextNumbers ==
  ASSUME IInv, Unwrapped, NEW n \in Nodes
  PROVE  /\ seq[n] \in Nat
         /\ GetNextSequenceNumber(seq[n]) = seq[n] + 1
         /\ GetNextSequenceNumber(seq[n] + 1) = seq[n] + 2
<1>1. seq[n] \in Nat /\ SeqLimit \in Nat /\ seq[n] + 2 < SeqLimit
  BY SeqLimitAssumption DEF IInv, LiveTypeOK, SeqNums, Unwrapped
<1>2. \A k \in Nat : k < SeqLimit => k % SeqLimit = k
  BY <1>1
<1>3. (seq[n] + 1) % SeqLimit = seq[n] + 1
  BY <1>1, <1>2
<1>4. ((seq[n] + 1) + 1) % SeqLimit = seq[n] + 2
  <2>1. (seq[n] + 1) + 1 = seq[n] + 2 /\ seq[n] + 2 \in Nat
    BY <1>1
  <2> QED BY <1>1, <1>2, <2>1
<1> QED BY <1>1, <1>3, <1>4 DEF GetNextSequenceNumber

(***************************************************************************)
(* A node originates message g.                                            *)
(***************************************************************************)
Originates(n, g) ==
  /\ g \in LSMessages /\ g.orig = n /\ g.seq >= seq[n] /\ seq'[n] \in Nat /\ g.seq < seq'[n]
  /\ sent' = sent \cup {g}
  /\ \A a \in Nodes \ {n} : seq'[a] = seq[a]

(* It is the newest of its node, and changes nothing for the others.       *)
LEMMA NewestMessages ==
  ASSUME IInv, UsedOnce, NEW n \in Nodes, NEW g, Originates(n, g)
  PROVE  /\ UsedOnce' /\ Newest(g)' /\ g \notin sent /\ g.seq \in Nat
         /\ \A m \in sent : m.seq < g.seq \/ m.orig # n
         /\ \A m \in sent : m.orig # n => (Newest(m)' <=> Newest(m))
         /\ \A m \in sent : Newest(m)' => Newest(m)
<1>1. g.seq \in Nat /\ g \in LSMessages /\ g.orig = n
  BY SeqLimitAssumption DEF Originates, LSMessages, SeqNums
<1>2. \A m \in sent : m.orig \in Nodes /\ m.seq \in Nat
  BY SentNumbers
<1>3. seq[n] \in Nat /\ seq[n] <= g.seq /\ g.seq < seq'[n]
  BY TableNumbers DEF Originates
<1>4. \A m \in sent : m.orig = n => m.seq < g.seq
  BY <1>1, <1>2, <1>3 DEF UsedOnce
<1>5. g \notin sent
  BY <1>1, <1>4
<1>6. sent' = sent \cup {g}
  BY DEF Originates
<1>7. Newest(g)'
  BY <1>1, <1>4, <1>6 DEF Newest
<1>8. ASSUME NEW m \in sent PROVE /\ m.orig # n => (Newest(m)' <=> Newest(m))
                                  /\ Newest(m)' => Newest(m)
  BY <1>1, <1>6, <1>8 DEF Newest
<1>9. \A m, k \in sent' : m.orig = k.orig /\ m.seq = k.seq => m = k
  <2> SUFFICES ASSUME NEW m \in sent', NEW k \in sent', m.orig = k.orig, m.seq = k.seq
               PROVE  m = k
    OBVIOUS
  <2>1. m \in sent /\ k \in sent => m = k
    BY DEF UsedOnce
  <2>2. m = g /\ k \in sent => FALSE
    BY <1>1, <1>2, <1>4
  <2>3. k = g /\ m \in sent => FALSE
    BY <1>1, <1>2, <1>4
  <2> QED BY <1>6, <2>1, <2>2, <2>3
<1>10. ASSUME NEW m \in sent' PROVE m.seq < seq'[m.orig]
  <2>1. CASE m = g
    BY <1>1, <1>3, <2>1
  <2>2. CASE m \in sent /\ m.orig = n
    <3>1. m.seq < g.seq /\ m.seq \in Nat /\ seq'[m.orig] = seq'[n]
      BY <1>2, <1>4, <2>2
    <3>2. g.seq < seq'[n]
      BY <1>3
    <3>3. seq'[n] \in Int
      BY DEF Originates
    <3> QED BY <1>1, <3>1, <3>2, <3>3
  <2>3. CASE m \in sent /\ m.orig # n
    BY <1>2, <2>3 DEF Originates, UsedOnce
  <2> QED BY <1>6, <2>1, <2>2, <2>3
<1> QED BY <1>1, <1>4, <1>5, <1>7, <1>8, <1>9, <1>10 DEF UsedOnce

(***************************************************************************)
(* What a step does to the network: which copies stay in flight, and what  *)
(* a node sends.                                                           *)
(***************************************************************************)
KeepsBut(f0, x0, k0) ==
  \A f, x, msg : InFlight(net, f, x, msg) =>
    InFlight(net', f, x, msg) \/ (f = f0 /\ x = x0 /\ msg = k0)
KeepsMessages ==
  \A f, x \in Nodes, msg \in sent :
    Live(f, x) /\ InFlight(net, f, x, msg) => InFlight(net', f, x, msg)
Sends(n, g) == \A y \in up[n] : InFlight(net', n, y, g)

(* A node takes a packet off the network and sends others.                 *)
LEMMA Taking ==
  ASSUME IInv, NEW i \in 1 .. Len(net), NEW n \in Nodes,
         NEW extra \in Seq(FreshPackets), net' = InFlightWithout(i, n) \o extra,
         net \in Seq(FreshPackets), UNCHANGED up
  PROVE  /\ net' \in Seq(FreshPackets')
         /\ KeepsBut(net[i].from, n, net[i].msg)
         /\ \A f, x, msg : InFlight(extra, f, x, msg) => InFlight(net', f, x, msg)
<1> DEFINE w == InFlightWithout(i, n)
<1>1. /\ w \in Seq(FreshPackets)
      /\ \A f, x, msg : InFlight(net, f, x, msg) =>
           InFlight(w, f, x, msg) \/ (f = net[i].from /\ x = n /\ msg = net[i].msg)
  BY HelloTaken DEF IInv
<1> HIDE DEF w
<1>2. FreshPackets' = FreshPackets
  BY DEF FreshPackets
<1>3. net' \in Seq(FreshPackets)
  BY <1>1 DEF w
<1>4. \A f, x, msg : InFlight(net', f, x, msg) <=> InFlight(w, f, x, msg) \/ InFlight(extra, f, x, msg)
  BY <1>1, ConcatInFlight DEF w
<1> QED BY <1>1, <1>2, <1>3, <1>4 DEF KeepsBut

(* A broadcast is on its way to everyone that the node's interfaces face.  *)
LEMMA Sending ==
  ASSUME LiveTypeOK, NEW n \in Nodes, NEW msg \in Messages, NEW x \in up[n]
  PROVE  InFlight(BroadcastPacket(n, msg), n, x, msg)
<1> DEFINE b == BroadcastPacket(n, msg)
           p == [from |-> n, to |-> up[n], msg |-> msg]
<1>1. b = <<p>>
  BY DEF BroadcastPacket
<1> HIDE DEF b
<1>2. 1 \in 1 .. Len(b) /\ b[1].from = n /\ b[1].msg = msg /\ x \in b[1].to
  BY <1>1
<1> QED BY <1>2 DEF InFlight, b

(* The neighbour from which a packet arrives in an orderly network.        *)
LEMMA Sender ==
  ASSUME IInv, net \in Seq(FreshPackets), NEW n \in Nodes, NEW i \in 1 .. Len(net),
         Arrives(i, n), net[i].from \in up[n]
  PROVE  /\ net[i].from \in Nodes /\ Live(net[i].from, n) /\ Live(n, net[i].from)
         /\ net[i].from \in LiveLinks[n]
<1>1. net[i] \in FreshPackets
  OBVIOUS
<1> QED BY <1>1 DEF FreshPackets, Packets, Live, Arrives, LiveLinks

(***************************************************************************)
(* Steps that change no table.                                             *)
(***************************************************************************)
(* No message over a working link is lost by a step that changes no table. *)
LEMMA FloodKept ==
  ASSUME IInv, FloodInv, UNCHANGED <<up, sent, lsTable, neighborTable>>, KeepsMessages,
         \A n \in Nodes : seq'[n] \in Nat /\ seq'[n] >= seq[n]
  PROVE  /\ UsedOnce' /\ \A n \in Nodes : OwnRestored(n)'
         /\ \A x, y \in Nodes : Live(x, y)' => Passed(x, y)' /\ Exact(x, y)'
<1>1. \A m \in sent : m.orig \in Nodes /\ m.seq \in Nat
  BY SentNumbers
<1>2. \A x \in Nodes : seq[x] \in Nat
  BY TableNumbers DEF FloodInv
<1>3. UsedOnce'
  BY <1>1, <1>2 DEF FloodInv, UsedOnce
<1>4. /\ \A x, y : Live(x, y)' <=> Live(x, y)
      /\ LiveLinks' = LiveLinks
      /\ \A x, m : Knows(x, m)' <=> Knows(x, m)
      /\ \A m : Newest(m)' <=> Newest(m)
  BY DEF Live, LiveLinks, Knows, Number, Newest
<1>5. ASSUME NEW n \in Nodes PROVE OwnRestored(n)'
  <2>1. CASE neighborTable[n] = {} /\ lsTable[n][n] = NoEntry /\ \A m \in sent : m.orig # n
    BY <2>1 DEF OwnRestored
  <2>2. CASE \E m \in sent : Restored(n, m)
    <3>1. PICK m \in sent : Restored(n, m)
      BY <2>2
    <3>2. Returning(n, m) => Returning(n, m)'
      <4> SUFFICES ASSUME NEW x \in LiveLinks[n],
                          (InFlight(net, n, x, m) /\ ~Knows(x, m)) \/ InFlight(net, x, n, m)
                   PROVE  Returning(n, m)'
        BY DEF Returning
      <4>1. x \in Nodes /\ Live(n, x) /\ Live(x, n)
        BY DEF LiveLinks, Live
      <4>2. (InFlight(net', n, x, m) /\ ~Knows(x, m)) \/ InFlight(net', x, n, m)
        BY <4>1 DEF KeepsMessages
      <4> QED BY <1>4, <4>2 DEF Returning
    <3>3. Restored(n, m)'
      BY <1>4, <3>1, <3>2 DEF Restored, OwnComplete, Number
    <3> QED BY <3>3 DEF OwnRestored
  <2> QED BY <2>1, <2>2 DEF FloodInv, OwnRestored
<1>6. ASSUME NEW x \in Nodes, NEW y \in Nodes, Live(x, y)' PROVE Passed(x, y)' /\ Exact(x, y)'
  <2>1. Passed(x, y) /\ Exact(x, y) /\ Live(x, y)
    BY <1>4, <1>6 DEF FloodInv
  <2>2. Passed(x, y)'
    BY <1>4, <2>1 DEF Passed, KeepsMessages, Number
  <2>3. Exact(x, y)'
    BY <2>1 DEF Exact, Number
  <2> QED BY <2>2, <2>3
<1> QED BY <1>3, <1>5, <1>6

(***************************************************************************)
(* Steps that originate a message.                                         *)
(***************************************************************************)
(* A new message goes to all neighbours; nobody else has its number.       *)
LEMMA OriginatedPassed ==
  ASSUME IInv, FloodInv, NEW n \in Nodes, NEW g, Originates(n, g), UNCHANGED up,
         KeepsMessages, Sends(n, g),
         \A x, o \in Nodes : x # o => Number(x, o)' = Number(x, o),
         NEW x \in Nodes, NEW y \in Nodes, Live(x, y)'
  PROVE  Passed(x, y)'
<1>1. UsedOnce /\ Live(x, y) /\ Passed(x, y)
  BY DEF FloodInv, Live
<1>2. sent' = sent \cup {g} /\ g.orig = n /\ g.seq >= seq[n]
  BY DEF Originates
<1>3. g.seq \in Nat /\ \A m \in sent : Newest(m)' => Newest(m)
  BY <1>1, NewestMessages
<1> SUFFICES ASSUME NEW m \in sent', m.orig # y,
                    IF m.orig = x THEN Newest(m)' ELSE Number(x, m.orig)' = m.seq
             PROVE  Knows(y, m)' \/ InFlight(net', x, y, m)
  BY DEF Passed
<1>4. CASE m \in sent
  <2>1. m.orig \in Nodes
    BY <1>4, SentNumbers
  <2>2. IF m.orig = x THEN Newest(m) ELSE Number(x, m.orig) = m.seq
    BY <1>3, <1>4, <2>1
  <2>3. Knows(y, m) \/ InFlight(net, x, y, m)
    BY <1>1, <1>4, <2>2 DEF Passed
  <2>4. Knows(y, m) => Knows(y, m)'
    BY <2>1 DEF Knows
  <2>5. InFlight(net, x, y, m) => InFlight(net', x, y, m)
    BY <1>1, <1>4 DEF KeepsMessages
  <2> QED BY <2>3, <2>4, <2>5
<1>5. CASE m = g /\ x = n
  BY <1>1, <1>5 DEF Sends, Live
<1>6. CASE m = g /\ x # n
  <2>1. Number(x, n) = g.seq /\ Number(x, n) < seq[n] /\ seq[n] \in Nat
    BY <1>1, <1>2, <1>6, TableNumbers
  <2> QED BY <1>2, <1>3, <2>1
<1> QED BY <1>2, <1>4, <1>5, <1>6

(* The message comes back to its node.                                     *)
LEMMA OriginatedReturns ==
  ASSUME IInv, FloodInv, NEW n \in Nodes, NEW g, Originates(n, g), UNCHANGED up,
         Sends(n, g), \A x, o \in Nodes : x # o => Number(x, o)' = Number(x, o),
         NEW x \in LiveLinks[n]
  PROVE  Returning(n, g)'
<1>1. UsedOnce /\ x \in Nodes /\ x \in up[n] /\ LiveLinks' = LiveLinks
  BY DEF FloodInv, LiveLinks, Live
<1>2. g.orig = n /\ g.seq >= seq[n] /\ g.seq \in Nat
  BY <1>1, NewestMessages DEF Originates
<1>3. InFlight(net', n, x, g)
  BY <1>1 DEF Sends
<1>4. CASE x = n
  BY <1>1, <1>3, <1>4 DEF Returning
<1>5. CASE x # n
  <2>1. Number(x, n) < seq[n] /\ Number(x, n)' = Number(x, n) /\ Number(x, n) \in Int /\ seq[n] \in Nat
    BY <1>1, <1>5, TableNumbers
  <2>2. ~Knows(x, g)'
    BY <1>2, <2>1 DEF Knows
  <2> QED BY <1>1, <1>3, <2>2 DEF Returning
<1> QED BY <1>4, <1>5

(* Nothing changes for the other nodes.                                    *)
LEMMA OriginatedOthers ==
  ASSUME IInv, FloodInv, NEW n \in Nodes, NEW g, Originates(n, g), UNCHANGED up,
         KeepsMessages, \A x, o \in Nodes : x # o => Number(x, o)' = Number(x, o),
         NEW a \in Nodes, a # n,
         lsTable'[a][a] = lsTable[a][a], neighborTable'[a] = neighborTable[a]
  PROVE  OwnRestored(a)'
<1>1. UsedOnce /\ OwnRestored(a) /\ LiveLinks' = LiveLinks /\ sent' = sent \cup {g} /\ g.orig = n
  BY DEF FloodInv, LiveLinks, Live, Originates
<1>2. CASE neighborTable[a] = {} /\ lsTable[a][a] = NoEntry /\ \A m \in sent : m.orig # a
  BY <1>1, <1>2 DEF OwnRestored
<1>3. CASE \E m \in sent : Restored(a, m)
  <2>1. PICK m \in sent : Restored(a, m)
    BY <1>3
  <2>2. m.orig = a /\ Newest(m) /\ m \in sent'
    BY <1>1, <2>1 DEF Restored
  <2>3. Newest(m)'
    BY <1>1, <2>2, NewestMessages
  <2>4. Returning(a, m) => Returning(a, m)'
    <3> SUFFICES ASSUME NEW x \in LiveLinks[a],
                        (InFlight(net, a, x, m) /\ ~Knows(x, m)) \/ InFlight(net, x, a, m)
                 PROVE  Returning(a, m)'
      BY DEF Returning
    <3>1. x \in Nodes /\ Live(a, x) /\ Live(x, a)
      BY DEF LiveLinks, Live
    <3>2. Knows(x, m)' <=> Knows(x, m)
      BY <2>2, <3>1 DEF Knows, Number
    <3>3. (InFlight(net', a, x, m) /\ ~Knows(x, m)') \/ InFlight(net', x, a, m)
      BY <3>1, <3>2 DEF KeepsMessages
    <3> QED BY <1>1, <3>3 DEF Returning
  <2>5. OwnComplete(a)' <=> OwnComplete(a)
    BY DEF OwnComplete, GetNeighbors
  <2>6. Restored(a, m)'
    BY <1>1, <2>1, <2>2, <2>3, <2>4, <2>5 DEF Restored, Number
  <2> QED BY <2>2, <2>6 DEF OwnRestored
<1> QED BY <1>1, <1>2, <1>3 DEF OwnRestored

(***************************************************************************)
(* The hellos.                                                             *)
(***************************************************************************)
(* A packet arrives at n from f; if it was a hello, f counts as heard.     *)
LEMMA AliveTaken ==
  ASSUME IInv, FloodInv, NEW n \in Nodes, NEW f, NEW k, KeepsBut(f, n, k),
         UNCHANGED <<up, due>>,
         \A a \in Nodes \ {n} : neighborTable'[a] = neighborTable[a] /\ heard'[a] = heard[a],
         heard[n] \subseteq heard'[n],
         neighborTable'[n] \subseteq neighborTable[n] \cup heard'[n],
         k.type = "HELLO_REQ" => f \in heard'[n],
         NEW x \in Nodes, NEW y \in Nodes, Live(x, y)'
  PROVE  Alive(x, y)'
<1>1. Alive(x, y)
  BY DEF FloodInv, Live
<1>2. CASE y \in heard[x] \/ y \notin neighborTable[x]
  BY <1>2 DEF Alive
<1>3. CASE x \notin due /\ y \in due
  BY <1>3 DEF Alive
<1>4. CASE x \notin due /\ HelloPending(y, x)
  <2>1. PICK msg \in Messages : msg.type = "HELLO_REQ" /\ InFlight(net, y, x, msg)
    BY <1>4 DEF HelloPending
  <2>2. CASE InFlight(net', y, x, msg)
    BY <1>4, <2>1, <2>2 DEF Alive, HelloPending
  <2>3. CASE y = f /\ x = n /\ msg = k
    BY <2>1, <2>3 DEF Alive
  <2> QED BY <2>1, <2>2, <2>3 DEF KeepsBut
<1> QED BY <1>1, <1>2, <1>3, <1>4 DEF Alive

(* A hello from a known neighbour.                                         *)
LEMMA FloodRefresh ==
  ASSUME IInv, HelloInv, FloodInv, NEW n \in Nodes, NEW i \in 1 .. Len(net),
         RefreshNeighbor(n, i)
  PROVE  FloodInv'
<1> DEFINE m == net[i].msg
           none == <<>>
<1>1. /\ Arrives(i, n) /\ net[i].from \in up[n] /\ m.type = "HELLO_REQ"
      /\ heard' = [heard EXCEPT ![n] = @ \cup {m.orig}]
      /\ net' = InFlightWithout(i, n)
      /\ UNCHANGED <<up, due, age, seq, neighborTable, lsTable, sent>>
  BY DEF RefreshNeighbor, Receives, clock
<1>2. m.orig = net[i].from /\ net \in Seq(FreshPackets)
  BY <1>1 DEF HelloInv, HonestPackets, FloodInv
<1>3. /\ InFlightWithout(i, n) \in Seq(FreshPackets)
      /\ \A f, x, msg : InFlight(net, f, x, msg) =>
           InFlight(net', f, x, msg) \/ (f = net[i].from /\ x = n /\ msg = m)
  BY <1>1, <1>2, HelloTaken DEF IInv
<1>4. net' \in Seq(FreshPackets')
  BY <1>1, <1>3 DEF FreshPackets
<1>5. KeepsMessages
  <2>1. \A msg \in sent : msg.type # "HELLO_REQ"
    BY SentNumbers DEF LSMessages
  <2> QED BY <1>1, <1>3, <2>1 DEF KeepsMessages
<1>6. \A a \in Nodes : seq'[a] \in Nat /\ seq'[a] >= seq[a]
  BY <1>1, TableNumbers DEF FloodInv
<1>7. \A x, y \in Nodes : Live(x, y)' => Alive(x, y)'
  <2>1. KeepsBut(net[i].from, n, m)
    BY <1>3 DEF KeepsBut
  <2>2. /\ \A a \in Nodes \ {n} : neighborTable'[a] = neighborTable[a] /\ heard'[a] = heard[a]
        /\ heard'[n] = heard[n] \cup {m.orig} /\ neighborTable'[n] = neighborTable[n]
    BY <1>1 DEF IInv, LiveTypeOK
  <2> HIDE DEF m
  <2> QED BY <1>1, <1>2, <2>1, <2>2, AliveTaken
<1>8. /\ UsedOnce' /\ \A a \in Nodes : OwnRestored(a)'
      /\ \A x, y \in Nodes : Live(x, y)' => Passed(x, y)' /\ Exact(x, y)'
  BY <1>1, <1>5, <1>6, FloodKept
<1> QED BY <1>1, <1>4, <1>7, <1>8 DEF FloodInv

(* A neighbour that n did not know: n originates a message to all of them. *)
LEMMA FloodDiscover ==
  ASSUME IInv, IInv', HelloInv, FloodInv, Unwrapped, NEW n \in Nodes, NEW i \in 1 .. Len(net),
         DiscoverNeighbor(n, i)
  PROVE  FloodInv'
<1> DEFINE m == net[i].msg
           h == net[i].from
<1>0. PICK g : g = LSTableMessage(n, seq[n], neighborTable'[n])
  OBVIOUS
<1>1. /\ Arrives(i, n) /\ h \in up[n] /\ m.type = "HELLO_REQ"
      /\ m.orig \notin neighborTable[n]
      /\ neighborTable' = [neighborTable EXCEPT ![n] = @ \cup {m.orig}]
      /\ heard' = [heard EXCEPT ![n] = @ \cup {m.orig}]
      /\ lsTable' = [lsTable EXCEPT ![n][n] = AddOwnLink(@, m)]
      /\ seq' = [seq EXCEPT ![n] = GetNextSequenceNumber(@)]
      /\ net' = InFlightWithout(i, n) \o BroadcastPacket(n, g)
      /\ sent' = sent \cup {g}
      /\ UNCHANGED <<up, due, age>>
  BY <1>0 DEF DiscoverNeighbor, Receives, clock
<1>2. m.orig = h /\ net \in Seq(FreshPackets) /\ m \in HelloMessages
  BY <1>1, ReceivedMessage DEF HelloInv, HonestPackets, FloodInv, IInv
<1>3. h \in Nodes /\ h \in LiveLinks[n]
  BY <1>1, <1>2, Sender
<1>4. seq[n] \in Nat /\ GetNextSequenceNumber(seq[n]) = seq[n] + 1 /\ seq[n] \in SeqNums
  BY NextNumbers DEF IInv, LiveTypeOK
<1>5. /\ neighborTable'[n] = neighborTable[n] \cup {h} /\ neighborTable'[n] \in SUBSET Nodes
      /\ heard'[n] = heard[n] \cup {h}
      /\ \A a \in Nodes \ {n} : neighborTable'[a] = neighborTable[a] /\ heard'[a] = heard[a]
  BY <1>1, <1>2, <1>3 DEF IInv, LiveTypeOK
<1>6. g \in LSMessages /\ g \in Messages /\ g.orig = n /\ g.seq = seq[n] /\ g.nbrs = neighborTable'[n]
  BY <1>0, <1>4, <1>5, SentMessages DEF LSTableMessage
<1>7. Originates(n, g)
  BY <1>1, <1>4, <1>6 DEF Originates, IInv, LiveTypeOK
<1>8. BroadcastPacket(n, g) \in Seq(FreshPackets)
  <2>1. g.type # "HELLO_REQ"
    BY <1>6 DEF LSMessages
  <2> QED BY <1>6, <2>1, BroadcastFresh DEF IInv
<1>9. /\ net' \in Seq(FreshPackets') /\ KeepsBut(h, n, m)
      /\ \A f, x, msg : InFlight(BroadcastPacket(n, g), f, x, msg) => InFlight(net', f, x, msg)
  BY <1>1, <1>2, <1>8, Taking
<1>10. Sends(n, g)
  BY <1>6, <1>9, Sending DEF Sends, IInv
<1> HIDE DEF h, m
<1>11. KeepsMessages
  <2>1. \A msg \in sent : msg.type # "HELLO_REQ"
    BY SentNumbers DEF LSMessages
  <2> QED BY <1>1, <1>9, <2>1 DEF KeepsMessages, KeepsBut
<1>12. /\ \A a, o \in Nodes : ~(a = n /\ o = n) => lsTable'[a][o] = lsTable[a][o]
       /\ lsTable'[n][n] = AddOwnLink(lsTable[n][n], m)
  BY <1>1 DEF IInv, LiveTypeOK
<1>13. \A a, o \in Nodes : a # o => Number(a, o)' = Number(a, o)
  BY <1>12 DEF Number
<1>14. UsedOnce' /\ Newest(g)' /\ g.seq \in Nat /\ \A k \in sent : k.seq < g.seq \/ k.orig # n
  BY <1>7, NewestMessages DEF FloodInv
<1>15. \A x, y \in Nodes : Live(x, y)' => Passed(x, y)'
  BY <1>1, <1>7, <1>10, <1>11, <1>13, OriginatedPassed
<1>16. \A x, y \in Nodes : Live(x, y)' => Exact(x, y)'
  BY <1>1, <1>12 DEF FloodInv, Exact, Number, GetNeighbors, Live
<1>17. \A x, y \in Nodes : Live(x, y)' => Alive(x, y)'
  BY <1>1, <1>2, <1>5, <1>9, AliveTaken
<1>18. ASSUME NEW a \in Nodes, a # n PROVE OwnRestored(a)'
  BY <1>1, <1>5, <1>7, <1>11, <1>12, <1>13, <1>18, OriginatedOthers
<1>19. OwnRestored(n)'
  <2>1. Returning(n, g)'
    BY <1>1, <1>3, <1>7, <1>10, <1>13, OriginatedReturns
  <2>2. lsTable'[n][n] # NoEntry
    BY <1>5 DEF IInv, OwnEntryPresent
  <2>3. OwnComplete(n)' \/ Number(n, n)' < g.seq
    <3>1. CASE lsTable[n][n] = NoEntry
      <4>1. neighborTable[n] = {}
        BY <3>1 DEF IInv, OwnEntryPresent
      <4>2. lsTable'[n][n].neighborCosts = CostsOf({h})
        BY <1>2, <1>12, <3>1 DEF AddOwnLink
      <4>3. GetNeighbors(lsTable'[n], n) = {h}
        BY <1>3, <4>2 DEF GetNeighbors, CostsOf
      <4> QED BY <1>5, <4>1, <4>3 DEF OwnComplete
    <3>2. CASE lsTable[n][n] # NoEntry
      <4>1. lsTable[n][n] \in LSTableEntry
        BY <3>2 DEF IInv, LiveTypeOK
      <4>2. lsTable'[n][n] = [lsTable[n][n] EXCEPT !.neighborCosts = push_back(@, h)]
        BY <1>2, <1>12, <3>2 DEF AddOwnLink
      <4>3. Number(n, n)' = Number(n, n) /\ lsTable'[n][n].neighborCosts = push_back(lsTable[n][n].neighborCosts, h)
        BY <4>1, <4>2 DEF Number, LSTableEntry
      <4>4. GetNeighbors(lsTable'[n], n) = GetNeighbors(lsTable[n], n) \cup {h}
        BY <1>3, <4>1, <4>3 DEF GetNeighbors, push_back, LSTableEntry
      <4>5. PICK k \in sent : Restored(n, k)
        BY <3>2 DEF FloodInv, OwnRestored
      <4>6. CASE OwnComplete(n)
        BY <1>5, <4>4, <4>6 DEF OwnComplete
      <4>7. CASE Number(n, n) < k.seq
        <5>1. k.seq < g.seq /\ k.seq \in Nat /\ Number(n, n) \in Int
          BY <1>14, <4>5, SentNumbers, TableNumbers DEF Restored, FloodInv
        <5> QED BY <1>14, <4>3, <4>7, <5>1
      <4> QED BY <4>5, <4>6, <4>7 DEF Restored
    <3> QED BY <3>1, <3>2
  <2>4. Restored(n, g)' /\ g \in sent'
    BY <1>1, <1>6, <1>14, <2>1, <2>2, <2>3 DEF Restored
  <2> QED BY <2>4 DEF OwnRestored
<1>20. \A a \in Nodes : OwnRestored(a)'
  BY <1>18, <1>19
<1> QED BY <1>1, <1>9, <1>14, <1>15, <1>16, <1>17, <1>20 DEF FloodInv

(***************************************************************************)
(* A message that n has already, or has outrun.                            *)
(***************************************************************************)
(* Such a message is dropped: what it brings is there.                     *)
LEMMA FloodReject ==
  ASSUME IInv, FloodInv, NEW n \in Nodes, NEW f, NEW m \in sent, KeepsBut(f, n, m),
         m.type # "HELLO_REQ", ~IsNewer(lsTable[n], m), f \in LiveLinks[n],
         net' \in Seq(FreshPackets'),
         UNCHANGED <<up, due, age, seq, heard, neighborTable, lsTable, sent>>
  PROVE  FloodInv'
<1>1. m.orig \in Nodes /\ m.seq \in Nat
  BY SentNumbers
<1>2. lsTable[n][m.orig] # NoEntry /\ Knows(n, m)
  <2>1. lsTable[n][m.orig] # NoEntry /\ ~(m.seq > Number(n, m.orig)) /\ Number(n, m.orig) \in Int
    BY <1>1, TableNumbers DEF IsNewer, Number, FloodInv
  <2> QED BY <1>1, <2>1 DEF Knows
<1>3. UsedOnce'
  BY DEF FloodInv, UsedOnce
<1>4. /\ \A x, y : Live(x, y)' <=> Live(x, y)
      /\ LiveLinks' = LiveLinks
      /\ \A x, k : Knows(x, k)' <=> Knows(x, k)
      /\ \A k : Newest(k)' <=> Newest(k)
  BY DEF Live, LiveLinks, Knows, Number, Newest
<1>5. ASSUME NEW a \in Nodes PROVE OwnRestored(a)'
  <2>1. CASE neighborTable[a] = {} /\ lsTable[a][a] = NoEntry /\ \A k \in sent : k.orig # a
    BY <2>1 DEF OwnRestored
  <2>2. CASE \E k \in sent : Restored(a, k)
    <3>1. PICK k \in sent : Restored(a, k)
      BY <2>2
    <3>2. k.orig = a /\ k.seq \in Nat /\ Number(a, a) \in Int
      BY <3>1, SentNumbers, TableNumbers DEF Restored, FloodInv
    <3>3. Returning(a, k) => Returning(a, k)' \/ (OwnComplete(a) /\ Number(a, a) >= k.seq)
      <4> SUFFICES ASSUME NEW x \in LiveLinks[a],
                          (InFlight(net, a, x, k) /\ ~Knows(x, k)) \/ InFlight(net, x, a, k)
                   PROVE  Returning(a, k)' \/ (OwnComplete(a) /\ Number(a, a) >= k.seq)
        BY DEF Returning
      <4>1. CASE InFlight(net', a, x, k) /\ ~Knows(x, k)
        BY <1>4, <4>1 DEF Returning
      <4>2. CASE InFlight(net', x, a, k)
        BY <1>4, <4>2 DEF Returning
      <4>3. CASE x = n /\ k = m /\ ~Knows(x, k)
        BY <1>2, <4>3
      <4>4. CASE a = n /\ k = m
        <5>1. Number(a, a) >= k.seq
          BY <1>2, <3>2, <4>4 DEF Knows
        <5>2. OwnComplete(a)
          BY <3>1, <3>2, <5>1 DEF Restored
        <5> QED BY <5>1, <5>2
      <4> QED BY <4>1, <4>2, <4>3, <4>4 DEF KeepsBut
    <3>4. Restored(a, k)'
      BY <1>4, <3>1, <3>3 DEF Restored, OwnComplete, Number
    <3> QED BY <3>4 DEF OwnRestored
  <2> QED BY <2>1, <2>2 DEF FloodInv, OwnRestored
<1>6. ASSUME NEW x \in Nodes, NEW y \in Nodes, Live(x, y)' PROVE Passed(x, y)' /\ Exact(x, y)'
  <2>1. Passed(x, y) /\ Exact(x, y) /\ Live(x, y)
    BY <1>4, <1>6 DEF FloodInv
  <2>2. Passed(x, y)'
    <3> SUFFICES ASSUME NEW k \in sent, k.orig # y,
                        IF k.orig = x THEN Newest(k) ELSE Number(x, k.orig) = k.seq
                 PROVE  Knows(y, k) \/ InFlight(net', x, y, k)
      BY <1>4 DEF Passed, Number
    <3>1. Knows(y, k) \/ InFlight(net, x, y, k)
      BY <2>1 DEF Passed
    <3> QED BY <1>2, <3>1 DEF KeepsBut
  <2>3. Exact(x, y)'
    BY <2>1 DEF Exact, Number
  <2> QED BY <2>2, <2>3
<1>7. \A x, y \in Nodes : Live(x, y)' => Alive(x, y)'
  BY AliveTaken
<1> QED BY <1>3, <1>5, <1>6, <1>7 DEF FloodInv

(***************************************************************************)
(* A newer message, which n believes and hands on.                         *)
(***************************************************************************)
(* What the table of n holds then.                                         *)
LEMMA Believed ==
  ASSUME IInv, UsedOnce, NEW n \in Nodes, NEW m \in sent, Installs(n, m)
  PROVE  /\ lsTable'[n][m.orig] = [neighborCosts |-> CostsOf(m.nbrs), sequenceNumber |-> m.seq]
         /\ lsTable'[n][m.orig] # NoEntry
         /\ \A a, o \in Nodes : ~(a = n /\ o = m.orig) => lsTable'[a][o] = lsTable[a][o]
         /\ Number(n, m.orig)' = m.seq /\ Number(n, m.orig) < m.seq
         /\ \A a, o \in Nodes : ~(a = n /\ o = m.orig) => Number(a, o)' = Number(a, o)
         /\ \A a, o \in Nodes : Number(a, o)' >= Number(a, o)
         /\ GetNeighbors(lsTable'[n], m.orig) = m.nbrs
         /\ GetNeighbors(lsTable'[n], m.orig) \in SUBSET Nodes
<1>1. m.orig \in Nodes /\ m.seq \in Nat /\ m.nbrs \in SUBSET Nodes
  BY SentNumbers
<1>2. /\ lsTable'[n][m.orig] = [neighborCosts |-> CostsOf(m.nbrs), sequenceNumber |-> m.seq]
      /\ \A a, o \in Nodes : ~(a = n /\ o = m.orig) => lsTable'[a][o] = lsTable[a][o]
  BY <1>1 DEF Installs, IInv, LiveTypeOK
<1>3. lsTable'[n][m.orig] # NoEntry
  <2>1. lsTable'[n][m.orig].sequenceNumber # NoEntry.sequenceNumber
    BY <1>1, <1>2 DEF NoEntry, NoNode
  <2> QED BY <2>1
<1>4. Number(n, m.orig)' = m.seq
  BY <1>2 DEF Number
<1>5. Number(n, m.orig) < m.seq
  <2>1. Number(n, m.orig) \in Int /\ (lsTable[n][m.orig] = NoEntry => Number(n, m.orig) = -1)
    BY <1>1, TableNumbers
  <2> QED BY <1>1, <2>1 DEF Installs, IsNewer, Number
<1>6. \A a, o \in Nodes : ~(a = n /\ o = m.orig) => Number(a, o)' = Number(a, o)
  BY <1>2 DEF Number
<1>7. ASSUME NEW a \in Nodes, NEW o \in Nodes PROVE Number(a, o)' >= Number(a, o)
  <2>1. Number(a, o) \in Int
    BY TableNumbers
  <2> QED BY <1>1, <1>4, <1>5, <1>6, <2>1
<1>8. GetNeighbors(lsTable'[n], m.orig) = m.nbrs
  BY <1>1, <1>2 DEF GetNeighbors, CostsOf
<1> QED BY <1>1, <1>2, <1>3, <1>4, <1>5, <1>6, <1>7, <1>8

(* n hands on exactly what it believes.                                    *)
LEMMA BelievedPassed ==
  ASSUME IInv, FloodInv, NEW n \in Nodes, NEW f, NEW m \in sent, Installs(n, m),
         KeepsBut(f, n, m), Sends(n, m), UNCHANGED <<up, sent>>,
         NEW x \in Nodes, NEW y \in Nodes, Live(x, y)'
  PROVE  Passed(x, y)'
<1>1. UsedOnce /\ Live(x, y) /\ Passed(x, y) /\ m.orig \in Nodes /\ m.seq \in Nat
  BY SentNumbers DEF FloodInv, Live
<1>2. /\ Number(n, m.orig)' = m.seq
      /\ \A a, o \in Nodes : ~(a = n /\ o = m.orig) => Number(a, o)' = Number(a, o)
      /\ \A a, o \in Nodes : Number(a, o)' >= Number(a, o)
  BY <1>1, Believed
<1> SUFFICES ASSUME NEW k \in sent, k.orig # y,
                    IF k.orig = x THEN Newest(k)' ELSE Number(x, k.orig)' = k.seq
             PROVE  Knows(y, k)' \/ InFlight(net', x, y, k)
  BY DEF Passed
<1>3. k.orig \in Nodes /\ k.seq \in Nat
  BY SentNumbers
<1>4. CASE x = n /\ k.orig = m.orig /\ k.orig # n
  <2>1. k = m
    BY <1>1, <1>2, <1>4 DEF UsedOnce
  <2> QED BY <1>1, <1>4, <2>1 DEF Sends, Live
<1>5. CASE ~(x = n /\ k.orig = m.orig /\ k.orig # n)
  <2>1. IF k.orig = x THEN Newest(k) ELSE Number(x, k.orig) = k.seq
    BY <1>2, <1>3, <1>5 DEF Newest
  <2>2. Knows(y, k) \/ InFlight(net, x, y, k)
    BY <1>1, <2>1 DEF Passed
  <2>3. Knows(y, k) => Knows(y, k)'
    <3>1. Number(y, k.orig) \in Int /\ Number(y, k.orig)' >= Number(y, k.orig)
      BY <1>1, <1>2, <1>3, TableNumbers
    <3>2. Number(y, k.orig)' \in Int
      <4>1. (y = n /\ k.orig = m.orig) \/ Number(y, k.orig)' = Number(y, k.orig)
        BY <1>2, <1>3
      <4> QED BY <1>1, <1>2, <3>1, <4>1
    <3> QED BY <1>3, <3>1, <3>2 DEF Knows
  <2>4. y = n /\ k = m => Knows(y, k)'
    BY <1>1, <1>2 DEF Knows
  <2> QED BY <2>2, <2>3, <2>4 DEF KeepsBut
<1> QED BY <1>4, <1>5

(* An echo of an own message: the newest puts the own entry right, an      *)
(* older one leaves the newest on its way. A message of another node goes  *)
(* back there.                                                             *)
LEMMA BelievedRestored ==
  ASSUME IInv, FloodInv, NEW n \in Nodes, NEW f \in LiveLinks[n], NEW m \in sent, Installs(n, m),
         KeepsBut(f, n, m), Sends(n, m), UNCHANGED <<up, sent, neighborTable>>,
         NEW a \in Nodes
  PROVE  OwnRestored(a)'
<1>1. UsedOnce /\ m.orig \in Nodes /\ m.seq \in Nat /\ LiveLinks' = LiveLinks
  BY SentNumbers DEF FloodInv, LiveLinks, Live
<1>2. /\ lsTable'[n][m.orig] # NoEntry /\ GetNeighbors(lsTable'[n], m.orig) = m.nbrs
      /\ \A b, o \in Nodes : ~(b = n /\ o = m.orig) => lsTable'[b][o] = lsTable[b][o]
      /\ Number(n, m.orig)' = m.seq /\ Number(n, m.orig) < m.seq
      /\ \A b, o \in Nodes : ~(b = n /\ o = m.orig) => Number(b, o)' = Number(b, o)
  BY <1>1, Believed
<1>3. CASE neighborTable[a] = {} /\ lsTable[a][a] = NoEntry /\ \A k \in sent : k.orig # a
  BY <1>2, <1>3 DEF OwnRestored
<1>4. CASE \E k \in sent : Restored(a, k)
  <2>1. PICK k \in sent : Restored(a, k)
    BY <1>4
  <2>2. k.orig = a /\ Newest(k) /\ k.seq \in Nat /\ Number(a, a) \in Int /\ Newest(k)'
    BY <1>1, <2>1, SentNumbers, TableNumbers DEF Restored, Newest
  <2>3. CASE a = n /\ m.orig = n /\ m = k
    <3>1. OwnComplete(n)' /\ Number(n, n)' = k.seq
      BY <1>2, <2>1, <2>3 DEF OwnComplete, Restored
    <3>2. Restored(a, k)'
      BY <1>2, <2>1, <2>2, <2>3, <3>1 DEF Restored
    <3> QED BY <3>2 DEF OwnRestored
  <2>4. CASE a = n /\ m.orig = n /\ m # k
    <3>1. m.seq < k.seq
      BY <2>2, <2>4 DEF Newest
    <3>2. Number(n, n) < k.seq
      BY <1>1, <1>2, <2>2, <2>4, <3>1
    <3>3. Returning(n, k)
      BY <2>1, <2>2, <2>4, <3>2 DEF Restored
    <3>4. Returning(n, k)'
      <4>1. PICK x \in LiveLinks[n] :
              (InFlight(net, n, x, k) /\ ~Knows(x, k)) \/ InFlight(net, x, n, k)
        BY <3>3 DEF Returning
      <4>2. (InFlight(net', n, x, k) /\ ~Knows(x, k)) \/ InFlight(net', x, n, k)
        BY <2>4, <4>1 DEF KeepsBut
      <4>3. ~Knows(x, k) => ~Knows(x, k)'
        <5>1. CASE x = n
          BY <1>1, <1>2, <2>2, <2>4, <3>1, <5>1 DEF Knows
        <5>2. CASE x # n
          BY <1>1, <1>2, <2>2, <2>4, <5>2 DEF Knows, LiveLinks
        <5> QED BY <5>1, <5>2
      <4> QED BY <1>1, <4>2, <4>3 DEF Returning
    <3>5. Number(n, n)' < k.seq /\ lsTable'[n][n] # NoEntry
      BY <1>2, <2>4, <3>1
    <3>6. Restored(a, k)'
      BY <2>1, <2>2, <2>4, <3>4, <3>5 DEF Restored
    <3> QED BY <3>6 DEF OwnRestored
  <2>5. CASE ~(a = n /\ m.orig = n)
    <3>1. lsTable'[a][a] = lsTable[a][a] /\ Number(a, a)' = Number(a, a)
      BY <1>2, <2>5
    <3>2. OwnComplete(a)' <=> OwnComplete(a)
      BY <3>1 DEF OwnComplete, GetNeighbors
    <3>3. Returning(a, k) => Returning(a, k)'
      <4> SUFFICES ASSUME NEW x \in LiveLinks[a],
                          (InFlight(net, a, x, k) /\ ~Knows(x, k)) \/ InFlight(net, x, a, k)
                   PROVE  Returning(a, k)'
        BY DEF Returning
      <4>1. x \in Nodes /\ a \in up[x]
        BY DEF LiveLinks, Live
      <4>2. CASE x = n /\ k = m
        <5>1. InFlight(net', n, a, m)
          BY <4>1, <4>2 DEF Sends
        <5> QED BY <1>1, <4>2, <5>1 DEF Returning
      <4>3. CASE ~(x = n /\ k = m)
        <5>1. (InFlight(net', a, x, k) /\ ~Knows(x, k)) \/ InFlight(net', x, a, k)
          BY <2>2, <2>5, <4>3 DEF KeepsBut
        <5>2. ~Knows(x, k) => ~Knows(x, k)'
          <6>1. CASE x = n /\ m.orig = a
            <7>1. m.seq < k.seq
              BY <2>2, <4>3, <6>1 DEF Newest
            <7> QED BY <1>1, <1>2, <2>2, <6>1, <7>1 DEF Knows
          <6>2. CASE ~(x = n /\ m.orig = a)
            BY <1>2, <2>2, <4>1, <6>2 DEF Knows
          <6> QED BY <6>1, <6>2
        <5> QED BY <1>1, <5>1, <5>2 DEF Returning
      <4> QED BY <4>2, <4>3
    <3>4. Restored(a, k)'
      BY <1>1, <2>1, <2>2, <3>1, <3>2, <3>3 DEF Restored
    <3> QED BY <3>4 DEF OwnRestored
  <2> QED BY <2>3, <2>4, <2>5
<1> QED BY <1>3, <1>4 DEF FloodInv, OwnRestored

(* The entry is the message.                                               *)
LEMMA BelievedExact ==
  ASSUME IInv, FloodInv, NEW n \in Nodes, NEW m \in sent, Installs(n, m),
         UNCHANGED <<up, sent>>, NEW x \in Nodes, NEW y \in Nodes, Live(x, y)'
  PROVE  Exact(x, y)'
<1>1. UsedOnce /\ Live(x, y) /\ Exact(x, y) /\ m.orig \in Nodes /\ m.seq \in Nat
  BY SentNumbers DEF FloodInv, Live
<1>2. /\ GetNeighbors(lsTable'[n], m.orig) = m.nbrs
      /\ \A b, o \in Nodes : ~(b = n /\ o = m.orig) => lsTable'[b][o] = lsTable[b][o]
      /\ Number(n, m.orig)' = m.seq
  BY <1>1, Believed
<1>3. CASE x = n /\ y = m.orig
  BY <1>2, <1>3 DEF Exact
<1>4. CASE ~(x = n /\ y = m.orig)
  <2>1. lsTable'[x][y] = lsTable[x][y]
    BY <1>2, <1>4
  <2> QED BY <1>1, <2>1 DEF Exact, Number, GetNeighbors
<1> QED BY <1>3, <1>4

(* ProcessLSTableMessage does one or the other.                            *)
LEMMA FloodProcess ==
  ASSUME IInv, FloodInv, NEW n \in Nodes, NEW i \in 1 .. Len(net),
         ProcessLSTableMessage(n, i)
  PROVE  FloodInv'
<1> DEFINE m == net[i].msg
           f == net[i].from
           none == <<>>
<1>1. /\ Arrives(i, n) /\ f \in up[n] /\ m.type = "LS_TABLE_MSG"
      /\ UNCHANGED <<up, due, age, seq, heard, sent, neighborTable>>
  BY DEF ProcessLSTableMessage, Receives, clock
<1>2. m \in LSMessages /\ m \in sent /\ net \in Seq(FreshPackets) /\ UsedOnce
  BY <1>1, ReceivedMessage DEF IInv, FloodInv
<1>3. f \in LiveLinks[n]
  BY <1>1, <1>2, Sender
<1>4. PICK k : k = m
  OBVIOUS
<1>5. PICK b : b = f
  OBVIOUS
<1>6. CASE ~IsNewer(lsTable[n], m)
  <2>1. net' = InFlightWithout(i, n) /\ UNCHANGED lsTable
    BY <1>6 DEF ProcessLSTableMessage
  <2>2. /\ InFlightWithout(i, n) \in Seq(FreshPackets)
        /\ \A g, x, msg : InFlight(net, g, x, msg) =>
             InFlight(net', g, x, msg) \/ (g = f /\ x = n /\ msg = m)
    BY <1>2, <2>1, HelloTaken DEF IInv
  <2>3. net' \in Seq(FreshPackets') /\ KeepsBut(b, n, k)
    BY <1>1, <1>4, <1>5, <2>1, <2>2 DEF FreshPackets, KeepsBut
  <2> HIDE DEF m, f
  <2>4. k \in sent /\ k.type # "HELLO_REQ" /\ ~IsNewer(lsTable[n], k) /\ b \in LiveLinks[n]
    BY <1>1, <1>2, <1>3, <1>4, <1>5, <1>6
  <2> QED BY <1>1, <2>1, <2>3, <2>4, FloodReject
<1>7. CASE IsNewer(lsTable[n], m)
  <2>1. /\ lsTable' = [lsTable EXCEPT ![n][m.orig] =
             [neighborCosts |-> CostsOf(m.nbrs), sequenceNumber |-> m.seq]]
        /\ net' = InFlightWithout(i, n) \o BroadcastPacket(n, m)
    BY <1>7 DEF ProcessLSTableMessage
  <2>2. m \in Messages /\ m.type # "HELLO_REQ"
    BY <1>1, <1>2 DEF Messages
  <2>3. BroadcastPacket(n, m) \in Seq(FreshPackets)
    BY <2>2, BroadcastFresh DEF IInv
  <2>4. /\ net' \in Seq(FreshPackets') /\ KeepsBut(f, n, m)
        /\ \A g, x, msg : InFlight(BroadcastPacket(n, m), g, x, msg) => InFlight(net', g, x, msg)
    BY <1>1, <1>2, <2>1, <2>3, Taking
  <2>5. Sends(n, m)
    BY <2>2, <2>4, Sending DEF Sends, IInv
  <2>6. Installs(n, k) /\ Sends(n, k) /\ KeepsBut(b, n, k) /\ k \in sent /\ b \in LiveLinks[n]
    BY <1>1, <1>2, <1>3, <1>4, <1>5, <1>7, <2>1, <2>4, <2>5 DEF Installs
  <2>7. k.type # "HELLO_REQ"
    BY <1>4, <2>2
  <2> HIDE DEF m, f
  <2>8. \A x, y \in Nodes : Live(x, y)' => Passed(x, y)'
    BY <1>1, <2>6, BelievedPassed
  <2>9. \A x, y \in Nodes : Live(x, y)' => Exact(x, y)'
    BY <1>1, <2>6, BelievedExact
  <2>10. \A a \in Nodes : OwnRestored(a)'
    BY <1>1, <2>6, BelievedRestored
  <2>11. \A x, y \in Nodes : Live(x, y)' => Alive(x, y)'
    BY <1>1, <2>6, <2>7, AliveTaken
  <2>12. UsedOnce'
    BY <1>1, <1>2 DEF UsedOnce
  <2> QED BY <1>1, <2>4, <2>8, <2>9, <2>10, <2>11, <2>12 DEF FloodInv
<1> QED BY <1>6, <1>7

(***************************************************************************)
(* The hello timer.                                                        *)
(***************************************************************************)
(* A neighbour over a working link has sent a hello since the last         *)
(* instant, or will do so before this node looks for it again.             *)
LEMMA AliveAudit ==
  ASSUME IInv, HelloInv, FloodInv, NEW n \in Nodes, FirstDue(n),
         NEW msg \in Messages, msg.type = "HELLO_REQ", Sends(n, msg),
         \A f, x, k : InFlight(net, f, x, k) => InFlight(net', f, x, k),
         neighborTable' = [neighborTable EXCEPT ![n] = @ \ Expired(n)],
         heard' = [heard EXCEPT ![n] = {}], due' = due \ {n}, UNCHANGED up,
         NEW x \in Nodes, NEW y \in Nodes, Live(x, y)'
  PROVE  Alive(x, y)'
<1>1. n \in due /\ Live(x, y) /\ Live(y, x) /\ age >= 1 /\ Alive(x, y)
  BY DEF FirstDue, Live, FloodInv
<1>2. HelloPending(y, x) => HelloPending(y, x)'
  BY DEF HelloPending
<1>3. y = n => HelloPending(y, x)'
  BY <1>1 DEF HelloPending, Sends, Live
<1>4. CASE x = n
  <2>1. x \notin due'
    BY <1>4
  <2>2. y \in due' \/ y = n \/ y \in Nodes \ due
    OBVIOUS
  <2>3. y \in Nodes \ due => HelloPending(y, x)
    BY <1>1 DEF HelloInv
  <2> QED BY <1>2, <1>3, <2>1, <2>2, <2>3 DEF Alive
<1>5. CASE x # n
  <2>1. heard'[x] = heard[x] /\ neighborTable'[x] = neighborTable[x]
    BY <1>5 DEF IInv, LiveTypeOK
  <2>2. x \notin due => x \notin due'
    OBVIOUS
  <2>3. y \in due => y = n \/ y \in due'
    OBVIOUS
  <2> QED BY <1>1, <1>2, <1>3, <2>1, <2>2, <2>3 DEF Alive
<1> QED BY <1>4, <1>5

(* AuditHellos. Nothing of the node's own is in flight: the network had    *)
(* drained before this instant, and what was sent since comes from nodes   *)
(* whose timers have expired. So its own entry is complete, and the same   *)
(* neighbours are taken out of the entry and left out of the message.      *)
LEMMA FloodAudit ==
  ASSUME IInv, IInv', HopInv, HelloInv, FloodInv, Unwrapped, NEW n \in Nodes, AuditHellos(n)
  PROVE  FloodInv'
<1> DEFINE msg == [type |-> "HELLO_REQ", orig |-> n, seq |-> seq[n]]
           b == BroadcastPacket(n, msg)
<1>0. PICK g : g = LSTableMessage(n, GetNextSequenceNumber(seq[n]), neighborTable'[n])
  OBVIOUS
<1>1. /\ FirstDue(n) /\ n \in due
      /\ neighborTable' = [neighborTable EXCEPT ![n] = @ \ Expired(n)]
      /\ heard' = [heard EXCEPT ![n] = {}]
      /\ due' = due \ {n} /\ UNCHANGED <<up, age>>
  BY DEF AuditHellos, FirstDue
<1>2. /\ seq[n] \in Nat /\ GetNextSequenceNumber(seq[n]) = seq[n] + 1
      /\ GetNextSequenceNumber(seq[n] + 1) = seq[n] + 2
      /\ seq[n] \in SeqNums /\ seq[n] + 1 \in SeqNums
  BY NextNumbers, NextSequenceNumber DEF IInv, LiveTypeOK
<1>3. /\ neighborTable'[n] = neighborTable[n] \ Expired(n) /\ neighborTable'[n] \in SUBSET Nodes
      /\ \A a \in Nodes \ {n} : neighborTable'[a] = neighborTable[a]
  BY <1>1 DEF IInv, LiveTypeOK
<1>4. /\ g \in LSMessages /\ g \in Messages /\ g.type # "HELLO_REQ" /\ g.orig = n
      /\ g.seq = seq[n] + 1 /\ g.nbrs = neighborTable'[n]
  BY <1>0, <1>2, <1>3, SentMessages DEF LSTableMessage
<1>5. msg \in Messages /\ msg.type = "HELLO_REQ" /\ msg.orig = n
  BY <1>2 DEF Messages, HelloMessages
<1>6. \A a \in Nodes : seq[a] \in Nat
  BY TableNumbers DEF FloodInv
<1>7. net \in Seq(FreshPackets) /\ b \in Seq(FreshPackets) /\ FreshPackets' = FreshPackets
      /\ BroadcastPacket(n, g) \in Seq(FreshPackets)
  BY <1>1, <1>4, <1>5, BroadcastFresh DEF FloodInv, IInv, FreshPackets
<1>8. \A x \in up[n] : InFlight(b, n, x, msg) /\ InFlight(BroadcastPacket(n, g), n, x, g)
  BY <1>4, <1>5, Sending DEF IInv
<1>9. PICK hello : hello = msg
  OBVIOUS
<1>10. /\ \A f, x, k : InFlight(net \o b, f, x, k) <=> InFlight(net, f, x, k) \/ InFlight(b, f, x, k)
       /\ net \o b \in Seq(FreshPackets)
  BY <1>7, ConcatInFlight
<1>11. CASE Expired(n) = {}
  <2>1. /\ seq' = [seq EXCEPT ![n] = GetNextSequenceNumber(@)]
        /\ net' = net \o b
        /\ UNCHANGED <<lsTable, sent>>
    BY <1>11 DEF AuditHellos, SendHello
  <2>2. UNCHANGED neighborTable
    BY <1>1, <1>11 DEF IInv, LiveTypeOK
  <2>3. \A f, x, k : InFlight(net, f, x, k) => InFlight(net', f, x, k)
    BY <1>10, <2>1
  <2>4. KeepsMessages
    BY <2>3 DEF KeepsMessages
  <2>5. Sends(n, hello)
    BY <1>8, <1>9, <1>10, <2>1 DEF Sends
  <2> HIDE DEF b, msg
  <2>6. \A x, y \in Nodes : Live(x, y)' => Alive(x, y)'
    BY <1>1, <1>5, <1>9, <2>3, <2>5, AliveAudit
  <2>7. \A a \in Nodes : seq'[a] \in Nat /\ seq'[a] >= seq[a]
    BY <1>2, <1>6, <2>1 DEF IInv, LiveTypeOK
  <2>8. /\ UsedOnce' /\ \A a \in Nodes : OwnRestored(a)'
        /\ \A x, y \in Nodes : Live(x, y)' => Passed(x, y)' /\ Exact(x, y)'
    BY <1>1, <2>1, <2>2, <2>4, <2>7, FloodKept
  <2>9. net' \in Seq(FreshPackets') /\ (due' # {} => age' >= 1)
    BY <1>1, <1>7, <1>10, <2>1 DEF FloodInv
  <2> QED BY <2>6, <2>8, <2>9 DEF FloodInv
<1>12. CASE Expired(n) # {}
  <2>1. /\ seq' = [seq EXCEPT ![n] = GetNextSequenceNumber(GetNextSequenceNumber(@))]
        /\ net' = (net \o b) \o BroadcastPacket(n, g)
        /\ sent' = sent \cup {g}
        /\ lsTable' = [lsTable EXCEPT ![n] = UnlinkExpired(n)]
    BY <1>0, <1>12 DEF AuditHellos, SendHello
  <2>2. \A f, x, k : InFlight(net', f, x, k) <=>
          InFlight(net \o b, f, x, k) \/ InFlight(BroadcastPacket(n, g), f, x, k)
    <3> DEFINE sofar == net \o b
    <3>1. sofar \in Seq(FreshPackets) /\ BroadcastPacket(n, g) \in Seq(FreshPackets)
      BY <1>7, <1>10
    <3>2. net' = sofar \o BroadcastPacket(n, g)
      BY <2>1
    <3> HIDE DEF sofar
    <3>3. \A f, x, k : InFlight(net', f, x, k) <=>
            InFlight(sofar, f, x, k) \/ InFlight(BroadcastPacket(n, g), f, x, k)
      BY <3>1, <3>2, ConcatInFlight
    <3> QED BY <3>3 DEF sofar
  <2>3. \A f, x, k : InFlight(net, f, x, k) => InFlight(net', f, x, k)
    BY <1>10, <2>2
  <2>4. KeepsMessages
    BY <2>3 DEF KeepsMessages
  <2>5. Sends(n, hello) /\ Sends(n, g)
    BY <1>8, <1>9, <1>10, <2>2 DEF Sends
  <2>6. net' \in Seq(FreshPackets') /\ (due' # {} => age' >= 1)
    BY <1>1, <1>7, <1>10, <2>1 DEF FloodInv
  <2> HIDE DEF b, msg
  <2>7. \A x, y \in Nodes : Live(x, y)' => Alive(x, y)'
    BY <1>1, <1>5, <1>9, <2>3, <2>5, AliveAudit
  <2>8. Originates(n, g)
    BY <1>2, <1>4, <2>1 DEF Originates, IInv, LiveTypeOK
  <2>9. /\ \A a \in Nodes \ {n} : lsTable'[a] = lsTable[a]
        /\ lsTable'[n] = UnlinkExpired(n)
    BY <2>1 DEF IInv, LiveTypeOK
  <2>10. \A a, o \in Nodes : Number(a, o)' = Number(a, o)
    BY <2>9, UnlinkExpiredProperties DEF Number, IInv
  <2>11. \A x, y \in Nodes : Live(x, y)' => Passed(x, y)'
    BY <1>1, <2>4, <2>5, <2>8, <2>10, OriginatedPassed
  <2>12. ASSUME NEW x \in Nodes, NEW y \in Nodes, Live(x, y)' PROVE Exact(x, y)'
    <3>1. Exact(x, y) /\ Alive(x, y)
      BY <1>1, <2>12 DEF FloodInv, Live
    <3>2. x # y => lsTable'[x][y] = lsTable[x][y]
      <4>1. CASE x # n
        BY <2>9, <4>1
      <4>2. CASE x = n
        <5>1. y \notin Expired(n)
          BY <1>1, <3>1, <4>2 DEF Alive, Expired
        <5> QED BY <2>9, <4>2, <5>1 DEF UnlinkExpired
      <4> QED BY <4>1, <4>2
    <3> QED BY <2>1, <3>1, <3>2 DEF Exact, Number, GetNeighbors
  <2>13. UsedOnce' /\ Newest(g)' /\ g \in sent'
    BY <2>1, <2>8, NewestMessages DEF FloodInv
  <2>14. ASSUME NEW a \in Nodes, a # n PROVE OwnRestored(a)'
    BY <1>1, <1>3, <2>4, <2>8, <2>9, <2>10, <2>14, OriginatedOthers
  <2>15. OwnRestored(n)'
    <3>1. PICK m \in sent : Restored(n, m)
      BY <1>12 DEF FloodInv, OwnRestored, Expired
    <3>2. ~Returning(n, m)
      <4>1. \A f, x : ~InFlight(net, f, x, m)
        <5>1. m \in LSMessages /\ m \notin UpToDate
          BY <1>1, <3>1, SentNumbers DEF UpToDate, Restored
        <5> QED BY <5>1 DEF HopInv, Flooded, InFlight
      <4> QED BY <4>1 DEF Returning
    <3>3. OwnComplete(n) /\ lsTable[n][n] # NoEntry
      BY <3>1, <3>2 DEF Restored
    <3>4. lsTable[n][n] \in LSTableEntry /\ lsTable'[n][n] # NoEntry
      BY <2>9, <3>3, UnlinkExpiredProperties DEF IInv, LiveTypeOK
    <3>5. lsTable'[n][n].neighborCosts = removeLSTableLink(lsTable[n][n].neighborCosts, Expired(n))
      BY <2>9, <3>3, <3>4 DEF UnlinkExpired, LSTableEntry
    <3>6. ASSUME NEW x \in Nodes
          PROVE  lsTable'[n][n].neighborCosts[x] > 0 <=> x \in neighborTable'[n]
      <4>1. lsTable[n][n].neighborCosts[x] \in IF x \in neighborTable[n] THEN {0, 1} ELSE {0}
        BY DEF HopInv, OwnLinks
      <4>2. lsTable[n][n].neighborCosts[x] > 0 <=> x \in neighborTable[n]
        BY <3>3 DEF OwnComplete, GetNeighbors
      <4>3. lsTable'[n][n].neighborCosts[x] =
              IF x \in Expired(n) /\ lsTable[n][n].neighborCosts[x] > 0
              THEN lsTable[n][n].neighborCosts[x] - 1
              ELSE lsTable[n][n].neighborCosts[x]
        BY <3>5 DEF removeLSTableLink
      <4> QED BY <1>3, <4>1, <4>2, <4>3 DEF Expired
    <3>7. OwnComplete(n)'
      BY <1>3, <3>6 DEF OwnComplete, GetNeighbors
    <3>8. LiveLinks'[n] = {} \/ Returning(n, g)'
      <4>1. LiveLinks' = LiveLinks
        BY <1>1 DEF LiveLinks, Live
      <4>2. ASSUME NEW x \in LiveLinks[n] PROVE Returning(n, g)'
        BY <1>1, <2>5, <2>8, <2>10, <4>2, OriginatedReturns
      <4> QED BY <4>1, <4>2
    <3>9. Restored(n, g)'
      BY <1>4, <2>13, <3>4, <3>7, <3>8 DEF Restored
    <3> QED BY <2>13, <3>9 DEF OwnRestored
  <2>16. \A a \in Nodes : OwnRestored(a)'
    BY <2>14, <2>15
  <2> QED BY <2>6, <2>7, <2>11, <2>12, <2>13, <2>16 DEF FloodInv
<1> QED BY <1>11, <1>12

(***************************************************************************)
(* When the network has settled, every node knows its part of it: the      *)
(* nodes that have a message hand it to all that they can reach.           *)
(***************************************************************************)
LEMMA FloodKnown ==
  ASSUME IInv, FloodInv, NeighborsSettled, Settled, NEW n \in Nodes, NEW o \in Nodes, o # n,
         Distance(LiveLinks, n, o) # INF
  PROVE  /\ lsTable[n][o] # NoEntry
         /\ \E m \in sent :
              /\ m.orig = o /\ Newest(m) /\ m.seq = Number(n, o)
              /\ m.nbrs = LiveLinks[o] /\ GetNeighbors(lsTable[n], o) = m.nbrs
<1>1. /\ net = <<>> /\ \A a \in Nodes : neighborTable[a] = LiveLinks[a]
      /\ UsedOnce /\ LiveLinks \in GraphsOn(Nodes) /\ IsFiniteSet(Nodes) /\ Cardinality(Nodes) < INF
  BY NodesAssumption DEF Settled, Idle, NeighborsSettled, FloodInv, LiveLinks, GraphsOn
<1>2. \A f, x, m : ~InFlight(net, f, x, m)
  BY <1>1 DEF InFlight
<1>3. \A x, y \in Nodes : (y \in LiveLinks[x] <=> Live(x, y)) /\ (y \in LiveLinks[x] => x \in LiveLinks[y])
  BY DEF LiveLinks, Live
<1>4. \E m \in sent : Restored(o, m)
  <2> SUFFICES ASSUME neighborTable[o] = {} PROVE FALSE
    BY DEF FloodInv, OwnRestored
  <2> DEFINE R == Nodes \ {o}
  <2>1. \A x \in R : LiveLinks[x] \subseteq R
    BY <1>1, <1>3 DEF GraphsOn
  <2>2. R \in SUBSET Nodes /\ n \in R /\ o \notin R
    OBVIOUS
  <2> HIDE DEF R
  <2> QED BY <1>1, <2>1, <2>2, PathsStayInside
<1>5. PICK m \in sent : Restored(o, m)
  BY <1>4
<1>6. m.orig = o /\ Newest(m) /\ m.nbrs = LiveLinks[o] /\ m.seq \in Nat
  BY <1>1, <1>5, SentNumbers DEF Restored
<1>7. ASSUME NEW y \in Nodes, y # o, Knows(y, m) PROVE Number(y, o) = m.seq
  <2>1. Number(y, o) >= m.seq /\ lsTable[y][o] # NoEntry /\ Number(y, o) \in Int
    BY <1>1, <1>6, <1>7, TableNumbers DEF Knows
  <2>2. PICK k \in sent : k.orig = o /\ k.seq = Number(y, o)
    BY <1>7, <2>1 DEF IInv, EntriesAuthentic, Number
  <2>3. k = m \/ k.seq < m.seq
    BY <1>6, <2>2 DEF Newest
  <2> QED BY <1>6, <2>1, <2>2, <2>3
<1> DEFINE S == {x \in Nodes : x = o \/ Number(x, o) = m.seq}
           R == Nodes \ S
<1>8. ASSUME NEW x \in S, NEW y \in LiveLinks[x] PROVE y \in S
  <2>1. x \in Nodes /\ y \in Nodes /\ Live(x, y)
    BY <1>1, <1>3, <1>8 DEF GraphsOn
  <2>2. Passed(x, y)
    BY <2>1 DEF FloodInv
  <2>3. y # o => Knows(y, m)
    BY <1>2, <1>6, <2>2 DEF Passed
  <2> QED BY <1>7, <2>1, <2>3
<1>9. n \in S
  <2> SUFFICES ASSUME n \in R PROVE FALSE
    OBVIOUS
  <2>1. \A x \in R : LiveLinks[x] \subseteq R
    BY <1>1, <1>3, <1>8 DEF GraphsOn
  <2>2. R \in SUBSET Nodes /\ o \notin R
    OBVIOUS
  <2> HIDE DEF R
  <2> QED BY <1>1, <2>1, <2>2, PathsStayInside
<1>10. Number(n, o) = m.seq /\ lsTable[n][o] # NoEntry
  BY <1>1, <1>6, <1>9, TableNumbers
<1>11. \A k \in sent : k.orig = o /\ k.seq = Number(n, o) => k = m
  BY <1>1, <1>6, <1>10 DEF UsedOnce
<1>12. GetNeighbors(lsTable[n], o) = m.nbrs
  <2>1. CASE n \in LiveLinks[o]
    BY <1>3, <1>6, <1>10, <1>11, <2>1 DEF FloodInv, Exact
  <2>2. CASE n \notin LiveLinks[o]
    <3>1. PICK k \in sent :
            /\ k.orig = o /\ k.seq = Number(n, o)
            /\ GetNeighbors(lsTable[n], o) \subseteq k.nbrs
            /\ k.nbrs \ {n} \subseteq GetNeighbors(lsTable[n], o)
      BY <1>10 DEF IInv, EntriesAuthentic, Number
    <3> QED BY <1>6, <1>11, <2>2, <3>1
  <2> QED BY <2>1, <2>2
<1> QED BY <1>6, <1>10, <1>12

(* Its own entry is right as well.                                         *)
LEMMA FloodInformed ==
  ASSUME IInv, FloodInv, NeighborsSettled, Settled, NEW n \in Nodes
  PROVE  Informed(n)
<1>1. net = <<>> /\ neighborTable[n] = LiveLinks[n]
  BY DEF Settled, Idle, NeighborsSettled
<1>2. \A m : ~Returning(n, m)
  BY <1>1 DEF Returning, InFlight
<1>3. GetNeighbors(lsTable[n], n) = LiveLinks[n]
  <2>1. CASE neighborTable[n] = {} /\ lsTable[n][n] = NoEntry
    <3>1. GetNeighbors(lsTable[n], n) = {}
      BY <2>1 DEF GetNeighbors, NoEntry
    <3> QED BY <1>1, <2>1, <3>1
  <2>2. CASE \E m \in sent : Restored(n, m)
    BY <1>1, <1>2, <2>2 DEF Restored, OwnComplete
  <2> QED BY <2>1, <2>2 DEF FloodInv, OwnRestored
<1>4. ASSUME NEW o \in Nodes, o # n, Distance(LiveLinks, n, o) # INF
      PROVE  lsTable[n][o] # NoEntry /\ GetNeighbors(lsTable[n], o) = LiveLinks[o]
  BY <1>4, FloodKnown
<1> QED BY <1>3, <1>4 DEF Informed

(* A new link between nodes that reach each other: whatever one of them    *)
(* has, also about nodes that are gone, the other has too.                 *)
LEMMA ConnectedPassed ==
  ASSUME IInv, FloodInv, NeighborsSettled, Settled, NEW x \in Nodes, NEW y \in Nodes, x # y,
         Distance(LiveLinks, x, y) # INF, Distance(LiveLinks, y, x) # INF
  PROVE  Passed(x, y)
<1>1. /\ net = <<>> /\ UsedOnce /\ LiveLinks \in GraphsOn(Nodes)
      /\ IsFiniteSet(Nodes) /\ Cardinality(Nodes) < INF
  BY NodesAssumption DEF Settled, Idle, FloodInv, LiveLinks, GraphsOn
<1>2. \A f, z, m : ~InFlight(net, f, z, m)
  BY <1>1 DEF InFlight
<1>3. \A z, w \in Nodes : w \in LiveLinks[z] <=> Live(z, w)
  BY DEF LiveLinks
<1> SUFFICES ASSUME NEW k \in sent, k.orig # y,
                    IF k.orig = x THEN Newest(k) ELSE Number(x, k.orig) = k.seq
             PROVE  Knows(y, k)
  BY DEF Passed
<1>4. k.orig \in Nodes /\ k.seq \in Nat
  BY SentNumbers
<1>5. CASE k.orig = x
  <2>1. PICK m \in sent : m.orig = x /\ Newest(m) /\ m.seq = Number(y, x)
    BY FloodKnown
  <2>2. m.seq \in Nat /\ (k = m \/ k.seq < m.seq)
    BY <1>5, <2>1, SentNumbers DEF Newest
  <2> QED BY <1>4, <1>5, <2>1, <2>2 DEF Knows
<1>6. CASE k.orig # x
  <2> DEFINE o == k.orig
             S == {z \in Nodes : z = o \/ Number(z, o) >= k.seq}
  <2>1. ASSUME NEW z \in S, NEW w \in LiveLinks[z] PROVE w \in S
    <3>1. z \in Nodes /\ w \in Nodes /\ Passed(z, w)
      BY <1>1, <1>3, <2>1 DEF GraphsOn, FloodInv
    <3>2. \E j \in sent : j.orig = o /\ j.seq >= k.seq /\ (z = o => Newest(j))
                          /\ (z # o => Number(z, o) = j.seq)
      <4>1. CASE z = o
        <5>1. PICK j \in sent : Restored(o, j)
          BY <1>4 DEF FloodInv, OwnRestored
        <5>2. j.orig = o /\ Newest(j) /\ j.seq \in Nat /\ (k = j \/ k.seq < j.seq)
          BY <5>1, SentNumbers DEF Restored, Newest
        <5> QED BY <1>4, <4>1, <5>2
      <4>2. CASE z # o
        <5>1. Number(z, o) >= k.seq
          BY <2>1, <4>2
        <5>2. lsTable[z][o] # NoEntry
          <6>1. o \in Nodes
            BY <1>4
          <6> HIDE DEF o
          <6>2. lsTable[z][o] = NoEntry => Number(z, o) = -1
            BY <1>1, <3>1, <6>1, TableNumbers
          <6> QED BY <1>4, <5>1, <6>2
        <5>3. PICK j \in sent : j.orig = o /\ j.seq = Number(z, o)
          BY <1>4, <3>1, <4>2, <5>2 DEF IInv, EntriesAuthentic, Number
        <5> QED BY <4>2, <5>1, <5>3
      <4> QED BY <4>1, <4>2
    <3>3. PICK j \in sent : j.orig = o /\ j.seq >= k.seq /\ (z = o => Newest(j))
                            /\ (z # o => Number(z, o) = j.seq)
      BY <3>2
    <3>4. w # o => Knows(w, j)
      BY <1>2, <3>1, <3>3 DEF Passed
    <3>5. w # o => Number(w, o) >= k.seq
      <4>1. j.seq \in Nat /\ Number(w, o) \in Int
        BY <1>1, <1>4, <3>1, SentNumbers, TableNumbers
      <4> QED BY <1>4, <3>3, <3>4, <4>1 DEF Knows
    <3> QED BY <3>1, <3>5
  <2>2. S \in SUBSET Nodes /\ x \in S
    BY <1>4, <1>6
  <2>3. \A z \in S : LiveLinks[z] \subseteq S
    BY <2>1
  <2>4. y \in S
    <3> HIDE DEF S
    <3> QED BY <1>1, <2>2, <2>3, PathsStayInside
  <2> QED BY <2>4 DEF Knows
<1> QED BY <1>5, <1>6

(***************************************************************************)
(* The simulator.                                                          *)
(***************************************************************************)
(* Losses, link commands and the passing of time.                          *)
LEMMA FloodSim ==
  ASSUME Orderly, IInv, HopInv, FloodInv, NeighborsSettled, JoinsNoParts,
         SimNext, UNCHANGED lsVars
  PROVE  FloodInv'
<1>1. UNCHANGED <<seq, neighborTable, heard, lsTable, sent>>
  BY DEF lsVars
<1>2. \A a \in Nodes : seq'[a] \in Nat /\ seq'[a] >= seq[a]
  BY <1>1, TableNumbers DEF FloodInv
<1>3. ASSUME NEW i \in 1 .. Len(net), NEW r \in Nodes, DropPacket(i, r)
      PROVE  FloodInv'
  <2>1. net' = InFlightWithout(i, r) /\ UNCHANGED <<up, due, age>> /\ net[i].from \notin up[r]
    BY <1>3 DEF DropPacket, clock
  <2>2. /\ net' \in Seq(FreshPackets)
        /\ \A f, x, msg : InFlight(net, f, x, msg) =>
             InFlight(net', f, x, msg) \/ (f = net[i].from /\ x = r /\ msg = net[i].msg)
    BY <2>1, HelloTaken DEF IInv, FloodInv
  <2>3. \A f, x, msg : Live(f, x) /\ InFlight(net, f, x, msg) => InFlight(net', f, x, msg)
    BY <2>1, <2>2 DEF Live
  <2>4. KeepsMessages
    BY <2>3 DEF KeepsMessages
  <2>5. ASSUME NEW x \in Nodes, NEW y \in Nodes, Live(x, y)' PROVE Alive(x, y)'
    <3>1. Live(y, x) /\ Alive(x, y)
      BY <2>1, <2>5 DEF Live, FloodInv
    <3>2. HelloPending(y, x) => HelloPending(y, x)'
      BY <2>3, <3>1 DEF HelloPending
    <3> QED BY <1>1, <2>1, <3>1, <3>2 DEF Alive
  <2>6. net' \in Seq(FreshPackets') /\ (due' # {} => age' >= 1)
    BY <2>1, <2>2 DEF FreshPackets, FloodInv
  <2>7. /\ UsedOnce' /\ \A a \in Nodes : OwnRestored(a)'
        /\ \A x, y \in Nodes : Live(x, y)' => Passed(x, y)' /\ Exact(x, y)'
    BY <1>1, <1>2, <2>1, <2>4, FloodKept
  <2> QED BY <2>5, <2>6, <2>7 DEF FloodInv
<1>4. ASSUME NEW newUp, SetInterfaces(newUp), \A x \in Nodes : x \in newUp[x] => x \in up[x]
      PROVE  FloodInv'
  <2>1. net = <<>> /\ UNCHANGED <<net, due>> /\ due = {}
    BY <1>4 DEF SetInterfaces, Idle
  <2>2. net' \in Seq(FreshPackets')
    BY <2>1
  <2>3. ASSUME NEW x \in Nodes, NEW y \in Nodes, Live(x, y)', ~Live(x, y)
        PROVE  /\ x # y /\ Settled
               /\ Distance(LiveLinks, x, y) # INF /\ Distance(LiveLinks, y, x) # INF
    <3>1. x # y
      BY <1>4, <2>3 DEF SetInterfaces, Live
    <3>2. Live(y, x)' /\ ~Live(y, x)
      BY <2>3 DEF Live
    <3> QED BY <2>3, <3>1, <3>2 DEF JoinsNoParts
  <2>4. ASSUME NEW x \in Nodes, NEW y \in Nodes, Live(x, y)'
        PROVE  Passed(x, y)' /\ Exact(x, y)' /\ Alive(x, y)'
    <3>1. Passed(x, y) /\ Exact(x, y) /\ Alive(x, y)
      <4>1. CASE Live(x, y)
        BY <4>1 DEF FloodInv
      <4>2. CASE ~Live(x, y)
        <5>1. /\ x # y /\ Settled
              /\ Distance(LiveLinks, x, y) # INF /\ Distance(LiveLinks, y, x) # INF
          BY <2>3, <2>4, <4>2
        <5>2. Passed(x, y)
          BY <5>1, ConnectedPassed
        <5>3. Exact(x, y)
          BY <5>1, FloodKnown DEF Exact
        <5>4. Alive(x, y)
          BY <4>2, <5>1 DEF Settled, NeighborsSettled, LiveLinks, Alive
        <5> QED BY <5>2, <5>3, <5>4
      <4> QED BY <4>1, <4>2
    <3>2. Passed(x, y)'
      BY <1>1, <2>1, <3>1 DEF Passed, Number, Knows, Newest
    <3>3. Exact(x, y)' /\ Alive(x, y)'
      BY <1>1, <2>1, <3>1 DEF Exact, Number, Alive, HelloPending
    <3> QED BY <3>2, <3>3
  <2>5. ASSUME NEW a \in Nodes PROVE OwnRestored(a)'
    <3>1. LiveLinks[a] = {} => LiveLinks'[a] = {}
      <4> SUFFICES ASSUME LiveLinks[a] = {}, NEW y \in LiveLinks'[a] PROVE FALSE
        OBVIOUS
      <4>1. y \in Nodes /\ Live(a, y)' /\ ~Live(a, y)
        BY DEF LiveLinks
      <4>2. y # a /\ Distance(LiveLinks, a, y) # INF
        BY <2>3, <4>1
      <4>3. LiveLinks \in GraphsOn(Nodes) /\ IsFiniteSet(Nodes)
        BY NodesAssumption DEF LiveLinks, GraphsOn
      <4> QED BY <4>2, <4>3, NoEdges
    <3>2. \A m : ~Returning(a, m)
      BY <2>1 DEF Returning, InFlight
    <3>3. ASSUME NEW m \in sent, Restored(a, m) PROVE Restored(a, m)'
      BY <1>1, <3>1, <3>2, <3>3 DEF Restored, OwnComplete, Number, Newest
    <3> QED BY <1>1, <3>3 DEF FloodInv, OwnRestored
  <2>6. UsedOnce'
    BY <1>1 DEF FloodInv, UsedOnce
  <2> QED BY <2>1, <2>2, <2>4, <2>5, <2>6 DEF FloodInv
<1>5. CASE Settle
  <2>1. net = <<>> /\ due = {} /\ UNCHANGED <<up, net, due, age>>
    BY <1>5 DEF Settle
  <2>2. KeepsMessages /\ net' \in Seq(FreshPackets') /\ (due' # {} => age' >= 1)
    BY <2>1 DEF KeepsMessages
  <2>3. \A x, y \in Nodes : Live(x, y)' => Alive(x, y)'
    BY <1>1, <2>1 DEF FloodInv, Live, Alive, HelloPending
  <2>4. /\ UsedOnce' /\ \A a \in Nodes : OwnRestored(a)'
        /\ \A x, y \in Nodes : Live(x, y)' => Passed(x, y)' /\ Exact(x, y)'
    BY <1>1, <1>2, <2>1, <2>2, FloodKept
  <2> QED BY <2>2, <2>3, <2>4 DEF FloodInv
<1>6. CASE HelloInstant
  <2>1. /\ net = <<>> /\ due = {} /\ UNCHANGED <<up, net>>
        /\ age' = IF age < Drain THEN age + 1 ELSE age
    BY <1>6 DEF HelloInstant, HopInv, Drained
  <2>2. age' >= 1
    BY <2>1 DEF Drain, IInv, LiveTypeOK, SimTypeOK
  <2>3. KeepsMessages /\ net' \in Seq(FreshPackets')
    BY <2>1 DEF KeepsMessages
  <2>4. ASSUME NEW x \in Nodes, NEW y \in Nodes, Live(x, y)' PROVE Alive(x, y)'
    <3>1. Alive(x, y) /\ ~HelloPending(y, x)
      BY <2>1, <2>4 DEF FloodInv, Live, HelloPending, InFlight
    <3> QED BY <1>1, <2>1, <3>1 DEF Alive
  <2>5. /\ UsedOnce' /\ \A a \in Nodes : OwnRestored(a)'
        /\ \A x, y \in Nodes : Live(x, y)' => Passed(x, y)' /\ Exact(x, y)'
    BY <1>1, <1>2, <2>1, <2>3, FloodKept
  <2> QED BY <2>2, <2>3, <2>4, <2>5 DEF FloodInv
<1>7. ASSUME NEW a \in Nodes, NEW b \in Nodes, NEW isUp \in BOOLEAN, LinkOperation(a, b, isUp)
      PROVE  FloodInv'
  <2>1. PICK newUp :
          /\ SetInterfaces(newUp)
          /\ newUp = [n \in Nodes |->
               LET ends == {a, b} \ {n}
               IN  IF n \notin {a, b} THEN up[n]
                   ELSE IF isUp THEN up[n] \cup ends ELSE up[n] \ ends]
    BY <1>7 DEF LinkOperation
  <2>2. \A x \in Nodes : x \in newUp[x] => x \in up[x]
    BY <2>1
  <2> QED BY <1>4, <2>1, <2>2
<1>8. ASSUME NEW a \in Nodes, NEW isUp \in BOOLEAN, AllInterfacesOperation(a, isUp)
      PROVE  FloodInv'
  <2>1. PICK newUp :
          SetInterfaces(newUp) /\ newUp = [up EXCEPT ![a] = IF isUp THEN Adjacent(a) ELSE {}]
    BY <1>8 DEF AllInterfacesOperation
  <2>2. \A x \in Nodes : x \in newUp[x] => x \in up[x]
    BY <2>1 DEF IInv, LiveTypeOK, SimTypeOK, Adjacent
  <2> QED BY <1>4, <2>1, <2>2
<1> QED BY <1>3, <1>5, <1>6, <1>7, <1>8 DEF SimNext

(* One step of the protocol.                                               *)
LEMMA FloodStep ==
  ASSUME Orderly, Commands \subseteq {"PING"}, IInv, IInv', HopInv, HelloInv, FloodInv, NeighborsSettled, Unwrapped,
         [JoinsNoParts]_liveVars, [Step]_liveVars
  PROVE  FloodInv'
<1>1. CASE Receive
  BY <1>1, FloodRefresh, FloodDiscover, FloodProcess DEF Receive, ProcessHelloReq
<1>2. ASSUME NEW n \in Nodes, AuditHellos(n) PROVE FloodInv'
  BY <1>2, FloodAudit
<1>3. ASSUME UNCHANGED <<up, net, due, age, neighborTable, heard, lsTable, sent>>,
             \A a \in Nodes : seq'[a] \in Nat /\ seq'[a] >= seq[a]
      PROVE  FloodInv'
  <2>1. UNCHANGED <<up, net, due, age, neighborTable, heard, lsTable, sent>>
    BY <1>3
  <2>2. KeepsMessages /\ FreshPackets' = FreshPackets
    BY <2>1 DEF KeepsMessages, FreshPackets
  <2>3. \A a \in Nodes : seq'[a] \in Nat /\ seq'[a] >= seq[a]
    BY <1>3
  <2>4. \A x, y \in Nodes : Live(x, y)' => Alive(x, y)'
    BY <2>1 DEF FloodInv, Live, Alive, HelloPending
  <2>5. /\ UsedOnce' /\ \A a \in Nodes : OwnRestored(a)'
        /\ \A x, y \in Nodes : Live(x, y)' => Passed(x, y)' /\ Exact(x, y)'
    BY <2>1, <2>2, <2>3, FloodKept
  <2> QED BY <2>1, <2>2, <2>4, <2>5 DEF FloodInv
<1>4. CASE UNCHANGED liveVars
  <2>1. UNCHANGED <<up, net, due, age, seq, neighborTable, heard, lsTable, sent>>
    BY <1>4 DEF liveVars, simVars, lsVars
  <2> QED BY <1>3, <2>1, TableNumbers DEF FloodInv
<1>5. ASSUME NEW n \in Nodes, ProcessCommand(n) PROVE FloodInv'
  <2>1. /\ UNCHANGED <<up, net, due, age, neighborTable, heard, lsTable, sent>>
        /\ seq' = [seq EXCEPT ![n] = GetNextSequenceNumber(@)]
    BY <1>5 DEF ProcessCommand, clock
  <2>2. /\ seq \in [Nodes -> SeqNums] /\ \A a \in Nodes : seq[a] \in Nat
        /\ GetNextSequenceNumber(seq[n]) = seq[n] + 1
    BY NextNumbers DEF IInv, LiveTypeOK
  <2>3. \A a \in Nodes : seq'[a] \in Nat /\ seq'[a] >= seq[a]
    BY <2>1, <2>2
  <2> QED BY <1>3, <2>1, <2>3
<1>6. CASE SimNext /\ UNCHANGED lsVars
  <2>1. JoinsNoParts \/ UNCHANGED liveVars
    OBVIOUS
  <2> QED BY <1>4, <1>6, <2>1, FloodSim
<1> QED BY <1>1, <1>2, <1>4, <1>5, <1>6 DEF Step

(* In an idle network links may fail at any time; in a settled one, links  *)
(* may come up between nodes that can reach each other already. Then,      *)
(* three hello periods after the last command, every routing table holds   *)
(* exactly the shortest paths over the working links: in every topology,   *)
(* whatever the order in which the copies of the floods arrive and however *)
(* many there are, as long as no sequence number wraps around and nobody   *)
(* issues HELLO and LSTABLEMSG commands. (When a link joins parts that did *)
(* not know each other, neither hears of what the other flooded before.)   *)
THEOREM FloodingConverges ==
  ASSUME Orderly, Commands \subseteq {"PING"}
  PROVE  Spec /\ []Unwrapped /\ [][JoinsNoParts]_vars => []RoutesAreShortestPaths
<1> DEFINE Inv == IInv /\ HopInv /\ HelloInv /\ FloodInv
<1>1. Init => Inv
  BY InitIInv, HopInvInit, HelloInvInit, FloodInit
<1>2. Inv /\ NeighborsSettled /\ Unwrapped /\ [JoinsNoParts]_liveVars /\ [Step]_liveVars => Inv'
  BY NextIInv, HopStep, HelloStep, FloodStep
<1>3. Inv /\ NeighborsSettled => (Settled => \A n \in Nodes : Informed(n))
  BY FloodInformed
<1>4. InformedRoutes /\ (Settled => \A n \in Nodes : Informed(n)) => RoutesAreShortestPaths
  BY DEF InformedRoutes, RoutesAreShortestPaths, Settled
<1>5. [JoinsNoParts]_vars => [JoinsNoParts]_liveVars
  BY DEF vars
<1>6. Spec /\ []Unwrapped /\ [][JoinsNoParts]_vars => []Inv
  BY <1>1, <1>2, <1>5, Discovery, SpecSteps, PTL
<1> QED BY <1>3, <1>4, <1>6, Discovery, Informing, PTL

(***************************************************************************)
(* Packets of the application, in a network whose tables have settled.     *)
(***************************************************************************)
DataPackets ==
  [status : {"transit", "delivered", "dropped"}, src : Nodes, dst : Nodes,
   from : Nodes, at : Nodes, ttl : Int, hops : Nat, settled : BOOLEAN]

(* On its way, a packet that was sent to a settled network still finds it  *)
(* settled, came over a link that works, and is as many hops closer to its *)
(* destination as it has travelled and as its TTL has lost.                *)
OnShortestPath(p) ==
  LET D(x) == Distance(LiveLinks, x, p.dst)
  IN  /\ p.status = "transit" =>
           /\ Settled
           /\ p.from \in up[p.at]
           /\ p.hops >= 1 /\ p.ttl = TTL - p.hops
           /\ D(p.src) \in 0 .. Cardinality(Nodes) /\ D(p.at) \in 0 .. Cardinality(Nodes)
           /\ p.hops + D(p.at) = D(p.src)
      /\ p.status = "delivered" => p.hops = D(p.src)
      /\ p.status = "dropped" => D(p.src) = INF

DeliveryInv ==
  \/ packet = Data!Idle
  \/ /\ packet \in DataPackets
     /\ packet.settled => OnShortestPath(packet)

(* Forwarding means the same distances.                                    *)
LEMMA SameDistances ==
  /\ Data!NoNode = NoNode /\ Data!INF = INF
  /\ \A g, a, b : Data!Distance(g, a, b) = Distance(g, a, b)
<1>1. Data!NoNode = NoNode
  BY DEF Data!NoNode, NoNode
<1>2. Data!INF = INF
  BY SMT DEF Data!INF, INF
<1>3. ASSUME NEW g, NEW a PROVE Data!Ball(g, a) = Ball(g, a)
  BY DEF Data!Ball, Ball
<1>4. ASSUME NEW S PROVE Data!Cardinality(S) = Cardinality(S)
  BY DEF Data!Cardinality, Cardinality
<1>5. ASSUME NEW g, NEW a, NEW b PROVE Data!Distance(g, a, b) = Distance(g, a, b)
  <2> DEFINE R == {k \in 0 .. Cardinality(DOMAIN g) : b \in Ball(g, a)[k]}
             Q == {k \in 0 .. Data!Cardinality(DOMAIN g) : b \in Data!Ball(g, a)[k]}
             Least(T) == CHOOSE k \in T : \A j \in T : k <= j
  <2>1. R = Q
    BY <1>3, <1>4
  <2>2. Distance(g, a, b) = IF R = {} THEN INF ELSE Least(R)
    BY DEF Distance
  <2>3. Data!Distance(g, a, b) = IF Q = {} THEN Data!INF ELSE Least(Q)
    BY DEF Data!Distance
  <2> HIDE DEF R, Q, Least
  <2> QED BY <1>2, <2>1, <2>2, <2>3
<1> QED BY <1>1, <1>2, <1>5

LEMMA LiveGraph ==
  ASSUME SimTypeOK
  PROVE  /\ LiveLinks \in GraphsOn(Nodes) /\ IsFiniteSet(Nodes) /\ Cardinality(Nodes) \in Nat
         /\ Data!LiveLinks = LiveLinks
<1>1. LiveLinks \in GraphsOn(Nodes) /\ IsFiniteSet(Nodes)
  BY NodesAssumption DEF LiveLinks, GraphsOn
<1>2. Cardinality(Nodes) \in Nat
  BY <1>1, FS_CardinalityType
<1>3. Data!LiveLinks = LiveLinks
  BY DEF Data!LiveLinks, LiveLinks, Live
<1> QED BY <1>1, <1>2, <1>3

(* A table that shows the shortest paths sends every packet that can       *)
(* arrive over a working link to a node one hop closer.                    *)
LEMMA SettledRoute ==
  ASSUME IInv, RoutesUseNeighbors, RoutesAreShortestPaths, Settled,
         Cardinality(Nodes) < INF - 1, NEW n \in Nodes, NEW d \in Nodes, n # d
  PROVE  LET hop  == Data!SearchTable(n, d)
             D(x) == Distance(LiveLinks, x, d)
         IN  \/ hop = NoNode /\ D(n) = INF
             \/ /\ hop \in Nodes /\ hop # NoNode /\ hop \in up[n] /\ n \in up[hop]
                /\ D(n) \in 1 .. Cardinality(Nodes) /\ D(hop) \in 0 .. Cardinality(Nodes)
                /\ D(hop) + 1 = D(n)
<1> DEFINE r == routingTable[n][d]
           hop == r.interface
           D(x) == Distance(LiveLinks, x, d)
           C == Cardinality(Nodes)
<1>1. Data!SearchTable(n, d) = hop
  BY DEF Data!SearchTable
<1>2. SimTypeOK /\ neighborTable[n] \subseteq Nodes
  BY DEF IInv, LiveTypeOK
<1>3. /\ LiveLinks \in GraphsOn(Nodes) /\ IsFiniteSet(Nodes) /\ C \in Nat
  BY <1>2, LiveGraph
<1>4. r.cost = D(n) /\ (r # NoRoute => Live(n, r.nextHop) /\ D(r.nextHop) = r.cost - 1)
  BY DEF RoutesAreShortestPaths, ShortestRoutes, Settled
<1>5. \A x \in Nodes : D(x) \in 0 .. C \cup {INF}
  BY <1>3, DistanceRange
<1>6. INF \in Nat /\ 16 < INF
  BY SMT DEF INF
<1>7. r # NoRoute => hop = r.nextHop /\ hop \in Nodes
  BY <1>2 DEF RoutesUseNeighbors
<1> HIDE DEF D, C, r
<1>8. CASE r = NoRoute
  <2>1. hop = NoNode /\ r.cost = INF
    BY <1>8 DEF NoRoute
  <2> QED BY <1>1, <1>4, <2>1 DEF D
<1>9. CASE r # NoRoute
  <2>1. hop \in Nodes /\ hop # NoNode
    BY <1>7, <1>9, NodesAssumption DEF NoNode
  <2>2. Live(n, hop) /\ D(hop) = D(n) - 1
    BY <1>4, <1>7, <1>9
  <2>3. D(hop) \in 0 .. C \cup {INF} /\ D(n) \in 0 .. C \cup {INF}
    BY <1>5, <2>1
  <2>4. D(n) \in 1 .. C /\ D(hop) \in 0 .. C /\ D(hop) + 1 = D(n)
    BY <1>3, <1>6, <2>2, <2>3 DEF C
  <2> QED BY <1>1, <2>1, <2>2, <2>4 DEF D, C, Live
<1> QED BY <1>8, <1>9

(* A packet that is sent out has its type, whatever the tables say.        *)
LEMMA TransmitType ==
  ASSUME IInv, NEW p \in DataPackets, NEW n \in Nodes, NEW hop
  PROVE  /\ Data!Transmit(p, n, hop) \in DataPackets
         /\ Data!Transmit(p, n, hop).settled = p.settled
<1>1. up[n] \subseteq Nodes
  BY DEF IInv, LiveTypeOK, SimTypeOK
<1>2. CASE hop \in up[n]
  <2>1. Data!Transmit(p, n, hop) =
          [p EXCEPT !.from = n, !.at = hop, !.ttl = p.ttl - 1, !.hops = p.hops + 1]
    BY <1>2 DEF Data!Transmit
  <2>2. p.ttl - 1 \in Int /\ p.hops + 1 \in Nat /\ hop \in Nodes
    BY <1>1, <1>2 DEF DataPackets
  <2> QED BY <2>1, <2>2 DEF DataPackets
<1>3. CASE hop \notin up[n]
  BY <1>3 DEF Data!Transmit, DataPackets
<1> QED BY <1>2, <1>3

LEMMA DeliverySend ==
  ASSUME IInv, RoutesUseNeighbors, RoutesAreShortestPaths, TTL \in 0 .. 255, Cardinality(Nodes) <= TTL,
         SendPacket
  PROVE  DeliveryInv'
<1> DEFINE settled == Idle /\ age = Drain
<1>1. PICK s \in Nodes, d \in Nodes : s # d /\ Data!Send(s, d, settled) /\ UNCHANGED vars
  BY DEF SendPacket
<1> DEFINE p == [status |-> "transit", src |-> s, dst |-> d, from |-> s, at |-> s,
                 ttl |-> TTL, hops |-> 0, settled |-> settled]
           hop == Data!SearchTable(s, d)
           C == Cardinality(Nodes)
           D(x) == Distance(LiveLinks, x, d)
<1>2. packet' = Data!Transmit(p, s, hop)
  BY <1>1 DEF Data!Send, Data!RouteOutput
<1>3. p \in DataPackets
  BY DEF DataPackets
<1>4. packet' \in DataPackets /\ packet'.settled = settled
  <2> HIDE DEF p, hop
  <2> QED BY <1>2, <1>3, TransmitType DEF p
<1>5. UNCHANGED <<up, net, due, calm, age>> /\ LiveLinks' = LiveLinks
  BY <1>1 DEF vars, liveVars, simVars, LiveLinks, Live
<1>6. SimTypeOK /\ C \in Nat /\ C < INF - 1
  <2>1. SimTypeOK
    BY DEF IInv, LiveTypeOK
  <2>2. INF \in Nat /\ 256 < INF
    BY SMT DEF INF
  <2>3. C \in Nat
    BY <2>1, LiveGraph
  <2> QED BY <2>1, <2>2, <2>3
<1>7. ASSUME settled PROVE OnShortestPath(packet)'
  <2>1. \/ hop = NoNode /\ D(s) = INF
        \/ /\ hop \in Nodes /\ hop # NoNode /\ hop \in up[s] /\ s \in up[hop]
           /\ D(s) \in 1 .. C /\ D(hop) \in 0 .. C /\ D(hop) + 1 = D(s)
    BY <1>1, <1>6, <1>7, SettledRoute DEF Settled
  <2>2. NoNode \notin up[s]
    BY <1>6, NodesAssumption DEF SimTypeOK, NoNode
  <2>3. CASE hop = NoNode /\ D(s) = INF
    <3>1. packet' = [p EXCEPT !.status = "dropped"]
      BY <1>2, <2>2, <2>3 DEF Data!Transmit
    <3>2. packet'.status = "dropped" /\ packet'.src = s /\ packet'.dst = d
      BY <3>1
    <3> QED BY <1>5, <2>3, <3>2 DEF OnShortestPath
  <2>4. CASE /\ hop \in Nodes /\ hop # NoNode /\ hop \in up[s] /\ s \in up[hop]
             /\ D(s) \in 1 .. C /\ D(hop) \in 0 .. C /\ D(hop) + 1 = D(s)
    <3>1. packet' = [p EXCEPT !.from = s, !.at = hop, !.ttl = TTL - 1, !.hops = 0 + 1]
      <4> HIDE DEF hop
      <4> QED BY <1>2, <2>4 DEF Data!Transmit
    <3> HIDE DEF hop
    <3>2. /\ packet'.status = "transit" /\ packet'.src = s /\ packet'.dst = d
          /\ packet'.from = s /\ packet'.at = hop /\ packet'.ttl = TTL - 1 /\ packet'.hops = 1
      BY <3>1
    <3>3. Settled'
      BY <1>5, <1>7 DEF Settled, Idle
    <3> HIDE DEF D, C
    <3>4. /\ packet'.hops >= 1 /\ packet'.ttl = TTL - packet'.hops
          /\ D(s) \in 0 .. C /\ D(hop) \in 0 .. C
          /\ packet'.hops + D(hop) = D(s)
      BY <1>6, <2>4, <3>2
    <3>5. s \in up'[hop]
      BY <1>5, <2>4
    <3> QED BY <1>5, <3>2, <3>3, <3>4, <3>5 DEF OnShortestPath, D, C
  <2> QED BY <2>1, <2>3, <2>4
<1> QED BY <1>4, <1>7 DEF DeliveryInv

LEMMA DeliveryReceive ==
  ASSUME IInv, RoutesUseNeighbors, RoutesAreShortestPaths, TTL \in 0 .. 255, Cardinality(Nodes) <= TTL,
         DeliveryInv, ReceivePacket
  PROVE  DeliveryInv'
<1> DEFINE p == packet
           r == packet.at
           d == packet.dst
           hop == Data!RouteInput(r, d)
           C == Cardinality(Nodes)
           D(x) == Distance(LiveLinks, x, d)
<1>1. UNCHANGED vars /\ Data!Receive
  BY DEF ReceivePacket
<1>2. p \in DataPackets /\ p.status = "transit" /\ (p.settled => OnShortestPath(p))
  BY <1>1 DEF DeliveryInv, Data!Receive, Data!InTransit, Data!Idle
<1>3. packet' = IF p.from \notin up[r] THEN [p EXCEPT !.status = "dropped"]
                ELSE IF r = d THEN [p EXCEPT !.status = "delivered"]
                ELSE IF r = p.src \/ p.ttl = 0 THEN [p EXCEPT !.status = "dropped"]
                ELSE Data!Transmit(p, r, hop)
  BY <1>1 DEF Data!Receive
<1>4. /\ r \in Nodes /\ d \in Nodes /\ p.src \in Nodes /\ p.settled \in BOOLEAN
      /\ p.hops \in Nat /\ p.ttl \in Int
  BY <1>2 DEF DataPackets
<1> HIDE DEF hop
<1>5. packet' \in DataPackets /\ packet'.settled = p.settled
  <2>1. ASSUME NEW x \in {"delivered", "dropped"}
        PROVE  [p EXCEPT !.status = x] \in DataPackets /\ [p EXCEPT !.status = x].settled = p.settled
    BY <1>2 DEF DataPackets
  <2>2. Data!Transmit(p, r, hop) \in DataPackets /\ Data!Transmit(p, r, hop).settled = p.settled
    BY <1>2, <1>4, TransmitType
  <2> QED BY <1>3, <2>1, <2>2
<1>6. UNCHANGED <<up, net, due, calm, age>> /\ LiveLinks' = LiveLinks
  BY <1>1 DEF vars, liveVars, simVars, LiveLinks, Live
<1>7. SimTypeOK /\ C \in Nat /\ C < INF - 1
  <2>1. SimTypeOK
    BY DEF IInv, LiveTypeOK
  <2>2. INF \in Nat /\ 256 < INF
    BY SMT DEF INF
  <2>3. C \in Nat
    BY <2>1, LiveGraph
  <2> QED BY <2>1, <2>2, <2>3
<1>8. ASSUME p.settled PROVE OnShortestPath(packet)'
  <2>1. /\ Settled /\ p.from \in up[r]
        /\ p.hops >= 1 /\ p.ttl = TTL - p.hops
        /\ D(p.src) \in 0 .. C /\ D(r) \in 0 .. C
        /\ p.hops + D(r) = D(p.src)
    BY <1>2, <1>8 DEF OnShortestPath
  <2>2. CASE r = d
    <3>1. packet' = [p EXCEPT !.status = "delivered"]
      BY <1>3, <2>1, <2>2
    <3>2. packet'.status = "delivered" /\ packet'.src = p.src /\ packet'.dst = d
          /\ packet'.hops = p.hops
      BY <1>2, <3>1 DEF DataPackets
    <3>3. D(r) = 0
      BY <1>4, <1>7, <2>2, LiveGraph, DistanceRange
    <3> HIDE DEF D
    <3>4. p.hops = D(p.src)
      BY <1>4, <1>7, <2>1, <3>3
    <3> QED BY <1>6, <3>2, <3>4 DEF OnShortestPath, D
  <2>3. CASE r # d
    <3>1. LET h == Data!SearchTable(r, d)
          IN  \/ h = NoNode /\ D(r) = INF
              \/ /\ h \in Nodes /\ h # NoNode /\ h \in up[r] /\ r \in up[h]
                 /\ D(r) \in 1 .. C /\ D(h) \in 0 .. C /\ D(h) + 1 = D(r)
      BY <1>4, <1>7, <2>1, <2>3, SettledRoute
    <3>2. /\ hop \in Nodes /\ hop \in up[r] /\ r \in up[hop]
          /\ D(r) \in 1 .. C /\ D(hop) \in 0 .. C /\ D(hop) + 1 = D(r)
      <4>1. D(r) # INF
        <5> HIDE DEF D, C
        <5> QED BY <1>7, <2>1
      <4> QED BY <3>1, <4>1, SameDistances DEF hop, Data!RouteInput
    <3>3. r # p.src /\ p.ttl # 0
      <4>1. ASSUME r = p.src PROVE FALSE
        <5>1. p.hops + D(r) = D(r) /\ D(r) \in Nat
          BY <2>1, <4>1, <1>7
        <5> HIDE DEF D
        <5> QED BY <1>4, <2>1, <5>1
      <4>2. p.ttl # 0
        <5> HIDE DEF D, C
        <5> QED BY <1>4, <1>7, <2>1, <3>2 DEF C
      <4> QED BY <4>1, <4>2
    <3>4. packet' = [p EXCEPT !.from = r, !.at = hop, !.ttl = p.ttl - 1, !.hops = p.hops + 1]
      BY <1>3, <2>1, <2>3, <3>2, <3>3 DEF Data!Transmit
    <3>5. /\ packet'.status = "transit" /\ packet'.src = p.src /\ packet'.dst = d
          /\ packet'.from = r /\ packet'.at = hop
          /\ packet'.ttl = p.ttl - 1 /\ packet'.hops = p.hops + 1
      BY <1>2, <3>4 DEF DataPackets
    <3>6. Settled'
      BY <1>6, <2>1 DEF Settled, Idle
    <3>7. /\ packet'.hops >= 1 /\ packet'.ttl = TTL - packet'.hops
          /\ D(p.src) \in 0 .. C /\ D(hop) \in 0 .. C
          /\ packet'.hops + D(hop) = D(p.src)
      <4> HIDE DEF D, C, r
      <4> QED BY <1>4, <1>7, <2>1, <3>2, <3>5
    <3>8. r \in up'[hop]
      BY <1>6, <3>2
    <3> QED BY <1>6, <3>5, <3>6, <3>7, <3>8 DEF OnShortestPath
  <2> QED BY <2>2, <2>3
<1> QED BY <1>5, <1>8 DEF DeliveryInv

(* While the packet travels, nothing but a LINK command can disturb a      *)
(* network that has settled.                                               *)
LEMMA DeliveryProtocol ==
  ASSUME Commands \subseteq {"PING"}, IInv, DeliveryInv, ProtocolStep
  PROVE  DeliveryInv'
<1>1. CASE ~Data!InTransit
  BY <1>1 DEF ProtocolStep, DeliveryInv
<1>2. CASE Data!InTransit /\ up' # up
  <2>1. packet' = [packet EXCEPT !.settled = FALSE]
    BY <1>2 DEF ProtocolStep, Data!Unsettled
  <2>2. packet \in DataPackets
    BY <1>2 DEF DeliveryInv, Data!InTransit, Data!Idle
  <2>3. packet' \in DataPackets /\ ~packet'.settled
    BY <2>1, <2>2 DEF DataPackets
  <2> QED BY <2>3 DEF DeliveryInv
<1>3. CASE Data!InTransit /\ up' = up
  <2>1. packet' = packet /\ due' = {} /\ (Step \/ UNCHANGED liveVars)
    BY <1>3 DEF ProtocolStep, Next, Survives, AuditCrash
  <2>2. packet \in DataPackets /\ packet.status = "transit"
    BY <1>3 DEF DeliveryInv, Data!InTransit, Data!Idle
  <2>3. LiveLinks' = LiveLinks
    BY <1>3 DEF LiveLinks, Live
  <2>4. Settled => Settled'
    <3> SUFFICES ASSUME Settled PROVE Settled'
      OBVIOUS
    <3>1. net = <<>> /\ due = {} /\ calm /\ age = Drain
      BY DEF Settled, Idle
    <3>2. ~Receive
      BY <3>1 DEF Receive
    <3>3. ASSUME NEW n \in Nodes, AuditHellos(n) PROVE FALSE
      BY <3>1, <3>3 DEF AuditHellos, FirstDue
    <3>4. ASSUME (\E n \in Nodes : ProcessCommand(n)) \/ UNCHANGED liveVars PROVE Settled'
      <4>1. UNCHANGED <<net, due, calm, age>>
        BY <3>4 DEF ProcessCommand, clock, liveVars, simVars
      <4> QED BY <3>1, <4>1 DEF Settled, Idle
    <3>5. ~ \E i \in 1 .. Len(net), x \in Nodes : DropPacket(i, x)
      BY <3>1
    <3>6. ASSUME NEW newUp, SetInterfaces(newUp) PROVE FALSE
      BY <1>3, <3>6 DEF SetInterfaces
    <3>7. ~HelloInstant
      <4>1. HelloInstant => Nodes = {}
        BY <2>1 DEF HelloInstant
      <4>2. packet.at \in Nodes
        BY <2>2 DEF DataPackets
      <4> QED BY <4>1, <4>2
    <3>8. ~Settle
      BY <3>1 DEF Settle
    <3> QED BY <2>1, <3>2, <3>3, <3>4, <3>5, <3>6, <3>7, <3>8
            DEF Step, SimNext, LinkOperation, AllInterfacesOperation
  <2>5. packet.settled => OnShortestPath(packet)'
    BY <1>3, <2>1, <2>2, <2>3, <2>4 DEF DeliveryInv, OnShortestPath, Data!Idle
  <2> QED BY <2>1, <2>2, <2>5 DEF DeliveryInv
<1> QED BY <1>1, <1>2, <1>3

(* End to end: whenever the tables show the shortest paths in a settled    *)
(* network, a packet that is sent to one reaches its destination over a    *)
(* shortest path, and is dropped only if there is none; in every network   *)
(* whose paths the TTL of the IP header suffices for, without HELLO and    *)
(* LSTABLEMSG commands.                                                    *)
THEOREM Delivery ==
  ASSUME Commands \subseteq {"PING"}, TTL \in 0 .. 255, Cardinality(Nodes) <= TTL
  PROVE  DataSpec /\ []RoutesAreShortestPaths => []PacketsDelivered
<1>1. packet = Data!Idle => DeliveryInv
  BY DEF DeliveryInv
<1>2. DataSpec => Spec
  <2>1. [DataNext]_<<vars, packet>> => [Next]_vars
    BY DEF DataNext, SendPacket, ReceivePacket, ProtocolStep
  <2> QED BY <2>1, PTL DEF DataSpec, Spec
<1>3. Spec => [](IInv /\ RoutesUseNeighbors)
  BY Invariance, NextHops, PTL
<1>4. /\ IInv /\ RoutesUseNeighbors /\ RoutesAreShortestPaths
      /\ DeliveryInv /\ [DataNext]_<<vars, packet>>
      => DeliveryInv'
  <2> SUFFICES ASSUME IInv, RoutesUseNeighbors, RoutesAreShortestPaths, DeliveryInv,
                      [DataNext]_<<vars, packet>>
               PROVE  DeliveryInv'
    OBVIOUS
  <2>1. CASE SendPacket
    BY <2>1, DeliverySend
  <2>2. CASE ReceivePacket
    BY <2>2, DeliveryReceive
  <2>3. CASE ProtocolStep
    BY <2>3, DeliveryProtocol
  <2>4. CASE UNCHANGED <<vars, packet>>
    <3>1. packet' = packet /\ UNCHANGED <<up, net, due, calm, age>> /\ LiveLinks' = LiveLinks
      BY <2>4 DEF vars, liveVars, simVars, LiveLinks, Live
    <3> QED BY <3>1 DEF DeliveryInv, OnShortestPath, Settled, Idle
  <2> QED BY <2>1, <2>2, <2>3, <2>4 DEF DataNext
<1>5. IInv /\ DeliveryInv => PacketsDelivered
  <2> SUFFICES ASSUME IInv, DeliveryInv PROVE PacketsDelivered
    OBVIOUS
  <2>1. Data!LiveLinks = LiveLinks
    BY LiveGraph DEF IInv, LiveTypeOK
  <2> QED BY <2>1, SameDistances
       DEF DeliveryInv, OnShortestPath, PacketsDelivered, Data!SettledDelivery
<1> QED BY <1>1, <1>2, <1>3, <1>4, <1>5, PTL DEF DataSpec

(* The same without a hypothesis about the tables, where FloodingConverges *)
(* has none: no link joins parts of the network that did not know each     *)
(* other, and no sequence number wraps around.                             *)
THEOREM FloodingDelivers ==
  ASSUME Orderly, Commands \subseteq {"PING"}, TTL \in 0 .. 255, Cardinality(Nodes) <= TTL
  PROVE  DataSpec /\ []Unwrapped /\ [][JoinsNoParts]_vars => []PacketsDelivered
<1>1. DataNext \/ UNCHANGED <<vars, packet>> => [Next]_vars
  BY DEF DataNext, SendPacket, ReceivePacket, ProtocolStep
<1>2. DataSpec => Spec
  BY <1>1, PTL DEF DataSpec, Spec
<1> QED BY <1>2, FloodingConverges, Delivery, PTL
=============================================================================
