------------------------------ MODULE LSRouting ------------------------------
(***************************************************************************)
(* The link-state protocol of ls-routing-protocol.cc: neighbour discovery  *)
(* with hellos, flooding of LS_TABLE_MSG with sequence numbers, and the    *)
(* routing table that Dijkstra() computes from m_lsTable.                  *)
(*                                                                         *)
(* The TTL is carried and decremented but never tested, so it is left out. *)
(* `sent' is a history variable: no action reads it.                       *)
(***************************************************************************)
EXTENDS Simulation, LSTables

CONSTANTS
  InitSeqs,   \* the random initial sequence numbers
  Commands,   \* the protocol commands that the scenario issues
  MaxCmds     \* bound: how many it issues

ASSUME InitSeqsAssumption == InitSeqs \subseteq SeqNums
ASSUME CmdsAssumption ==
  Commands \subseteq {"HELLO", "LSTABLEMSG", "PING"} /\ MaxCmds \in Nat

VARIABLES
  seq,            \* m_currentSequenceNumber
  neighborTable,  \* keys of m_neighborTable
  heard,          \* neighbours whose lastUpdated is after the last instant
  lsTable,        \* m_lsTable
  routingTable,   \* m_routingTable
  cmds,           \* commands so far
  sent,           \* history: every LS_TABLE_MSG ever originated
  crashed         \* the process has died

lsVars == <<seq, neighborTable, heard, lsTable, routingTable, cmds, sent>>
liveVars == <<simVars, lsVars>>
vars == <<liveVars, crashed>>

HelloMessages == [type : {"HELLO_REQ"}, orig : Nodes, seq : SeqNums]
LSMessages ==
  [type : {"LS_TABLE_MSG"}, orig : Nodes, seq : SeqNums, nbrs : SUBSET Nodes]
Messages == HelloMessages \cup LSMessages
Packets == [from : Nodes, to : SUBSET Nodes, msg : Messages]

(***************************************************************************)
(* Sending.                                                                *)
(***************************************************************************)
(* Wrong variant: a counter that never wraps around.                       *)
UnboundedSequenceNumber(s) == s + 1

GetNextSequenceNumber(s) == (s + 1) % SeqLimit

SendHello(n, s) ==
  BroadcastPacket(n, [type |-> "HELLO_REQ", orig |-> n, seq |-> s])

(* Wrong variant: the message is made before the neighbour table changes.  *)
EarlyTableMessage(n, s, nbrs) ==
  [type |-> "LS_TABLE_MSG", orig |-> n, seq |-> s, nbrs |-> neighborTable[n]]

LSTableMessage(n, s, nbrs) ==
  [type |-> "LS_TABLE_MSG", orig |-> n, seq |-> s, nbrs |-> nbrs]

(***************************************************************************)
(* Receiving: RecvLSMessage dispatches the packet with index i that        *)
(* arrives at n.                                                           *)
(***************************************************************************)
Receives(n, i, type) ==
  /\ Arrives(i, n)
  /\ net[i].from \in up[n]
  /\ net[i].msg.type = type

(* Wrong variant: the routes are computed before the tables change.        *)
StaleRoutes(n) ==
  \E stray \in BOOLEAN :
    routingTable' = [routingTable EXCEPT
      ![n] = Dijkstra(n, lsTable[n], neighborTable[n], stray)]

UpdateRoutes(n) ==
  \E stray \in BOOLEAN :
    routingTable' = [routingTable EXCEPT
      ![n] = Dijkstra(n, lsTable'[n], neighborTable'[n], stray)]

RefreshNeighbor(n, i) ==
  /\ Receives(n, i, "HELLO_REQ")
  /\ net[i].msg.orig \in neighborTable[n]
  /\ heard' = [heard EXCEPT ![n] = @ \cup {net[i].msg.orig}]
  /\ net' = InFlightWithout(i, n)
  /\ UNCHANGED <<up, clock, ops, seq, neighborTable, lsTable, routingTable, cmds, sent>>

(* The first entry a node makes for itself takes the sequence number of    *)
(* the hello it heard, which is the neighbour's.                           *)
AddOwnLink(entry, m) ==
  IF entry # NoEntry
  THEN [entry EXCEPT !.neighborCosts = push_back(@, m.orig)]
  ELSE [neighborCosts |-> CostsOf({m.orig}), sequenceNumber |-> m.seq]

DiscoverNeighbor(n, i) ==
  LET m == net[i].msg
      lsa == LSTableMessage(n, seq[n], neighborTable'[n])
  IN  /\ Receives(n, i, "HELLO_REQ")
      /\ m.orig \notin neighborTable[n]
      /\ neighborTable' = [neighborTable EXCEPT ![n] = @ \cup {m.orig}]
      /\ heard' = [heard EXCEPT ![n] = @ \cup {m.orig}]
      /\ lsTable' = [lsTable EXCEPT ![n][n] = AddOwnLink(@, m)]
      /\ UpdateRoutes(n)
      /\ seq' = [seq EXCEPT ![n] = GetNextSequenceNumber(@)]
      /\ net' = InFlightWithout(i, n) \o BroadcastPacket(n, lsa)
      /\ sent' = sent \cup {lsa}
      /\ UNCHANGED <<up, clock, ops, cmds>>

ProcessHelloReq(n, i) == RefreshNeighbor(n, i) \/ DiscoverNeighbor(n, i)

(* Wrong variants of the comparison of sequence numbers; in the last one,  *)
(* messages of origins that have no entry yet are ignored.                 *)
IsDifferent(table, m) ==
  table[m.orig] = NoEntry \/ m.seq # table[m.orig].sequenceNumber
IsNotOlder(table, m) ==
  table[m.orig] = NoEntry \/ m.seq >= table[m.orig].sequenceNumber
IsNewerThanKnown(table, m) ==
  table[m.orig] # NoEntry /\ m.seq > table[m.orig].sequenceNumber

IsNewer(table, m) ==
  \/ table[m.orig] = NoEntry
  \/ m.seq > table[m.orig].sequenceNumber

ProcessLSTableMessage(n, i) ==
  LET m == net[i].msg
  IN  /\ Receives(n, i, "LS_TABLE_MSG")
      /\ \/ /\ IsNewer(lsTable[n], m)
            /\ lsTable' = [lsTable EXCEPT ![n][m.orig] =
                 [neighborCosts |-> CostsOf(m.nbrs), sequenceNumber |-> m.seq]]
            /\ UNCHANGED neighborTable
            /\ UpdateRoutes(n)
            /\ net' = InFlightWithout(i, n) \o BroadcastPacket(n, m)
         \/ /\ ~IsNewer(lsTable[n], m)
            /\ net' = InFlightWithout(i, n)
            /\ UNCHANGED <<lsTable, neighborTable, routingTable>>
      /\ UNCHANGED <<up, clock, ops, seq, heard, cmds, sent>>

(***************************************************************************)
(* The hello timer.  A neighbour not heard since the previous instant has  *)
(* expired; its links are taken out of both entries before the tables are  *)
(* recomputed.  When the neighbour's own message never arrived, entry2 is  *)
(* end() and removeLSTableLink is given memory that is not the table's:    *)
(* either it finds nothing there, and the table still has no entry for the *)
(* neighbour (AuditHellos), or the process dies (AuditCrash).              *)
(***************************************************************************)
(* Wrong variant: nothing ever expires.                                    *)
ExpiredNone(n) == {}

Expired(n) == neighborTable[n] \ heard[n]

(* Wrong variants: expired links taken out of every entry; the own entry   *)
(* erased instead of edited.                                               *)
UnlinkEverywhere(n) ==
  [o \in Nodes |->
     IF lsTable[n][o] = NoEntry THEN NoEntry
     ELSE [lsTable[n][o] EXCEPT !.neighborCosts = removeLSTableLink(@, Expired(n))]]
EraseOwnEntry(n) == [lsTable[n] EXCEPT ![n] = NoEntry]

UnlinkExpired(n) ==
  [o \in Nodes |->
     LET entry == lsTable[n][o]
         Unlinked(gone) ==
           [entry EXCEPT !.neighborCosts = removeLSTableLink(@, gone)]
     IN  IF entry = NoEntry THEN NoEntry
         ELSE IF o = n THEN Unlinked(Expired(n))
         ELSE IF o \in Expired(n) THEN Unlinked({n})
         ELSE entry]

AuditHellos(n) ==
  LET s1  == GetNextSequenceNumber(seq[n])
      lsa == LSTableMessage(n, s1, neighborTable'[n])
  IN  /\ FirstDue(n)
      /\ neighborTable' = [neighborTable EXCEPT ![n] = @ \ Expired(n)]
      /\ heard' = [heard EXCEPT ![n] = {}]
      /\ due' = due \ {n}
      /\ \/ /\ Expired(n) # {}
            /\ lsTable' = [lsTable EXCEPT ![n] = UnlinkExpired(n)]
            /\ UpdateRoutes(n)
            /\ seq' = [seq EXCEPT ![n] = GetNextSequenceNumber(s1)]
            /\ net' = net \o SendHello(n, seq[n]) \o BroadcastPacket(n, lsa)
            /\ sent' = sent \cup {lsa}
         \/ /\ Expired(n) = {}
            /\ seq' = [seq EXCEPT ![n] = s1]
            /\ net' = net \o SendHello(n, seq[n])
            /\ UNCHANGED <<lsTable, routingTable, sent>>
      /\ UNCHANGED <<up, calm, round, age, ops, cmds>>

AuditCrash(n) ==
  /\ ~crashed
  /\ FirstDue(n)
  /\ \E m \in Expired(n) : lsTable[n][m] = NoEntry
  /\ crashed' = TRUE
  /\ UNCHANGED liveVars

(***************************************************************************)
(* The commands that change this state.  PING takes a sequence number from *)
(* the same counter; the requests it sends and their tracker are those of  *)
(* TestApp.                                                                *)
(***************************************************************************)
ProcessCommand(n) ==
  LET lsa == LSTableMessage(n, seq[n], neighborTable[n])
  IN  /\ due = {}
      /\ cmds < MaxCmds
      /\ round + Drain <= MaxRounds
      /\ cmds' = cmds + 1
      /\ seq' = [seq EXCEPT ![n] = GetNextSequenceNumber(@)]
      /\ \/ /\ "HELLO" \in Commands
            /\ net' = net \o SendHello(n, seq[n])
            /\ UNCHANGED sent
         \/ /\ "LSTABLEMSG" \in Commands
            /\ net' = net \o BroadcastPacket(n, lsa)
            /\ sent' = sent \cup {lsa}
         \/ /\ "PING" \in Commands
            /\ UNCHANGED <<net, sent>>
      /\ UNCHANGED <<up, clock, ops, neighborTable, heard, lsTable, routingTable>>

Init ==
  /\ SimInit
  /\ seq \in [Nodes -> InitSeqs]
  /\ neighborTable = [n \in Nodes |-> {}]
  /\ heard = [n \in Nodes |-> {}]
  /\ lsTable = [n \in Nodes |-> [o \in Nodes |-> NoEntry]]
  /\ routingTable = [n \in Nodes |-> [d \in Nodes |-> NoRoute]]
  /\ cmds = 0
  /\ sent = {}
  /\ crashed = FALSE

Receive ==
  \E n \in Nodes, i \in 1 .. Len(net) :
    ProcessHelloReq(n, i) \/ ProcessLSTableMessage(n, i)

(* Every step of the process but the one that ends it.                     *)
Step ==
  \/ Receive
  \/ \E n \in Nodes : AuditHellos(n)
  \/ \E n \in Nodes : ProcessCommand(n)
  \/ SimNext /\ UNCHANGED lsVars

Survives(A) == ~crashed /\ A /\ UNCHANGED crashed

Next == Survives(Step) \/ \E n \in Nodes : AuditCrash(n)

(* The simulator runs every event it has queued: packets arrive, timers    *)
(* expire.  Only commands are up to the user.                              *)
Fairness ==
  /\ WF_vars(Survives(Receive))
  /\ WF_vars(\E n \in Nodes : Survives(AuditHellos(n)) \/ AuditCrash(n))
  /\ WF_vars(Survives((\E i \in 1 .. Len(net), r \in Nodes : DropPacket(i, r))
                      /\ UNCHANGED lsVars))
  /\ WF_vars(Survives((Settle \/ HelloInstant) /\ UNCHANGED lsVars))

Spec == Init /\ [][Next]_vars
FairSpec == Spec /\ Fairness

(***************************************************************************)
(* Properties.                                                             *)
(***************************************************************************)
(* The state of a process that lives.                                      *)
LiveTypeOK ==
  /\ SimTypeOK
  /\ net \in Seq(Packets)
  /\ seq \in [Nodes -> SeqNums]
  /\ neighborTable \in [Nodes -> SUBSET Nodes]
  /\ heard \in [Nodes -> SUBSET Nodes]
  /\ lsTable \in [Nodes -> [Nodes -> LSTableEntry \cup {NoEntry}]]
  /\ cmds \in 0 .. MaxCmds
  /\ sent \subseteq LSMessages

(* Every variable of the protocol stays within its type; the sequence      *)
(* numbers of GetNextSequenceNumber and of every stored entry stay within  *)
(* their width.                                                            *)
TypeOK == LiveTypeOK /\ crashed \in BOOLEAN

(* Every link-state entry that n holds for another node is a message that  *)
(* node really originated, with that sequence number and those neighbours; *)
(* the one difference is that n may have taken itself out of it when the   *)
(* hello timer of AuditHellos expired.                                     *)
EntriesAuthentic ==
  \A n, o \in Nodes :
    o # n /\ lsTable[n][o] # NoEntry =>
      \E m \in sent :
        /\ m.orig = o
        /\ m.seq = lsTable[n][o].sequenceNumber
        /\ GetNeighbors(lsTable[n], o) \subseteq m.nbrs
        /\ m.nbrs \ {n} \subseteq GetNeighbors(lsTable[n], o)

(* A node that has a neighbour has an LS-table entry of its own.  The code *)
(* relies on it: AuditHellos writes through entry1, Dijkstra through       *)
(* leastCostFound.find(thisNode), and its loop bound m_lsTable.size()-1    *)
(* wraps around on an empty table.                                         *)
OwnEntryPresent ==
  \A n \in Nodes : neighborTable[n] # {} => lsTable[n][n] # NoEntry

NotOlder(old, new) ==
  old # NoEntry => new # NoEntry /\ new.sequenceNumber >= old.sequenceNumber

(* No entry of m_lsTable is ever lost or replaced by an older one, however *)
(* the copies of a flood are reordered, lost or sent back.                 *)
EntriesNeverRegress ==
  [][\A n, o \in Nodes : NotOlder(lsTable[n][o], lsTable'[n][o])]_vars

(* In a scenario without HELLO and LSTABLEMSG commands, Dijkstra only      *)
(* installs routes through nodes that are in m_neighborTable at that       *)
(* moment, so it never takes an interface from an end() iterator.  (With   *)
(* those commands it can: an LS_TABLE_MSG sent just before the timers      *)
(* expire may arrive after them and bring an expired link back into the    *)
(* LS table.)                                                              *)
RoutesUseNeighbors ==
  \A n, d \in Nodes :
    LET r == routingTable[n][d]
    IN  r # NoRoute => r.interface = r.nextHop /\ r.nextHop \in neighborTable[n] \cup {n}

(* Once the links have been stable for three hello periods and the network *)
(* is idle, every neighbour table has exactly the nodes at the other ends  *)
(* of working links: AuditHellos has dropped the others by then, whatever  *)
(* hellos were on their way across its instants.                           *)
NeighborsSettled ==
  Idle /\ age = Drain => \A n \in Nodes : neighborTable[n] = LiveLinks[n]

(* n knows its part of the network: it has an entry for every other node   *)
(* that working links connect it to, and the entries have their links.     *)
Informed(n) ==
  \A o \in Nodes :
    Distance(LiveLinks, n, o) # INF =>
      /\ o = n \/ lsTable[n][o] # NoEntry
      /\ GetNeighbors(lsTable[n], o) = LiveLinks[o]

(* n routes to exactly the nodes it can reach, at the length of a shortest *)
(* path, through a working link to a node that is one hop closer.          *)
ShortestRoutes(n) ==
  \A d \in Nodes \ {n} :
    LET r == routingTable[n][d]
    IN  /\ r.cost = Distance(LiveLinks, n, d)
        /\ r # NoRoute =>
             /\ Live(n, r.nextHop)
             /\ Distance(LiveLinks, r.nextHop, d) = r.cost - 1

(* At any moment, also while messages are on their way: a node whose LS    *)
(* table is right about the nodes it can reach has the right routes,       *)
(* whatever it holds about the others.  Every change of the tables is      *)
(* followed by Dijkstra.                                                   *)
InformedRoutes == \A n \in Nodes : Informed(n) => ShortestRoutes(n)

(* Once the links have been stable for three hello periods and the network *)
(* is idle, every node has the right routes.                               *)
RoutesAreShortestPaths == Idle /\ age = Drain => \A n \in Nodes : ShortestRoutes(n)

(* What n's LS table says about another node; its own entry is not part of *)
(* the database.                                                           *)
DatabaseEntry(n, o) ==
  IF o = n \/ lsTable[n][o] = NoEntry THEN [seq |-> -1, links |-> {}]
  ELSE [seq |-> lsTable[n][o].sequenceNumber, links |-> GetNeighbors(lsTable[n], o)]

Database == INSTANCE LSDatabase
  WITH published <- sent, db <- [n \in Nodes |-> [o \in Nodes |-> DatabaseEntry(n, o)]]

(* Flooding implements the board of LSDatabase: every change of an LS      *)
(* table is the arrival of a newer message that its origin really sent, or *)
(* the removal of this node from the entries of neighbours whose loss      *)
(* AuditHellos announces in the same step.                                 *)
ImplementsDatabase == Database!Spec

(* In a scenario that only acts on a settled network, AuditHellos never    *)
(* loses a neighbour whose LS_TABLE_MSG has not arrived: removeLSTableLink *)
(* is never given the entry at end().                                      *)
AuditsSurvive == ~crashed

(* Flooding stops: however often the network is disturbed, all packets are *)
(* delivered or dropped again and again, as long as the process lives.     *)
FloodingStops == []<>(crashed \/ net = <<>>)

(* After the last command, every node ends up with exactly the neighbours  *)
(* that a working link connects it to, unless the process has died.        *)
NeighborsDetected ==
  <>[](crashed \/ \A n \in Nodes : neighborTable[n] = {m \in Nodes : Live(n, m)})
=============================================================================
