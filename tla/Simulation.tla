----------------------------- MODULE Simulation -----------------------------
(***************************************************************************)
(* What the routing protocols run on: the point-to-point links that        *)
(* simulator-main.cc creates from the topology file, the interfaces that   *)
(* its LINK and NODELINKS commands bring up and down, the packets between  *)
(* two interfaces, and the instants at which the hello timers expire.      *)
(*                                                                         *)
(* Every node starts its hello timer at time 0 with the same period, so    *)
(* all AuditHellos run at the same instants, in the order of the nodes     *)
(* (the order in which ns-3 queued the timers).  A packet needs 2 ms and a    *)
(* flood a few tens of ms, while the period is 6000 ms: between two        *)
(* instants the network has always drained once (Settle), but commands     *)
(* issued after that may leave packets in flight across the next instant.  *)
(***************************************************************************)
EXTENDS Topology, Sequences, SequencesExt

CONSTANTS
  Window,     \* how many broadcasts the network may have reordered
  MaxRounds,  \* bound: timer instants
  MaxOps,     \* bound: LINK and NODELINKS commands
  Orderly     \* the scenario issues link commands only to an idle network

ASSUME BoundsAssumption ==
  Window \in Nat /\ MaxRounds \in Nat /\ MaxOps \in Nat /\ Orderly \in BOOLEAN

VARIABLES
  up,     \* up[n]: the neighbours that n's working interfaces face
  net,    \* packets in flight, in the order they were sent
  due,    \* nodes whose AuditHellos is still to run at this instant
  calm,   \* the network has drained since the last instant
  round,  \* timer instants so far
  age,    \* instants since the last LINK or NODELINKS command, up to Drain
  ops     \* LINK and NODELINKS commands so far

simVars == <<up, net, due, calm, round, age, ops>>
clock == <<due, calm, round, age>>

(* A link carries packets when the interfaces at both its ends are up.     *)
Live(a, b) == a \in up[b] /\ b \in up[a]

LiveLinks == [n \in Nodes |-> {m \in Nodes : Live(n, m)}]

(***************************************************************************)
(* Packets.  BroadcastPacket sends one copy out of each interface that is  *)
(* up; `to' holds the receivers of the copies still in flight.  Copies on  *)
(* one link arrive in the order they were sent.  All links have the same   *)
(* delay, so a copy can overtake those sent shortly before it on other     *)
(* links only: it is one of the first Window broadcasts in flight.         *)
(***************************************************************************)
BroadcastPacket(n, msg) ==
  IF up[n] = {} THEN <<>> ELSE <<[from |-> n, to |-> up[n], msg |-> msg]>>

Arrives(i, r) ==
  /\ due = {}
  /\ i <= Window
  /\ r \in net[i].to
  /\ \A j \in 1 .. (i - 1) : ~(net[j].from = net[i].from /\ r \in net[j].to)

InFlightWithout(i, r) ==
  IF net[i].to = {r} THEN RemoveAt(net, i)
                     ELSE [net EXCEPT ![i].to = @ \ {r}]

(* The receiving interface is down: Ipv4L3Protocol drops the packet.       *)
DropPacket(i, r) ==
  /\ Arrives(i, r)
  /\ net[i].from \notin up[r]
  /\ net' = InFlightWithout(i, r)
  /\ UNCHANGED <<up, clock, ops>>

(***************************************************************************)
(* Commands of the scenario file and of the console that act on links.     *)
(* P2POperation and LinkOperation set the interfaces at both ends;         *)
(* AllInterfacesOperation sets those of one node and not the opposite      *)
(* ends.  A command that changes nothing is left out.  An orderly scenario *)
(* spaces its commands, or groups of commands, by tens of seconds, as the  *)
(* files of scenarios/ do.                                                 *)
(***************************************************************************)
(* Instants the scenario leaves after its last command: one for a hello    *)
(* that was in flight, one to miss the next, one to find it missing.       *)
Drain == 3

Idle == due = {} /\ calm /\ net = <<>>

SetInterfaces(newUp) ==
  /\ due = {}
  /\ round + Drain <= MaxRounds
  /\ Orderly => Idle /\ age \in {0, Drain}
  /\ ops < MaxOps
  /\ newUp # up
  /\ up' = newUp
  /\ ops' = ops + 1
  /\ age' = 0
  /\ UNCHANGED <<net, due, calm, round>>

LinkOperation(a, b, isUp) ==
  /\ b \in Adjacent(a)
  /\ SetInterfaces(
       [n \in Nodes |->
          LET ends == {a, b} \ {n}
          IN  IF n \notin {a, b} THEN up[n]
              ELSE IF isUp THEN up[n] \cup ends ELSE up[n] \ ends])

AllInterfacesOperation(a, isUp) ==
  SetInterfaces([up EXCEPT ![a] = IF isUp THEN Adjacent(a) ELSE {}])

(***************************************************************************)
(* Time.                                                                   *)
(***************************************************************************)
FirstDue(n) == n \in due /\ \A m \in due : n <= m

Settle ==
  /\ due = {} /\ ~calm
  /\ net = <<>>
  /\ calm' = TRUE
  /\ UNCHANGED <<up, net, due, round, age, ops>>

HelloInstant ==
  /\ due = {} /\ calm
  /\ round < MaxRounds
  /\ due' = Nodes
  /\ calm' = FALSE
  /\ round' = round + 1
  /\ age' = IF age < Drain THEN age + 1 ELSE age
  /\ UNCHANGED <<up, net, ops>>

SimInit ==
  /\ up = [n \in Nodes |-> Adjacent(n)]
  /\ net = <<>>
  /\ due = {}
  /\ calm = TRUE
  /\ round = 0
  /\ age = 0
  /\ ops = 0

(* The steps of the simulator itself: none touches a routing protocol.     *)
SimNext ==
  \/ \E i \in 1 .. Len(net), r \in Nodes : DropPacket(i, r)
  \/ \E a, b \in Nodes, isUp \in BOOLEAN : a < b /\ LinkOperation(a, b, isUp)
  \/ \E a \in Nodes, isUp \in BOOLEAN : AllInterfacesOperation(a, isUp)
  \/ Settle
  \/ HelloInstant

SimTypeOK ==
  /\ up \in [Nodes -> SUBSET Nodes]
  /\ due \subseteq Nodes
  /\ calm \in BOOLEAN
  /\ round \in 0 .. MaxRounds
  /\ age \in 0 .. Drain
  /\ ops \in 0 .. MaxOps
=============================================================================
