# A TLA+ model of the ns3-routing protocols

The repository implements two routing protocols, link state (LS) and distance
vector (DV), as ns-3 IPv4 routing protocols, with a simulator front end that
loads a topology, plays a scenario and reads commands. Its own code is under
`src/ns-3/cs433`; the rest of `src/ns-3` is a vendored ns-3. This directory
models that own code in TLA+, checks small networks with TLC, and proves the
main safety properties for every network with TLAPS.

Paths below are relative to `src/ns-3/cs433/`.

## 1. The system

| Component | State | Operations | Interactions |
|---|---|---|---|
| Simulator front end, `simulator-main.cc` | links, interfaces up or down, `m_tokens`, `m_readyToRead` | loads topology and scenario; LINK, NODELINKS; passes other commands to protocols and applications | changes the interfaces under the protocols; a second thread reads the console |
| LS protocol, `ls-routing-protocol/` | `m_currentSequenceNumber`, `m_neighborTable`, `m_lsTable`, `m_routingTable`, `m_pingTracker` | `ProcessHelloReq`, `ProcessLSTableMessage`, `AuditHellos`, `Dijkstra`, commands HELLO, LSTABLEMSG, PING, DUMP | HELLO_REQ and LS_TABLE_MSG broadcasts; routes packets for everyone |
| DV protocol, `dv-routing-protocol/` | `m_dv`, `m_costs`, `m_neighborTable` with the neighbours' vectors, `m_routingTable`, `m_pingTracker` | `ProcessHelloReq`, `ProcessDVTableMessage`, `AuditHellos`, `BellmanFord`, commands | HELLO_REQ broadcasts, one DV_TABLE_MSG per neighbour |
| Forwarding, `RouteOutput`, `RouteInput` in both protocols | none of its own | reads the routing table for each packet | called by ns-3 |
| Test application, `test-app/` | `m_pingTracker`, `m_trafficSet`, `m_trafficRunning` | PING, `StartTraffic`, `StopTraffic`, `SendTraffic`, `AuditPings` | UDP through the routing tables |
| Common, message and helper classes, `common/`, `*-message.cc`, `*-helper.cc` | values | serialisation, logging, object factories | used by all of the above |

**What is hard.** Everything inside the simulator runs as events on one thread,
so a handler is atomic; the difficulty is the order of handlers. Floods of the
same origin travel along several paths and overtake each other. Interfaces go
down and up while packets are in flight, and a packet lost there is never sent
again. The hello timeout equals the hello period, so expiry is decided by one
missed hello. Both protocols dereference the result of `find()` without a
check in many places, so each relies on relations between its maps holding in
every order of events. The 32-bit sequence numbers start at a random value.
DV counts up after a partition and only a cost limit of 16 stops it. Outside
the simulator's event loop there is one more thread, the console.

**What makes each component correct.**

- LS: tables hold only what their origins said, and never go back; floods die
  out; neighbour tables follow the links; Dijkstra is exact; after the network
  has settled, routes are shortest paths over working links.
- DV: costs stay within the limit; `m_costs` and `m_neighborTable` agree;
  routes are in step with what is advertised; counting ends and routes become
  shortest paths.
- Forwarding: once the tables have settled, a packet arrives over a shortest
  path, or is dropped because there is none.
- Test application: a ping is answered by its destination or expires, once,
  neither early nor late; running traffic has a timer.
- Console: no line is lost, doubled or mixed with another, although two threads
  share `m_tokens` without a lock; commands of the scenario run at their times.
- Messages: what is read is what was written, however often it is passed on.

`PROJECT.json` lists the hazards one by one, at their lines.

## 2. Modules

```
Distances
   │
Topology ─┬─ Simulation ─┬─ LSRouting (LSTables, LSDatabase) ─── LSForwarding (Forwarding)
          │              └─ DVRouting (DVTables) ─────────────── DVForwarding (Forwarding)
          ├─ Forwarding
          ├─ TestApp (PingService)
          └─ LSTables ── DijkstraCheck
Console      MessageFormats
```

A name in parentheses is extended or instantiated. `MC*` extends the module of
its name for TLC, `*Proofs` for TLAPS. `LSRoutingProofs` and `DVRoutingProofs`
extend `LSForwarding` and `DVForwarding`; `DijkstraProofs` is about the operators
of `LSTables` and serves both `LSRoutingProofs` and `DijkstraCheckProofs`.
`Foundations` has the facts that several of the proofs rest on.

| Module | Models |
|---|---|
| `Distances` | `INF` (the code's `M_INF`), graph distance as a reference |
| `Topology` | nodes and links |
| `Simulation` | interfaces, LINK and NODELINKS commands, packets in flight and their loss, hello instants |
| `LSTables` | the LS table, `removeLSTableLink`, `GetMinCostNode`, `Dijkstra` as pure operators |
| `LSRouting` | the LS protocol: one action per handler |
| `LSDatabase` | abstract: what flooding promises |
| `DijkstraCheck` | `Dijkstra` on freely chosen tables |
| `DVTables` | distance vectors, poisoning, `BellmanFord` as pure operators |
| `DVRouting` | the DV protocol: one action per handler |
| `Forwarding` | a data packet, `RouteOutput`, `RouteInput` |
| `LSForwarding`, `DVForwarding` | a protocol and a data packet together |
| `TestApp` | PING and TRAFFIC commands, ping trackers, timers, messages |
| `PingService` | abstract: what a ping promises |
| `Console` | scenario loader, console thread, scanning event |
| `MessageFormats` | serialisation of all messages that are sent |

In several modules operators marked "Wrong variant" stand before the definition
they vary. They are plausible mistakes, one for every checked property; with the
definition replaced by its variant TLC finds the property violated.

### Simulation

`up[n]` is the set of neighbours that n's working interfaces face. LINK
commands set both ends of a link (`P2POperation`, `LinkOperation`), NODELINKS
sets all interfaces of one node and not the opposite ends
(`AllInterfacesOperation`), so a link may be half up. A packet leaves through
interfaces that are up and is dropped on arrival when the receiving interface
is down.

*Time.* All nodes start at time 0 with the same `HelloTimeout`, so all
`AuditHellos` run at the same instants, in node order. A packet takes 2 ms per
hop and the period is 6000 ms. The model therefore has no clock, only
`HelloInstant`, the nodes whose timer is `due`, and `calm`: between two instants
the network has drained at least once. Commands after that may still leave
packets in flight across an instant. "Expired" in the code compares
`lastUpdated + timeout <= now` and becomes "not heard since the last instant".

*Reordering.* Copies on one link stay in order. Links have equal delay, so a
copy overtakes only copies sent shortly before it on other links; it must be
one of the first `Window` broadcasts in flight. `Window = 1` is the order in
which packets were sent.

*Scenarios.* With `Orderly = FALSE` link commands come at any moment between
handlers. With `Orderly = TRUE` they come in groups to an idle network,
separated by at least `Drain = 3` instants, as in the files of `scenarios/`:
one instant for a hello in flight, one to miss the next, one to find it
missing. `age` counts instants since the last command, up to `Drain`.

### LSRouting and LSTables

Names stand for addresses. `neighborCosts` is a vector whose order is never
observable but whose duplicates are (`push_back` does not look for one, and
`removeLSTableLink` erases the first), so it is kept as a count per neighbour.
The entry a node makes for itself carries the sequence number of the hello it
heard, as in the code (line 604). `GetNextSequenceNumber` wraps at `SeqLimit`.

Out-of-range reads are modelled, not hidden. `leastCostFound.find()` may be
`end()` in `Dijkstra` for a node without an entry, or for the empty name that
`GetMinCostNode` returns; the code then reads and writes one byte past the
map. That byte is `stray`, with an arbitrary first value. An interface read
through `m_neighborTable.end()` is `NoNode`. When `entry2` is `end()` in
`AuditHellos`, a message of that neighbour never having arrived,
`removeLSTableLink` works on what lies there: either the table keeps no entry, or
the process dies (`AuditCrash`), and nothing happens after `crashed`.

`Commands` are the commands that nodes may be given: HELLO, LSTABLEMSG, and PING,
which here only takes a sequence number; the requests it sends are `TestApp`'s.

`sent` is a history variable that only properties use. TTL is decremented but
never tested, so it is left out here and is a field in `MessageFormats`; the
HELLO_RSP handler is commented out.

`LSDatabase` says what flooding is for, without a network, packets or timers: a
board to which messages are published and from which each node learns any newer
one at any time. `LSRouting` implements it under the mapping `published <-
sent`, `db <-` what the LS tables say about other nodes. A step of `AuditHellos`
takes this node out of the entries of the neighbours it gives up and publishes
that, both in one step of the board. A node's own entry is not part of the
database: the code gives it foreign sequence numbers.

### DVRouting and DVTables

All costs are 1, so `m_costs` is the set of its keys. A vector maps nodes to
`0 .. Limit`, `INF`, or `NoCost` for a missing key. A burst of DV_TABLE_MSGs,
one per neighbour, is one packet record with the set of receivers whose copy is
poisoned; `CopyFor` gives each receiver its copy. `insert()` that does not
overwrite, the cleared routing table, the minimum that is stored only if it is
at most 16 and routed only if it is below 16 are all as in `BellmanFord`.
`m_costs.erase(end())` in `AuditHellos` is the action `AuditCrash`: on a
non-empty map it corrupts the header and the process dies, on an empty one it
does not return. Nothing happens after `crashed`.

### Forwarding, LSForwarding, DVForwarding

`Forwarding` is `RouteOutput` and `RouteInput`, which read the same in both
protocols, and what `Ipv4L3Protocol` and `Ipv4StaticRouting` of
`src/ns-3/src` do before and after them. It has the interfaces and the routing tables as parameters and one packet as
state. `RouteOutput`'s fallback to the static routes assigns an inner variable
that shadows the returned one, so it has no effect; `RouteInput`'s has.
`LSForwarding` and `DVForwarding` compose it with a protocol: a packet may be
sent whenever a round of messages is over, before or after a failure has been
noticed, and a step of the protocol may come between any two of its hops. A
packet takes at most `TTL` hops of 2 ms, so it has left the network before the
next timers expire. `settled` records whether the tables had settled when the
packet was sent, and is cleared by a link command.

### TestApp and PingService

A client is one ping tracker: the test application's, or that of the LS or the
DV protocol, at one node. The three are the same code. The simulator runs one
event at a time, so the loop of `PING *` or of `SendTraffic` finishes before
anything else runs; events of the same instant run in any order. A message takes
any time or is lost. `m_currentTransactionId` starts anywhere and wraps around,
but a client takes no number twice in a run (`MaxIds <= IdLimit`): the code
would have to send 2^32 pings within two timeouts for that to matter.

`PingService` is the promise: a ping is outstanding until it is answered by its
destination or has expired, one of the two and once, expires no earlier than
`PingTimeout` and later than twice that never. `TestApp` implements it with
`outstanding <- m_pingTracker`.

### Console

`Start` takes a scenario line per step. `ProcessCommandTokens` schedules an
event for an operation on links (`IsLinkCommand`), or for a command to a module
that the nodes have (`IsModuleCommand`), for one node or for all (`Targets`). Its
early returns are silent to the scenario: an unknown operation or module, a
number that is no node's, and every line of less than three words schedule
nothing (`Schedules`). The number of a word that spells none is whatever the
uninitialized variable holds (`Garbage`). `scheduled` has one `Event` per line
that schedules something, with its nodes and its time; the events around a DUMP
that only print are left out.

After that `CommandHandler` and
`ReadCommandTokens` are two threads; each access to `m_tokens` or
`m_readyToRead` is a step. `m_readyToRead` is a plain `bool`, so the program has
a data race in the sense of the C++ standard. The model takes what the build
makes of it (x86, and the default profile of `src/ns-3/wscript`, which does not
optimise): loads and stores of one byte, in program order.

### MessageFormats

Messages are records, packets are sequences of bytes, `Base` values to a byte.
`Serialize`, `Deserialize` and `GetSerializedSize` of the three message classes
are operators; LS and DV messages have equal code, except for the table's name.
One message travels: flooded on with a smaller TTL, or answered.

## 3. What TLC checks

| Run | Instance | Shows |
|---|---|---|
| `ls_flood` | line of 3, floods reordered, a link command at any moment, sequence numbers modulo 5 | `TypeOK`, `EntriesAuthentic`, `OwnEntryPresent`, `RoutesUseNeighbors`, `NeighborsSettled`, `InformedRoutes`, `EntriesNeverRegress`, `ImplementsDatabase` |
| `ls_routes` | triangle, orderly, up to 3 link commands, data packets | `RoutesAreShortestPaths`, `PacketsDelivered`, `AuditsSurvive` |
| `ls_live` | one link, two initial sequence numbers, link, HELLO, LSTABLEMSG and PING commands at any moment, fair | `FloodingStops`, `NeighborsDetected` |
| `dijkstra` | every LS table over a topology of 6 nodes, entries missing or one-sided | `ShortestWhenComplete`, `SoundWhenPartial` |
| `dv_safety` | line of 3, reordering, 3 link commands at any moment | `TypeOK`, `CostsHaveNeighbors`, `RoutesAreAdvertised`, `NeighborsSettled`, `SynchronizedRoutes` |
| `dv_routes` | square, orderly, up to 2 link commands, data packets, fair | `RoutesAreShortestPaths`, `PacketsDelivered`, `RoutingConverges` |
| `console` | two nodes, every scenario of up to 2 lines out of 14 kinds, then up to 2 lines typed out of 4 kinds, fair | `TypeOK`, `MutualExclusion`, `CommandsIntact`, `ScriptScheduled`, `ScheduledAreLines`, `AcceptedIsExecuted` |
| `test_app` | a client of each kind on two nodes, numbers that wrap, losses, slow answers, fair | `TypeOK`, `ResponsesFindRequests`, `RunningHasTimer`, `ImplementsPingService`, `PingsResolve` |
| `formats` | every type of message of every class, numbers at the ends of their ranges, lengths around a byte's range | `TypeOK`, `RoundTrip`, `SpaceSuffices`, `ContentSurvives` |

*Bounds.* `MaxRounds`, `MaxOps`, `MaxCmds` bound instants and commands; no
command comes later than `Drain` instants before the end, so its consequences
are always seen. Three instants after a command are enough for the expiry of
both ends. Three nodes on a line are the least for a flood with an echo and for
counting to infinity; a triangle and a square have alternative paths. Six
nodes are the least on which `Dijkstra` could go wrong by finding nodes in the
wrong order. `Limit` is the code's 16 and is reached. `SeqLimit = 5` makes the
counter wrap within a run; 100 keeps it from wrapping where the wrap is not the
question. The IP `TTL`, 64 in ns-3, is more than any loop-free path in the runs
is long.

In `console` the lines are a blank one, TIME with no, a good and a bad argument,
QUIT, a comment, and commands: for a node, for one that does not exist, for a word
that is no number, for all nodes, without a word they need, and for a link, with a
good and a bad operation. Two lines after each other are the
least for one line's tokens to meet another's, and `MAX_SCAN_DELAY = 4` is
reached where the code's 256 would only lengthen the runs. In `test_app` a
timeout of 2 and `MaxTime = 5` leave room for an audit before, at and after the
timeout of a ping, and `IdLimit = 2` makes the second number of a client wrap.
In `formats` a byte has 5 values instead of 256, so that lengths of 5 and 11
already need the second byte of a 16-bit field, and `MaxHops = 4` exceeds
`MaxTTL`, so that the TTL wraps.

`CHECK_DEADLOCK FALSE` is set because the simulation ends with its scenario.

*Fairness.* The ns-3 event queue runs every event in it: packets in flight
arrive or are dropped, timers expire, instants come. The protocols' `FairSpec`
asks for just that (weak fairness of receiving, dropping, `AuditHellos`, and
time), and never that a command is given. It holds until the process
crashes. `DVForwarding` adds that data packets arrive. `TestApp` asks that
events run and that the clock goes on, not that a message arrives. `Console`
asks that the operating system runs both threads, not that anyone types.

### Disagreements between code, comments and documentation

Each of these runs checks one property that a document, a comment or a log line
states, and TLC finds a behaviour of the code that violates it.

| Run | Violated | What happens |
|---|---|---|
| `ls_late_joiner` | `RoutesAreShortestPaths` | a link that was down when the others flooded comes up; its two ends announce only their own neighbours, nobody repeats the floods of the past, and a node has no route to one three hops away |
| `dv_unknown_sender` | `NeighborsHaveCosts` | a sender added by `ProcessDVTableMessage` gets no cost, ever; its expiry erases `end()` |
| `traffic_stop` | `TrafficGoesOn` | `StopTraffic` for one node clears `m_trafficRunning` because others are left |

### Observations outside the runs

Smaller ones, with the constants that show them where a model does:

- Sequence numbers are compared as numbers, not circularly (line 681): with
  `Line3`, `InitSeqs = {25}`, `SeqLimit = 30` messages after the wrap are
  rejected and `RoutesAreShortestPaths` fails.
- The own entry carries a foreign sequence number (line 604), so an echo of an
  own message can be accepted. With `Pair`, `Orderly = FALSE`, `Window = 4`,
  `MaxRounds = 5`, `MaxOps = 2`, `Commands = {"LSTABLEMSG"}`, `MaxCmds = 1` such a
  command right before an expiry brings the expired neighbour back, and
  `RoutesUseNeighbors` fails: `Dijkstra` takes the interface from
  `m_neighborTable.end()`. The property is therefore stated, checked (`ls_flood`
  has no commands) and proved for scenarios without HELLO and LSTABLEMSG.
- When link commands come at any moment, a neighbour may expire whose LS_TABLE_MSG
  never arrived; `entry2` is then `end()` (line 773). In `ls_flood` and `ls_live`
  `AuditCrash` happens, and `AuditsSurvive` would fail there. It holds in orderly
  scenarios (`ls_routes`, `Survival`).
- `src/README.md:58-60` says that a cost above 16 leaves the routing table
  alone. `BellmanFord` has cleared it by then, and the route is gone.
- With link commands at any moment (`Orderly = FALSE`) DV does not converge:
  a DV_TABLE_MSG that is lost on a link that works in one direction is not sent
  again, as vectors are sent only when they change. `dv_routes` has such links,
  but leaves time for the neighbours to expire.
- A TIME line of a scenario with the wrong number of arguments stays in
  `m_tokens`; later lines are appended to it and become a TIME line of the wrong
  length, too. The rest of the scenario is swallowed, and the first line typed
  at the console (only a bare TIME followed by a line of one word recovers, as
  that word is taken for its argument). `ScriptScheduled` and `CommandsIntact`
  say exactly what is left.
- Traffic that is stopped and started again within 2 ms has two chains of
  events from then on and sends at twice the rate.
- `Deserialize` of a table message leaves the table's size out of what it
  returns. `RemoveHeader` then leaves those bytes in the packet, where nobody
  looks (`SpaceSuffices` has it that it never takes too many).
- `Stop`, which would join the console thread, is never called; the thread
  outlives the object it uses.

## 4. What is proved

For every finite set of nodes, every set of links, every `Window`, every
`SeqLimit`, every `Limit` in `1 .. 16`, and every value of the bounds. The
assumptions are the named `ASSUME`s of the modules; every run evaluates those of
its modules. One of them is that there are fewer than `M_INF` nodes: the code
keeps costs in an `int` and takes its greatest value for "unreachable".

*Induction.* The library states induction with an operator as parameter, which
the installed provers cannot instantiate. `Foundations` states it with a set
instead: a set that has 0 and with every number the next one has them all
(`SetInduction`, from the well-foundedness of `<`). To prove something of all
numbers, form the set of numbers that it is true of. `LoopExists` gives in the
same way, for every first value and every step, the sequence of values that a
loop goes through, glued together from its beginnings. The recursive functions
of the model, `Ball`, the passes of `Dijkstra`, the sums of the scenario's times
and the concatenations of `Serialize` are reasoned about through such
sequences. On top of that `Foundations` has what the proofs need of distances (a
first edge is one step closer, `FirstEdge`; a distance is less than the number of
nodes, `DistanceBound`; graphs that agree on what is reachable have the same
distances, `SameReach`; Bellman's equations, `DistanceEquations`) and of the
packets in flight (taking off one copy keeps the others, and their order on each
link).

**`LSRoutingProofs`**: `TypeCorrect`, `Authenticity` (`EntriesAuthentic`),
`OwnEntry` (`OwnEntryPresent`), `Monotonicity` (`EntriesNeverRegress`),
`Refinement` (`ImplementsDatabase`). `EntriesAuthentic` is not inductive: a
table is fed from the network. The invariant is

    IInv == TypeOK /\ Flooded(net, sent) /\ EntriesAuthentic /\ OwnEntryPresent

where `Flooded` says that every LS_TABLE_MSG in flight was originated by the
node it names. It is kept because forwarding copies a received message
unchanged and originating records it. An expiry edits entries in place
(`UnlinkExpiredProperties`): it keeps each entry and its number, and takes only
the link back to this node out of another's. `Monotonicity` is an action
property and follows from the type invariant and one case per action. The
sequence numbers may wrap: the comparison then rejects the message and the
entry stays.

The refinement needs one more fact, `SingleLinks`: no entry that a node holds
for another has a link twice. `removeLSTableLink` erases the first occurrence
only, so with a duplicate the node would stay in the entry of the neighbour it
gave up, and the step would be none of the board's. Entries of others come from
messages, whose neighbours come from the keys of a map. (With HELLO and LSTABLEMSG
commands the own entry may have duplicates.) Then every action maps to a step of the board or to a stutter:
originating publishes, an accepted message is learnt, an expiry gives up.

These hold with every command at any moment. The process may die in any state, and
then nothing changes: the proofs are about the steps before that (`Step`, `SpecSteps`).

`NextHops` (`RoutesUseNeighbors`) has the hypothesis `Commands \subseteq {"PING"}`,
no HELLO and LSTABLEMSG commands; with an LSTABLEMSG it is false (section 3, observations). Links may
fail and recover at any moment. The invariant, on top of `IInv`, is

    HopInv == Drained /\ Flooded(net, UpToDate) /\ OwnLinks /\ UsableTables

The links of the own entry are links to neighbours, once each (`OwnLinks`). That
entry may come from an echo of an own message, so no own message in flight may
name a neighbour that is gone (`UpToDate`); neighbours go only when the hello
timer expires, and then everything sent before has arrived (`Drained`). A
message in flight is therefore from a node whose `AuditHellos` has run. That
`Dijkstra` then takes first hops and interfaces from neighbours only is
`DijkstraUsable`, an invariant of its main loop.

`Discovery` (`NeighborsSettled`) holds in every network and for commands at any
moment, in flight across instants or not. `HelloInv` follows the three instants
after the last command: the first sends hellos over working links only, while
stale ones may still be on their way; the second discards what those brought; the
third finds out who was not heard. In between, over every working link a hello is
on its way or has come.

`Survival` (`AuditsSurvive`), with `Orderly` and the hypothesis of `NextHops`:
`AuditHellos` never works on the entry at `end()`. No handler makes the entry and
the neighbour in one step: the hello of y makes y a neighbour of x, and y's entry
comes with the message that y sends when it hears x. `PresenceInv` says that whoever
y has found has y's entry or will get it over a link that works, and that whoever
has found y has the entry by the time that the network is calm, before the timers
expire. Entries are edited later, and never go.

`Informing` (`InformedRoutes`): a node whose LS table is right about the nodes it
can reach has exactly the shortest paths, at every moment. The invariant is
`InStep`, the routing table is what `Dijkstra()` makes of the present tables,
which every handler has to keep; the rest is `DijkstraIsCorrect`, and that what
the table still holds about unreachable nodes does not matter (`SameReach`).

`FloodingConverges` is that floods inform everyone, so that the routes become right:

    ASSUME Orderly, Commands \subseteq {"PING"}
    PROVE  Spec /\ []Unwrapped /\ [][JoinsNoParts]_vars => []RoutesAreShortestPaths

in every topology, for every `Window`, whatever fails. `JoinsNoParts`: a link comes up only in a
settled network and between nodes that can reach each other already; else the two
parts never hear of each other's old floods, which is the run `ls_late_joiner`.
`Unwrapped`: no number is about to wrap; after the wrap routes do go wrong
(section 3, observations). No HELLO and LSTABLEMSG commands: with them the own
entry may have duplicates and `NextHops`, used here, is false.
`Orderly`: link commands wait for an idle network, so that no copy of a flood is
on a link that goes down; a lost copy is never sent again. The invariant
`FloodInv` says, of nodes x and y at the ends of a working link:

- numbers are used once (`UsedOnce`), so an entry's number says which message it
  came from;
- what x has of others, and its own newest message, y has too, or it is on its way
  from x to y (`Passed`). A node keeps to this although it passes on only what is
  new to it, because what is not new was passed on when it was;
- the own entry is right, or will be (`OwnRestored`). It has a foreign number at
  first, so an older echo of an own message can be believed and replace it; but
  then the newest message comes back as well and is believed too (`Returning`);
- no node takes itself out of the entry of a neighbour whose link works (`Exact`),
  because it has heard from it, or will in time (`Alive`).

When nothing is in flight, every node then has the newest message of every node it
can reach, along any path, which stays within what is reachable
(`PathsStayInside`), and with `Discovery` those messages name the working links.
The invariant has been checked with TLC on a triangle and on a line of three
before it was proved.

**`DVRoutingProofs`**: `TypeCorrect`, `LookupsSucceed` (`CostsHaveNeighbors`),
`Advertisement` (`RoutesAreAdvertised`). The conjunction of the three is
inductive, because every action that changes `m_costs`, a neighbour's vector or
`m_dv` runs `BellmanFord`, and `BellmanFordProperties` says that its result
agrees with the tables it was given. That lemma rests on the existence of a
least offered cost (`LeastNatural`, from the well-foundedness of `<`).

`Discovery` (`NeighborsSettled`) is as in LS. `Agreement` (`SynchronizedRoutes`):
at any moment, nodes that agree about each other's vectors over working links, and
are nowhere as far apart as the limit, have the shortest paths and no other routes.
So neither loops nor stale costs can outlive agreement, although costs count up to
get there. The invariant is again that of being in step: `m_dv` and the routing
table are what a pass of `BellmanFord` makes of `m_costs` and the neighbours'
vectors (`Computed`). Agreement turns this into a fixed point of the whole network
(`AtFixedPoint`), and a fixed point has only distances below the limit
(`FixedPoint`): where d cannot be reached, a cost below the limit would need a
neighbour with a smaller one, and that another, for ever.

`OrderlyInvariance`, with `Orderly`, is that nodes come to agree. Its `AgreeInv`
says for every working link, from the first instant after a command on, that what
x goes by for its neighbour m is what m has now, or that the last vector on its way
to x is, and that it travels behind the hello that makes m a neighbour, as a vector
of an unknown sender gets no cost (`InTouch`). One exception is in the code: when a
neighbour expires, `AuditHellos` writes `M_INF` into `m_dv` before `BellmanFord`
looks for changes, so this change alone triggers no message, and others may still
take the lost neighbour for one hop away (`Known`). It does not last
(`SettledAgreement`): who thinks so reaches the lost neighbour at two and says so,
and that is an offer within the limit. From the invariant follow

- `Convergence`: `Limit >= 3` and `[]WithinLimit` (connected nodes are nearer than
  `Limit`) give `[]RoutesAreShortestPaths`. With `Limit` 1 and 2 the exception
  above does harm, and TLC finds a violation; the code has 16;
- `SmallConvergence`: the same for at most `Limit` nodes, where `WithinLimit` is a
  fact (`SmallNetworks`);
- `NoCrash`: `m_costs` has every neighbour, and `AuditHellos` never erases `end()`.
  Without `Orderly` it does: `dv_unknown_sender`.

**`Delivery`**, in both of these modules, is about the composition with
`Forwarding`:

    DataSpec /\ []RoutesAreShortestPaths => []PacketsDelivered

for every network with no more nodes than the `TTL` (and for LS without HELLO and
LSTABLEMSG commands, as above). It says that tables which are right whenever the network has
settled deliver every packet, while the protocol runs on, over the fallback to
static routes, the check of the input interface, the drop of packets that come
home and the TTL. Where the protocols are proved to make the tables right, the
hypothesis goes: `FloodingDelivers` for LS, with the hypotheses of
`FloodingConverges`, and `SmallDelivery` for DV, with those of `SmallConvergence`.
The invariant `DeliveryInv` says of a packet on its way that the network is still
settled, that the link it comes over works, and that

    hops + Distance(at) = Distance(src)     and     ttl = TTL - hops

so that it is never dropped for being home again or for its TTL. A table with the
shortest paths sends it one hop closer (`SettledRoute`), and only a LINK command
ends the settled state before the next timers expire (`DeliveryProtocol`).

**`DijkstraProofs`**, for every number of nodes and every table:
`DijkstraIsCorrect`. From it follow, in **`DijkstraCheckProofs`** (with
`CheckInv`: the routes are what `Dijkstra()` made of the table), `Soundness` (`SoundWhenPartial`) and
`Completeness` (`ShortestWhenComplete`). The invariant of the main loop
(`Progress`) says that every route is a path of its cost that its next hop
starts (`PathsExist`), that the edges of found nodes have been used
(`EdgesUsed`), that no route is more than one edge longer than an open one
(`Frontier`), and that, with an entry for every node, every round finds a node
as long as one is open (`RoundsUsed`): the loop runs once less than there are
entries, which is just enough. `stray` may let a round pick a node without an
entry, even several times; such a node has no links, so the round changes
nothing.

**`ConsoleProofs`**, for every set of lines and words: `TypeCorrect`,
`Exclusion` (`MutualExclusion`), `Intact` (`CommandsIntact`), `Scheduling`
(`ScheduledAreLines`), `Timing` (`ScriptScheduled`). `m_readyToRead`
says whose turn it is, and a thread inside `m_tokens` has the turn (`Turns`).
Exclusion follows because only the reader sets the flag, as its last step, and
only the simulator resets it, as its last step. For `CommandsIntact` the
invariant says what is in `m_tokens` on either turn: on the reader's, pushed and
unpushed tokens make up its line behind what was there before (`ReadersTurn`);
on the simulator's, the last accepted line until it is cleared
(`SimulatorsTurn`). `Scheduling` holds because what `Start` leaves in `m_tokens`
starts with TIME (`LeftoverIsTime`), and then so does every line appended to it:
it is never handed over as a command. For `Timing`, `Understood` says that until
a malformed TIME line nothing is left in `m_tokens` and the pointer into simulated
time is the sum of the TIME lines. A line then schedules what it would schedule
alone, under its own number, which is above those of all events before it
(`ScriptLineTimed`); this leaves the answers to the lines before it as they were
(`Answers`). What a line schedules is the model's `Schedules`; TLC's lines take each
of its early returns.

**`TestAppProofs`**, for every set of clients, every timeout, period and
behaviour of the network: `TypeCorrect`, `TrafficTimer` (`RunningHasTimer`),
`ResponsesInTime` (`ResponsesFindRequests`), `Refinement`
(`ImplementsPingService`). The invariant accounts for every ping (`Accounted`:
in a tracker, answered or expired), for the message that belongs to it
(`MessagesKnown`: at most one, of an unanswered ping), for the numbers (`Unique`,
from `Numbered`, which counts them off from `FirstId`), and for time (`Timed`:
the next audit of a client comes before any of its pings is twice the timeout
old). A response in time then finds its request, because what is neither
answered nor expired is in the tracker.

**`MessageFormatsProofs`**, for every `Base` above 4, the code's 256 among them,
and all numbers, texts and tables that fit their fields: `ReadsWhatWasWritten`
(`Deserialize` undoes `Serialize`), `FormatTypes` (`TypeOK`), `Reading`
(`RoundTrip`), `Sizes` (`SpaceSuffices`), `Contents` (`ContentSurvives`). A
number is the sum of its bytes (`TwoBytes`, `FourBytes`, from `Division`); where
a field starts is the sum of the sizes before it (`BytesOfPieces`), for the
pairs of a table by induction over the table (`FlattenBlocks`). The invariant
`FormatInv` says that the message under way is `WellFormed`: what its class or
type has no field for has the value that the constructor leaves, which is why
reading into a new object gives the whole message back.

## 5. What is only model-checked

- Liveness, which the prover does not reach: `FloodingStops`,
  `NeighborsDetected`, `RoutingConverges`, `AcceptedIsExecuted`, `PingsResolve`.
- `RoutesAreShortestPaths` and `PacketsDelivered` beyond the hypotheses of the
  theorems, as far as the runs go: in `ls_routes` links come up that join parts of
  the network, whenever it is idle. No theorem without hypotheses is possible, since the
  properties are not true of every network: an LS node whose link comes up late misses floods
  (`ls_late_joiner`), sequence numbers wrap, and the costs of DV end at 16, so no
  network with a longer path has them.

## 6. What is not modelled

- *ns-3 itself* (`src/ns-3/src` and its tools and examples), beyond what can be
  observed of the order of events, the loss of packets at interfaces that are down,
  broadcasts, the reading and writing of buffers, and what `Ipv4L3Protocol` does
  around the two routing handlers; those definitions name its lines. It is a vendored
  release of a general simulator, about 306,000 of the repository's 313,000 lines of
  code, of which this program uses a few classes through their interfaces, and
  it is not this repository's logic. The models cover the program's own part,
  about 7,300 lines with their headers, comments and output; measured against the whole
  repository their share is small and must stay so.
- *Input that is only read or printed*: parsing of arguments, of the topology
  file and of the command words; verbosity flags, logging, table dumps, `Print`
  methods, the comparison of test results (`common/test-result.cc`).
- *Values and factories*: the classes of `common/` that hold fields, the three
  helpers.
- *Link numbers that name no link* (`simulator-main.cc:730`): the test that
  should reject them never does, and what is read past the end of `m_ndc` is not
  determined by the code.
- *The end of the process*: what the console thread does after `main` returned.

## 7. Plan

Done, in this order: `Topology`, `Simulation`, LS (`LSTables`, `LSRouting`),
its proofs, `DijkstraCheck`, DV (`DVTables`, `DVRouting`), its proofs;
`Console`, `TestApp` with `PingService`, `Forwarding` and its compositions,
`MessageFormats`, `LSDatabase`, with the proofs of section 4.

Then the general facts of `Foundations`, `DijkstraProofs`, `NextHops`, `Timing`,
`MessageFormatsProofs` and `Delivery`. Last, that the protocols make the tables
right: `Discovery`, `Survival`, `Informing` and `FloodingConverges` for LS,
`Discovery`, `Agreement` and `Convergence` for DV, and the deliveries that follow.

What is left is out of the prover's reach (section 5), or not part of the program's
own logic (section 6).
