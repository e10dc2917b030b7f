------------------------------ MODULE TestApp ------------------------------
(***************************************************************************)
(* Pings and traffic: test-app.cc, and the PING commands of the two        *)
(* routing protocols, which keep a ping tracker of their own with the same *)
(* code.  A client is one tracker: that of the test application, of the LS *)
(* or of the DV protocol at one node.                                      *)
(*                                                                         *)
(* Time is in steps of a millisecond or more.  The simulator runs one      *)
(* event at a time; it sends the pings of a loop one after the other       *)
(* (`rest') before it runs anything else, and it runs the events of one    *)
(* instant, in some order, before time goes on.  A message arrives after   *)
(* any time, or not at all.  Pings of the application are routed and reach *)
(* every node, the own one too; those of the protocols are broadcasts that *)
(* are not forwarded.  A node number that no node has does nothing and is  *)
(* left out.  `pings', `served', `answered' and `expired' are history.     *)
(***************************************************************************)
EXTENDS Topology, Sequences, SequencesExt

CONSTANTS
  Clients,        \* those that commands are given to
  PingTimeout,    \* 2000 ms in the code
  TrafficPeriod,  \* 2 ms in the code
  IdLimit,        \* 2^32 in the code
  FirstId,        \* FirstId[c]: the random number a client starts at
  MaxIds,         \* bound: numbers a client takes
  MaxCommands,    \* bound: commands, and other messages of the protocols
  MaxTime         \* bound: time

ASSUME ClientsAssumption == Clients \subseteq {"APP", "LS", "DV"} \X Nodes /\ Clients # {}
ASSUME TimesAssumption ==
  PingTimeout \in Nat \ {0} /\ TrafficPeriod \in Nat \ {0} /\ MaxTime \in Nat
ASSUME IdsAssumption ==
  /\ IdLimit \in Nat \ {0}
  /\ FirstId \in [Clients -> 0 .. IdLimit - 1]
  /\ MaxIds \in 0 .. IdLimit
  /\ MaxCommands \in Nat

VARIABLES
  now,
  m_pingTracker,          \* the entries of all trackers
  m_currentTransactionId,
  m_auditPingsTimer,      \* when AuditPings runs next
  m_trafficSet,
  m_trafficRunning,
  trafficEvents,          \* when the scheduled SendTraffic events run
  sender, rest,           \* the loop that is sending pings: client, nodes left
  msgs,                   \* PING_REQ and PING_RSP in flight
  disposed,               \* Simulator::Destroy has been called
  taken,                  \* numbers taken by each client
  commands,               \* commands so far
  pings, served, answered, expired

trackerVars == <<m_pingTracker, m_currentTransactionId, m_auditPingsTimer, taken>>
trafficVars == <<m_trafficSet, m_trafficRunning, trafficEvents>>
loopVars == <<sender, rest>>
history == <<pings, served, answered, expired>>
vars == <<now, trackerVars, trafficVars, loopVars, msgs, disposed, commands, history>>

App(n) == <<"APP", n>>

AppNodes == {n \in Nodes : App(n) \in Clients}

(* The simulator is not in the middle of an event.                         *)
Idle == rest = {} /\ ~disposed

(* Whether a ping of c to d, and the answer to it, have a way to go.       *)
Reaches(c, d) == c[1] = "APP" \/ d \in Adjacent(c[2])

(* Wrong variant: a counter without width.                                 *)
UnboundedTransactionId(id) == id + 1

(* m_currentTransactionId++ with its width; the protocols count the same   *)
(* way with a modulus.                                                     *)
GetNextTransactionId(id) == IF id = IdLimit - 1 THEN 0 ELSE id + 1

TakeId(c) ==
  /\ taken[c] < MaxIds
  /\ taken' = [taken EXCEPT ![c] = @ + 1]
  /\ m_currentTransactionId' =
       [m_currentTransactionId EXCEPT ![c] = GetNextTransactionId(@)]

HasIds(c, dests) == taken[c] + Cardinality(dests) <= MaxIds

(***************************************************************************)
(* Sending.                                                                *)
(***************************************************************************)
(* The loop of a command or of SendTraffic starts to send to dests.        *)
StartLoop(c, dests) ==
  /\ HasIds(c, dests)
  /\ sender' = c /\ rest' = dests

PingCommand(c, dests) ==
  /\ Idle
  /\ c \in Clients
  /\ commands < MaxCommands
  /\ commands' = commands + 1
  /\ StartLoop(c, dests)
  /\ UNCHANGED <<now, trackerVars, trafficVars, msgs, disposed, history>>

(* PING d, and PING * which goes to every node.                            *)
AppPing(n, dests) == PingCommand(App(n), dests)
LSPing(n, d) == PingCommand(<<"LS", n>>, {d})
DVPing(n, d) == PingCommand(<<"DV", n>>, {d})

(* One turn of the loop.  insert() leaves an entry that has the number.    *)
SendPing ==
  /\ \E d \in rest :
       /\ \A e \in rest : d <= e
       /\ rest' = rest \ {d}
       /\ LET id == m_currentTransactionId[sender]
              p  == [client |-> sender, id |-> id, dest |-> d, sent |-> now]
              m  == [type |-> "PING_REQ", client |-> sender, id |-> id, dest |-> d]
          IN  /\ m_pingTracker' =
                   IF \E q \in m_pingTracker : q.client = sender /\ q.id = id
                   THEN m_pingTracker ELSE m_pingTracker \cup {p}
              /\ pings' = pings \cup {p}
              /\ msgs' = IF Reaches(sender, d) THEN msgs \cup {m} ELSE msgs
  /\ TakeId(sender)
  /\ UNCHANGED <<now, m_auditPingsTimer, trafficVars, sender, disposed, commands,
                 served, answered, expired>>

(* The protocols number their other messages from the same counter.        *)
OtherMessage(c) ==
  /\ Idle
  /\ c[1] # "APP"
  /\ commands < MaxCommands
  /\ commands' = commands + 1
  /\ TakeId(c)
  /\ UNCHANGED <<now, m_pingTracker, m_auditPingsTimer, trafficVars, loopVars, msgs,
                 disposed, history>>

(***************************************************************************)
(* Receiving.                                                              *)
(***************************************************************************)
Matching(pgs, m) == {p \in pgs : p.client = m.client /\ p.id = m.id}

ProcessPingReq(m) ==
  /\ Idle
  /\ m.type = "PING_REQ"
  /\ msgs' = (msgs \ {m}) \cup {[m EXCEPT !.type = "PING_RSP"]}
  /\ served' = served \cup Matching(pings, m)
  /\ UNCHANGED <<now, trackerVars, trafficVars, loopVars, disposed, commands,
                 pings, answered, expired>>

(* Wrong variant: the entry stays in the tracker.                          *)
AnswerOnly(m) ==
  /\ answered' = answered \cup Matching(m_pingTracker, m)
  /\ UNCHANGED m_pingTracker

(* find() and erase() of the number; nothing when it is not there.         *)
EraseRequest(m) ==
  /\ answered' = answered \cup Matching(m_pingTracker, m)
  /\ m_pingTracker' = m_pingTracker \ Matching(m_pingTracker, m)

ProcessPingRsp(m) ==
  /\ Idle
  /\ m.type = "PING_RSP"
  /\ msgs' = msgs \ {m}
  /\ EraseRequest(m)
  /\ UNCHANGED <<now, m_currentTransactionId, m_auditPingsTimer, taken, trafficVars,
                 loopVars, disposed, commands, pings, served, expired>>

(* No route, an interface that is down, a full queue.                      *)
Lose(m) ==
  /\ Idle
  /\ msgs' = msgs \ {m}
  /\ UNCHANGED <<now, trackerVars, trafficVars, loopVars, disposed, commands, history>>

(***************************************************************************)
(* The audit of the tracker.                                               *)
(***************************************************************************)
(* Wrong variant: one millisecond early.                                   *)
StaleTooEarly(p) == p.sent + PingTimeout <= now + 1

Stale(p) == p.sent + PingTimeout <= now

(* Wrong variant: the timer is not scheduled again.                        *)
NoReschedule(c) == m_auditPingsTimer' = [m_auditPingsTimer EXCEPT ![c] = MaxTime + 1]

Reschedule(c) == m_auditPingsTimer' = [m_auditPingsTimer EXCEPT ![c] = now + PingTimeout]

AuditPings(c) ==
  /\ Idle
  /\ m_auditPingsTimer[c] = now
  /\ LET old == {p \in m_pingTracker : p.client = c /\ Stale(p)}
     IN  /\ m_pingTracker' = m_pingTracker \ old
         /\ expired' = expired \cup old
  /\ Reschedule(c)
  /\ UNCHANGED <<now, m_currentTransactionId, taken, trafficVars, loopVars, msgs,
                 disposed, commands, pings, served, answered>>

(***************************************************************************)
(* Traffic: pings to a set of nodes once in a period.  TRAFFIC ... * calls *)
(* StartTraffic or StopTraffic for all nodes in turn.                      *)
(***************************************************************************)
TrafficCommand ==
  /\ Idle
  /\ commands < MaxCommands
  /\ commands' = commands + 1
  /\ UNCHANGED <<now, trackerVars, loopVars, msgs, disposed, history>>

StartTraffic(n, dests) ==
  /\ TrafficCommand
  /\ m_trafficSet' = [m_trafficSet EXCEPT ![n] = @ \cup dests]
  /\ m_trafficRunning' = [m_trafficRunning EXCEPT ![n] = TRUE]
  /\ trafficEvents' = IF m_trafficRunning[n] THEN trafficEvents
                      ELSE [trafficEvents EXCEPT ![n] = Append(@, now)]

(* The flag is cleared by an erase() that leaves other nodes in the set.   *)
StopTraffic(n, dests) ==
  /\ TrafficCommand
  /\ m_trafficSet' = [m_trafficSet EXCEPT ![n] = @ \ dests]
  /\ m_trafficRunning' =
       [m_trafficRunning EXCEPT
          ![n] = @ /\ \A d \in dests \cap m_trafficSet[n] : m_trafficSet[n] = {d}]
  /\ UNCHANGED trafficEvents

(* Wrong variant: the event is not scheduled again.                        *)
SendOnce(events) == events

ScheduleTraffic(events) == Append(events, now + TrafficPeriod)

SendTraffic(n, i) ==
  /\ Idle
  /\ trafficEvents[n][i] = now
  /\ LET events == RemoveAt(trafficEvents[n], i)
     IN  IF m_trafficRunning[n]
         THEN /\ StartLoop(App(n), m_trafficSet[n])
              /\ trafficEvents' = [trafficEvents EXCEPT ![n] = ScheduleTraffic(events)]
         ELSE /\ trafficEvents' = [trafficEvents EXCEPT ![n] = events]
              /\ UNCHANGED loopVars
  /\ UNCHANGED <<now, trackerVars, m_trafficSet, m_trafficRunning, msgs, disposed,
                 commands, history>>

(***************************************************************************)
(* Time, and the end of the simulation.                                    *)
(***************************************************************************)
Tick ==
  /\ Idle
  /\ now < MaxTime
  /\ \A c \in Clients : now < m_auditPingsTimer[c]
  /\ \A n \in AppNodes : \A i \in 1 .. Len(trafficEvents[n]) : now < trafficEvents[n][i]
  /\ now' = now + 1
  /\ UNCHANGED <<trackerVars, trafficVars, loopVars, msgs, disposed, commands, history>>

(* DoDispose of the application and of both protocols.                     *)
DoDispose ==
  /\ Idle
  /\ disposed' = TRUE
  /\ m_pingTracker' = {}
  /\ UNCHANGED <<now, m_currentTransactionId, m_auditPingsTimer, taken, trafficVars,
                 loopVars, msgs, commands, history>>

Init ==
  /\ now = 0
  /\ m_pingTracker = {}
  /\ m_currentTransactionId = FirstId
  /\ m_auditPingsTimer = [c \in Clients |-> PingTimeout]
  /\ m_trafficSet = [n \in AppNodes |-> {}]
  /\ m_trafficRunning = [n \in AppNodes |-> FALSE]
  /\ trafficEvents = [n \in AppNodes |-> <<>>]
  /\ sender = (CHOOSE c \in Clients : TRUE) /\ rest = {}
  /\ msgs = {}
  /\ disposed = FALSE
  /\ taken = [c \in Clients |-> 0]
  /\ commands = 0
  /\ pings = {} /\ served = {} /\ answered = {} /\ expired = {}

(* The arguments of a command: one node or "*".                            *)
Targets == {{d} : d \in Nodes} \cup {Nodes}

Commands ==
  \/ \E n \in AppNodes, dests \in Targets :
       AppPing(n, dests) \/ StartTraffic(n, dests) \/ StopTraffic(n, dests)
  \/ \E n, d \in Nodes : LSPing(n, d) \/ DVPing(n, d)

(* What the simulator runs when its time has come.                         *)
Events ==
  \/ SendPing
  \/ \E c \in Clients : AuditPings(c)
  \/ \E n \in AppNodes : \E i \in 1 .. Len(trafficEvents[n]) : SendTraffic(n, i)

Next ==
  \/ Commands
  \/ Events
  \/ \E c \in Clients : OtherMessage(c)
  \/ \E m \in msgs : ProcessPingReq(m) \/ ProcessPingRsp(m) \/ Lose(m)
  \/ Tick
  \/ DoDispose

Spec == Init /\ [][Next]_vars

(* The simulator runs its events and its clock goes on; that a message     *)
(* arrives is not assumed.                                                 *)
FairSpec == Spec /\ WF_vars(Events) /\ WF_vars(Tick)

(***************************************************************************)
(* Properties.                                                             *)
(***************************************************************************)
Ping == [client : Clients, id : 0 .. IdLimit - 1, dest : Nodes, sent : Nat]
Message == [type : {"PING_REQ", "PING_RSP"}, client : Clients, id : 0 .. IdLimit - 1,
            dest : Nodes]

(* Every variable stays within its type; transaction numbers keep their    *)
(* width.                                                                  *)
TypeOK ==
  /\ now \in Nat
  /\ m_pingTracker \subseteq Ping
  /\ m_currentTransactionId \in [Clients -> 0 .. IdLimit - 1]
  /\ m_auditPingsTimer \in [Clients -> Nat]
  /\ m_trafficSet \in [AppNodes -> SUBSET Nodes]
  /\ m_trafficRunning \in [AppNodes -> BOOLEAN]
  /\ trafficEvents \in [AppNodes -> Seq(Nat)]
  /\ sender \in Clients /\ rest \subseteq Nodes
  /\ msgs \subseteq Message
  /\ disposed \in BOOLEAN
  /\ taken \in [Clients -> 0 .. MaxIds]
  /\ commands \in 0 .. MaxCommands
  /\ pings \subseteq Ping /\ served \subseteq pings
  /\ answered \subseteq pings /\ expired \subseteq pings

(* A PING_RSP that arrives before its ping is PingTimeout old finds the    *)
(* entry of that ping in the tracker, and comes from the node the ping was *)
(* sent to, though ProcessPingRsp looks at the number only.                *)
ResponsesFindRequests ==
  ~disposed =>
    \A m \in msgs : \A p \in Matching(pings, m) :
      (m.type = "PING_RSP" /\ now < p.sent + PingTimeout) =>
        Matching(m_pingTracker, m) = {p} /\ p.dest = m.dest

(* While m_trafficRunning is set a SendTraffic event is scheduled:         *)
(* StartTraffic, which schedules none then, never leaves it stuck.         *)
RunningHasTimer ==
  \A n \in AppNodes : m_trafficRunning[n] => trafficEvents[n] # <<>>

(* The trackers do what PingService promises.                              *)
Service == INSTANCE PingService
  WITH outstanding <- m_pingTracker, down <- disposed

ImplementsPingService == Service!Spec

SentAt(t) == {p \in m_pingTracker : p.sent = t}

(* The model has no numbers left for the traffic that is due.              *)
OutOfIds ==
  \E n \in AppNodes :
    /\ m_trafficRunning[n] /\ ~HasIds(App(n), m_trafficSet[n])
    /\ \E i \in 1 .. Len(trafficEvents[n]) : trafficEvents[n][i] = now

(* No entry stays in a tracker: the ping is answered or AuditPings removes *)
(* it.                                                                     *)
PingsResolve ==
  \A t \in 0 .. MaxTime - 2 * PingTimeout : SentAt(t) # {} ~> SentAt(t) = {} \/ OutOfIds

(* Traffic to the other nodes goes on when it is stopped for one.          *)
TrafficGoesOn == \A n \in AppNodes : m_trafficSet[n] # {} => m_trafficRunning[n]
=============================================================================
