--------------------------- MODULE TestAppProofs ---------------------------
(***************************************************************************)
(* For every set of clients, every timeout and every behaviour of the      *)
(* network: the ping trackers implement PingService, a response in time    *)
(* finds its request, and traffic that is marked as running has its timer. *)
(***************************************************************************)
EXTENDS TestApp, SequenceTheorems, TLAPS

(* The k-th number that client c takes.                                    *)
IdOf(c, k) == IF FirstId[c] + k >= IdLimit THEN FirstId[c] + k - IdLimit ELSE FirstId[c] + k

Numbered ==
  /\ \A c \in Clients : m_currentTransactionId[c] = IdOf(c, taken[c])
  /\ \A p \in pings : \E k \in 0 .. taken[p.client] - 1 : p.id = IdOf(p.client, k)

Unique == \A p, q \in pings : p.client = q.client /\ p.id = q.id => p = q

(* Every ping is in its tracker, answered or expired.                      *)
Accounted ==
  /\ m_pingTracker \subseteq pings
  /\ ~disposed => pings = m_pingTracker \cup answered \cup expired
  /\ disposed => rest = {}

(* A message belongs to a ping that has not been answered, and a ping has  *)
(* one message at most.                                                    *)
MessageOf(m, p) == m.client = p.client /\ m.id = p.id

MessagesKnown ==
  /\ \A m \in msgs : \E p \in pings \ answered :
       MessageOf(m, p) /\ m.dest = p.dest /\ (m.type = "PING_RSP" => p \in served)
  /\ \A m, k \in msgs : m.client = k.client /\ m.id = k.id => m = k

Timed ==
  /\ \A c \in Clients : now <= m_auditPingsTimer[c] /\ m_auditPingsTimer[c] <= now + PingTimeout
  /\ \A p \in m_pingTracker : m_auditPingsTimer[p.client] < p.sent + 2 * PingTimeout
  /\ \A p \in expired : p.sent + PingTimeout <= now

IInv == TypeOK /\ Numbered /\ Unique /\ Accounted /\ MessagesKnown /\ Timed /\ RunningHasTimer

(***************************************************************************)
(* Facts about numbers and sequences.                                      *)
(***************************************************************************)
(* Within one turn of the counter, numbers are numbers and differ.         *)
LEMMA IdOfProperties ==
  ASSUME NEW c \in Clients, NEW j \in 0 .. IdLimit - 1
  PROVE  /\ IdOf(c, j) \in 0 .. IdLimit - 1
         /\ GetNextTransactionId(IdOf(c, j)) = IdOf(c, j + 1)
         /\ \A k \in 0 .. j - 1 : IdOf(c, k) # IdOf(c, j)
<1>1. FirstId[c] \in 0 .. IdLimit - 1 /\ IdLimit \in Nat
  BY IdsAssumption
<1> QED BY <1>1 DEF IdOf, GetNextTransactionId

(* Removing an element leaves a sequence.                                  *)
LEMMA RemoveAtType ==
  ASSUME NEW S, NEW s \in Seq(S), NEW i \in 1 .. Len(s)
  PROVE  RemoveAt(s, i) \in Seq(S)
<1>1. SubSeq(s, 1, i - 1) \in Seq(S) /\ SubSeq(s, i + 1, Len(s)) \in Seq(S)
  OBVIOUS
<1> QED BY <1>1, ConcatProperties DEF RemoveAt

(* TakeId moves the client's counter on by one.                            *)
LEMMA TakeIdProperties ==
  ASSUME TypeOK, Numbered, NEW c \in Clients, TakeId(c)
  PROVE  /\ taken' \in [Clients -> 0 .. MaxIds]
         /\ m_currentTransactionId' \in [Clients -> 0 .. IdLimit - 1]
         /\ \A d \in Clients : m_currentTransactionId'[d] = IdOf(d, taken'[d])
         /\ taken'[c] = taken[c] + 1
         /\ \A d \in Clients : taken[d] <= taken'[d]
         /\ taken[c] \in 0 .. IdLimit - 1
<1>1. taken[c] \in 0 .. MaxIds - 1 /\ taken[c] \in 0 .. IdLimit - 1
  BY IdsAssumption DEF TypeOK, TakeId
<1>2. m_currentTransactionId[c] = IdOf(c, taken[c])
  BY DEF Numbered
<1>3. GetNextTransactionId(m_currentTransactionId[c]) = IdOf(c, taken[c] + 1)
  BY <1>1, <1>2, IdOfProperties
<1>4. GetNextTransactionId(m_currentTransactionId[c]) \in 0 .. IdLimit - 1
  <2>1. m_currentTransactionId[c] \in 0 .. IdLimit - 1 /\ IdLimit \in Nat \ {0}
    BY IdsAssumption DEF TypeOK
  <2> QED BY <2>1 DEF GetNextTransactionId
<1>5. taken' \in [Clients -> 0 .. MaxIds] /\ taken'[c] = taken[c] + 1
      /\ \A d \in Clients : taken[d] <= taken'[d]
  BY <1>1, IdsAssumption DEF TypeOK, TakeId
<1>6. m_currentTransactionId' \in [Clients -> 0 .. IdLimit - 1]
  BY <1>4 DEF TypeOK, TakeId
<1>7. ASSUME NEW d \in Clients PROVE m_currentTransactionId'[d] = IdOf(d, taken'[d])
  <2>1. CASE d = c
    BY <1>3, <1>5, <2>1 DEF TypeOK, TakeId
  <2>2. CASE d # c
    BY <2>2 DEF TypeOK, TakeId, Numbered
  <2> QED BY <2>1, <2>2
<1> QED BY <1>1, <1>5, <1>6, <1>7

(***************************************************************************)
(* The inductive invariant.                                                *)
(***************************************************************************)
(* It holds at the start,                                                  *)
LEMMA InitIInv == Init => IInv
<1> SUFFICES ASSUME Init PROVE IInv
  OBVIOUS
<1>1. sender \in Clients
  BY ClientsAssumption DEF Init
<1>2. <<>> \in Seq(Nat)
  OBVIOUS
<1>3. trafficEvents \in [AppNodes -> Seq(Nat)]
  BY <1>2 DEF Init
<1>4. TypeOK
  <2>1. /\ m_auditPingsTimer \in [Clients -> Nat] /\ taken \in [Clients -> 0 .. MaxIds]
        /\ commands \in 0 .. MaxCommands /\ now \in Nat
        /\ m_currentTransactionId \in [Clients -> 0 .. IdLimit - 1]
    BY IdsAssumption, TimesAssumption DEF Init
  <2>2. /\ m_trafficSet \in [AppNodes -> SUBSET Nodes]
        /\ m_trafficRunning \in [AppNodes -> BOOLEAN]
    BY DEF Init
  <2> QED BY <1>1, <1>3, <2>1, <2>2 DEF Init, TypeOK
<1>5. Numbered
  BY IdsAssumption DEF Init, Numbered, IdOf
<1>6. Timed
  BY TimesAssumption DEF Init, Timed
<1> QED BY <1>4, <1>5, <1>6 DEF Init, IInv, Unique, Accounted, MessagesKnown, RunningHasTimer

(* sending a ping preserves it,                                            *)
LEMMA SendPingIInv == IInv /\ SendPing => IInv'
<1> SUFFICES ASSUME IInv, SendPing PROVE IInv'
  OBVIOUS
<1> USE DEF trackerVars, trafficVars, loopVars, history
<1>1. PICK d \in rest :
        /\ rest' = rest \ {d}
        /\ LET id == m_currentTransactionId[sender]
               p  == [client |-> sender, id |-> id, dest |-> d, sent |-> now]
               m  == [type |-> "PING_REQ", client |-> sender, id |-> id, dest |-> d]
           IN  /\ m_pingTracker' =
                    IF \E q \in m_pingTracker : q.client = sender /\ q.id = id
                    THEN m_pingTracker ELSE m_pingTracker \cup {p}
               /\ pings' = pings \cup {p}
               /\ msgs' = IF Reaches(sender, d) THEN msgs \cup {m} ELSE msgs
  BY DEF SendPing
<1> DEFINE id == m_currentTransactionId[sender]
           p  == [client |-> sender, id |-> id, dest |-> d, sent |-> now]
           m  == [type |-> "PING_REQ", client |-> sender, id |-> id, dest |-> d]
<1>2. sender \in Clients /\ d \in Nodes /\ id \in 0 .. IdLimit - 1 /\ now \in Nat
  BY DEF IInv, TypeOK
<1>3. p \in Ping /\ m \in Message
  BY <1>2 DEF Ping, Message
<1>4. TakeId(sender)
  BY DEF SendPing
<1>5. /\ taken' \in [Clients -> 0 .. MaxIds]
      /\ m_currentTransactionId' \in [Clients -> 0 .. IdLimit - 1]
      /\ \A c \in Clients : m_currentTransactionId'[c] = IdOf(c, taken'[c])
      /\ taken'[sender] = taken[sender] + 1
      /\ \A c \in Clients : taken[c] <= taken'[c]
      /\ taken[sender] \in 0 .. IdLimit - 1
  BY <1>2, <1>4, TakeIdProperties DEF IInv
<1>6. id = IdOf(sender, taken[sender])
  BY <1>2 DEF IInv, Numbered
<1>7. \A q \in pings : q.client # sender \/ q.id # id
  <2> SUFFICES ASSUME NEW q \in pings, q.client = sender, q.id = id PROVE FALSE
    OBVIOUS
  <2>1. PICK k \in 0 .. taken[sender] - 1 : q.id = IdOf(sender, k)
    BY DEF IInv, Numbered
  <2> QED BY <1>2, <1>5, <1>6, <2>1, IdOfProperties
<1>8. m_pingTracker' = m_pingTracker \cup {p} /\ pings' = pings \cup {p}
  BY <1>1, <1>7 DEF IInv, Accounted
<1>9. msgs' \subseteq msgs \cup {m}
  BY <1>1
<1>10. ~disposed /\ ~disposed'
  BY <1>1 DEF SendPing, IInv, Accounted, TypeOK
<1>11. \A q \in pings : q.client \in Clients
  BY DEF IInv, TypeOK, Ping
<1>12. p \notin answered /\ p \notin pings
  BY <1>7 DEF IInv, TypeOK
<1>13. TypeOK'
  <2>1. m_pingTracker' \subseteq Ping /\ pings' \subseteq Ping /\ msgs' \subseteq Message
    BY <1>3, <1>8, <1>9 DEF IInv, TypeOK
  <2>2. served' \subseteq pings' /\ answered' \subseteq pings' /\ expired' \subseteq pings'
    BY <1>8 DEF IInv, TypeOK, SendPing
  <2> QED BY <1>1, <1>5, <2>1, <2>2 DEF IInv, TypeOK, SendPing
<1>14. Numbered'
  <2>1. ASSUME NEW q \in pings' PROVE \E k \in 0 .. taken'[q.client] - 1 : q.id = IdOf(q.client, k)
    <3>1. CASE q = p
      <4>1. taken[sender] \in 0 .. taken'[sender] - 1
        BY <1>5
      <4> QED BY <1>6, <3>1, <4>1
    <3>2. CASE q \in pings
      <4>1. PICK k \in 0 .. taken[q.client] - 1 : q.id = IdOf(q.client, k)
        BY <3>2 DEF IInv, Numbered
      <4>2. q.client \in Clients
        BY <1>11, <3>2
      <4>3. taken[q.client] \in Nat /\ taken'[q.client] \in Nat /\ taken[q.client] <= taken'[q.client]
        BY <1>5, <4>2, IdsAssumption DEF IInv, TypeOK
      <4>4. k \in 0 .. taken'[q.client] - 1
        BY <4>3
      <4> QED BY <4>1, <4>4
    <3> QED BY <1>8, <2>1, <3>1, <3>2
  <2>2. \A c \in Clients : m_currentTransactionId'[c] = IdOf(c, taken'[c])
    BY <1>5
  <2> QED BY <2>1, <2>2 DEF Numbered, IdOf
<1>15. Unique'
  <2>1. p.client = sender /\ p.id = id
    OBVIOUS
  <2> HIDE DEF p, m, id
  <2> QED BY <1>7, <1>8, <2>1 DEF IInv, Unique
<1>16. Accounted'
  <2> HIDE DEF p, m, id
  <2>1. answered' = answered /\ expired' = expired
    BY DEF SendPing
  <2> QED BY <1>8, <1>10, <2>1 DEF IInv, Accounted
<1>17. MessagesKnown'
  <2>1. /\ m.client = p.client /\ m.id = p.id /\ m.dest = p.dest /\ m.type # "PING_RSP"
        /\ p.client = sender /\ p.id = id
    OBVIOUS
  <2>2. answered' = answered /\ served' = served
    BY DEF SendPing
  <2> HIDE DEF p, m, id
  <2>3. ASSUME NEW k \in msgs'
        PROVE  \E q \in pings' \ answered' :
                 MessageOf(k, q) /\ k.dest = q.dest /\ (k.type = "PING_RSP" => q \in served')
    <3>1. CASE k = m
      BY <1>8, <1>12, <2>1, <2>2, <3>1 DEF MessageOf
    <3>2. CASE k \in msgs
      BY <1>8, <2>2, <3>2 DEF IInv, MessagesKnown
    <3> QED BY <1>9, <3>1, <3>2
  <2>4. ASSUME NEW k \in msgs PROVE k.client # m.client \/ k.id # m.id
    BY <1>7, <2>1 DEF IInv, MessagesKnown, MessageOf
  <2>5. \A k, l \in msgs' : k.client = l.client /\ k.id = l.id => k = l
    BY <1>9, <2>4 DEF IInv, MessagesKnown
  <2> QED BY <2>3, <2>5 DEF MessagesKnown, MessageOf
<1>18. Timed'
  <2>1. now' = now /\ m_auditPingsTimer' = m_auditPingsTimer /\ expired' = expired
    BY DEF SendPing
  <2>2. p.client = sender /\ p.sent = now
    OBVIOUS
  <2>3. m_auditPingsTimer[sender] < now + 2 * PingTimeout
    <3>1. m_auditPingsTimer[sender] \in Nat
      BY <1>2 DEF IInv, TypeOK
    <3> QED BY <1>2, <3>1, TimesAssumption DEF IInv, Timed
  <2> HIDE DEF p, m, id
  <2> QED BY <1>8, <2>1, <2>2, <2>3 DEF IInv, Timed
<1>19. RunningHasTimer'
  BY DEF IInv, RunningHasTimer, SendPing
<1> QED BY <1>13, <1>14, <1>15, <1>16, <1>17, <1>18, <1>19 DEF IInv

(* and so do the other steps.                                              *)
LEMMA NextIInv == IInv /\ [Next]_vars => IInv'
<1> SUFFICES ASSUME IInv, [Next]_vars PROVE IInv'
  OBVIOUS
<1> USE DEF trackerVars, trafficVars, loopVars, history
<1>1. ASSUME NEW c \in Clients, NEW dests \in SUBSET Nodes, PingCommand(c, dests) PROVE IInv'
  <2>1. TypeOK'
    BY <1>1, IdsAssumption DEF PingCommand, StartLoop, IInv, TypeOK
  <2> QED BY <1>1, <2>1 DEF PingCommand, Idle, IInv, Numbered, Unique, Accounted, MessagesKnown,
            Timed, RunningHasTimer
<1>2. ASSUME NEW n \in AppNodes, NEW dests \in SUBSET Nodes, StartTraffic(n, dests) PROVE IInv'
  <2>1. trafficEvents' \in [AppNodes -> Seq(Nat)]
        /\ (m_trafficRunning[n] \/ trafficEvents'[n] # <<>>)
    <3>1. now \in Nat /\ trafficEvents[n] \in Seq(Nat)
      BY DEF IInv, TypeOK
    <3>2. Append(trafficEvents[n], now) \in Seq(Nat) /\ Append(trafficEvents[n], now) # <<>>
      BY <3>1, AppendProperties
    <3> QED BY <1>2, <3>2 DEF StartTraffic, IInv, TypeOK
  <2>2. m_trafficSet' \in [AppNodes -> SUBSET Nodes] /\ m_trafficRunning' \in [AppNodes -> BOOLEAN]
    BY <1>2 DEF StartTraffic, IInv, TypeOK
  <2>3. TypeOK'
    BY <1>2, <2>1, <2>2, IdsAssumption DEF StartTraffic, TrafficCommand, IInv, TypeOK
  <2>4. RunningHasTimer'
    <3> SUFFICES ASSUME NEW k \in AppNodes, m_trafficRunning'[k] PROVE trafficEvents'[k] # <<>>
      BY DEF RunningHasTimer
    <3>1. CASE k = n
      BY <1>2, <2>1, <3>1 DEF StartTraffic, IInv, RunningHasTimer
    <3>2. CASE k # n
      BY <1>2, <3>2 DEF StartTraffic, IInv, RunningHasTimer, TypeOK
    <3> QED BY <3>1, <3>2
  <2> QED BY <1>2, <2>3, <2>4 DEF StartTraffic, TrafficCommand, IInv, Numbered, Unique, Accounted,
            MessagesKnown, Timed
<1>3. ASSUME NEW n \in AppNodes, NEW dests \in SUBSET Nodes, StopTraffic(n, dests) PROVE IInv'
  <2>1. m_trafficSet' \in [AppNodes -> SUBSET Nodes]
    BY <1>3 DEF StopTraffic, IInv, TypeOK
  <2>2. m_trafficRunning' \in [AppNodes -> BOOLEAN]
        /\ \A k \in AppNodes : m_trafficRunning'[k] => m_trafficRunning[k]
    <3> DEFINE others == \A d \in dests \cap m_trafficSet[n] : m_trafficSet[n] = {d}
    <3>1. m_trafficRunning' = [m_trafficRunning EXCEPT ![n] = @ /\ others]
      BY <1>3 DEF StopTraffic
    <3>2. others \in BOOLEAN
      OBVIOUS
    <3> HIDE DEF others
    <3> QED BY <3>1, <3>2, Zenon DEF IInv, TypeOK
  <2>3. TypeOK'
    BY <1>3, <2>1, <2>2, IdsAssumption DEF StopTraffic, TrafficCommand, IInv, TypeOK
  <2>4. RunningHasTimer'
    BY <1>3, <2>2 DEF StopTraffic, IInv, RunningHasTimer
  <2> QED BY <1>3, <2>3, <2>4 DEF StopTraffic, TrafficCommand, IInv, Numbered, Unique, Accounted,
            MessagesKnown, Timed
<1>4. CASE SendPing
  BY <1>4, SendPingIInv
<1>5. ASSUME NEW c \in Clients, AuditPings(c) PROVE IInv'
  <2> DEFINE old == {p \in m_pingTracker : p.client = c /\ Stale(p)}
  <2>1. m_pingTracker' = m_pingTracker \ old /\ expired' = expired \cup old
    BY <1>5 DEF AuditPings
  <2>2. m_auditPingsTimer' = [m_auditPingsTimer EXCEPT ![c] = now + PingTimeout]
        /\ m_auditPingsTimer' \in [Clients -> Nat] /\ now \in Nat
    BY <1>5, TimesAssumption DEF AuditPings, Reschedule, IInv, TypeOK
  <2>3. TypeOK'
    BY <1>5, <2>1, <2>2 DEF AuditPings, IInv, TypeOK, Accounted
  <2>4. Timed'
    <3>1. ASSUME NEW d \in Clients
          PROVE  now <= m_auditPingsTimer'[d] /\ m_auditPingsTimer'[d] <= now + PingTimeout
      BY <2>2, TimesAssumption DEF IInv, TypeOK, Timed
    <3>2. ASSUME NEW p \in m_pingTracker'
          PROVE  m_auditPingsTimer'[p.client] < p.sent + 2 * PingTimeout
      <4>1. p \in m_pingTracker /\ p \notin old /\ p.client \in Clients /\ p.sent \in Nat
        BY <2>1 DEF IInv, TypeOK, Ping
      <4>2. CASE p.client = c
        <5>1. ~(p.sent + PingTimeout <= now)
          BY <4>1, <4>2 DEF Stale
        <5> QED BY <2>2, <4>1, <4>2, <5>1, TimesAssumption DEF IInv, TypeOK
      <4>3. CASE p.client # c
        BY <2>2, <4>1, <4>3 DEF IInv, TypeOK, Timed
      <4> QED BY <4>2, <4>3
    <3>3. ASSUME NEW p \in expired' PROVE p.sent + PingTimeout <= now
      BY <2>1 DEF IInv, Timed, Stale
    <3>4. now' = now
      BY <1>5 DEF AuditPings
    <3> QED BY <3>1, <3>2, <3>3, <3>4 DEF Timed
  <2>5. Accounted'
    BY <1>5, <2>1 DEF AuditPings, Idle, IInv, Accounted
  <2> QED BY <1>5, <2>3, <2>4, <2>5 DEF AuditPings, IInv, Numbered, Unique,
            MessagesKnown, RunningHasTimer
<1>6. ASSUME NEW n \in AppNodes, NEW i \in 1 .. Len(trafficEvents[n]), SendTraffic(n, i) PROVE IInv'
  <2> DEFINE events == RemoveAt(trafficEvents[n], i)
  <2>1. now + TrafficPeriod \in Nat /\ trafficEvents[n] \in Seq(Nat) /\ now \in Nat
    BY TimesAssumption DEF IInv, TypeOK
  <2>2. events \in Seq(Nat)
    BY <2>1, RemoveAtType
  <2> HIDE DEF events
  <2>3. ScheduleTraffic(events) \in Seq(Nat) /\ ScheduleTraffic(events) # <<>>
    BY <2>1, <2>2, AppendProperties DEF ScheduleTraffic
  <2>4. trafficEvents' = [trafficEvents EXCEPT ![n] =
                            IF m_trafficRunning[n] THEN ScheduleTraffic(events) ELSE events]
    BY <1>6 DEF SendTraffic, events
  <2>5. sender' \in Clients /\ rest' \subseteq Nodes
    BY <1>6 DEF SendTraffic, StartLoop, AppNodes, IInv, TypeOK
  <2>6. TypeOK'
    BY <1>6, <2>2, <2>3, <2>4, <2>5 DEF SendTraffic, IInv, TypeOK
  <2>7. RunningHasTimer'
    BY <1>6, <2>3, <2>4 DEF SendTraffic, IInv, RunningHasTimer, TypeOK
  <2> QED BY <1>6, <2>6, <2>7 DEF SendTraffic, Idle, IInv, Numbered, Unique, Accounted,
            MessagesKnown, Timed
<1>7. ASSUME NEW c \in Clients, OtherMessage(c) PROVE IInv'
  <2>1. /\ taken' \in [Clients -> 0 .. MaxIds]
        /\ m_currentTransactionId' \in [Clients -> 0 .. IdLimit - 1]
        /\ \A d \in Clients : m_currentTransactionId'[d] = IdOf(d, taken'[d])
        /\ \A d \in Clients : taken[d] <= taken'[d]
    BY <1>7, TakeIdProperties DEF OtherMessage, IInv
  <2>2. TypeOK'
    <3>1. /\ UNCHANGED <<now, m_pingTracker, m_auditPingsTimer, msgs, disposed>>
          /\ UNCHANGED <<m_trafficSet, m_trafficRunning, trafficEvents, sender, rest>>
          /\ UNCHANGED <<pings, served, answered, expired>>
      BY <1>7 DEF OtherMessage, trafficVars, loopVars, history
    <3>2. commands' \in 0 .. MaxCommands
      BY <1>7, IdsAssumption DEF OtherMessage, IInv, TypeOK
    <3> QED BY <2>1, <3>1, <3>2 DEF IInv, TypeOK
  <2>3. Numbered'
    <3>1. ASSUME NEW q \in pings PROVE \E k \in 0 .. taken'[q.client] - 1 : q.id = IdOf(q.client, k)
      <4>1. PICK k \in 0 .. taken[q.client] - 1 : q.id = IdOf(q.client, k)
        BY DEF IInv, Numbered
      <4>2. q.client \in Clients
        BY DEF IInv, TypeOK, Ping
      <4>3. taken[q.client] \in Nat /\ taken'[q.client] \in Nat /\ taken[q.client] <= taken'[q.client]
        BY <2>1, <4>2, IdsAssumption DEF IInv, TypeOK
      <4>4. k \in 0 .. taken'[q.client] - 1
        BY <4>3
      <4> QED BY <4>1, <4>4
    <3>2. pings' = pings
      BY <1>7 DEF OtherMessage
    <3> QED BY <2>1, <3>1, <3>2 DEF Numbered, IdOf
  <2> QED BY <1>7, <2>2, <2>3 DEF OtherMessage, IInv, Unique, Accounted, MessagesKnown, Timed,
            RunningHasTimer
<1>8. ASSUME NEW m \in msgs, ProcessPingReq(m) PROVE IInv'
  <2> DEFINE r == [m EXCEPT !.type = "PING_RSP"]
  <2>1. /\ r \in Message /\ r.client = m.client /\ r.id = m.id /\ r.dest = m.dest
    BY DEF IInv, TypeOK, Message
  <2>2. msgs' = (msgs \ {m}) \cup {r} /\ served' = served \cup Matching(pings, m)
        /\ pings' = pings /\ answered' = answered
    BY <1>8 DEF ProcessPingReq
  <2> HIDE DEF r
  <2>3. TypeOK'
    BY <1>8, <2>1, <2>2 DEF ProcessPingReq, IInv, TypeOK, Matching
  <2>4. MessagesKnown'
    <3>1. ASSUME NEW k \in msgs'
          PROVE  \E q \in pings \ answered :
                   MessageOf(k, q) /\ k.dest = q.dest /\ (k.type = "PING_RSP" => q \in served')
      <4>1. CASE k = r
        <5>1. PICK q \in pings \ answered : MessageOf(m, q) /\ m.dest = q.dest
          BY DEF IInv, MessagesKnown
        <5>2. q \in served'
          BY <2>2, <5>1 DEF Matching, MessageOf
        <5> QED BY <2>1, <4>1, <5>1, <5>2 DEF MessageOf
      <4>2. CASE k \in msgs
        BY <2>2, <4>2 DEF IInv, MessagesKnown
      <4> QED BY <2>2, <4>1, <4>2
    <3>2. \A k, l \in msgs' : k.client = l.client /\ k.id = l.id => k = l
      BY <2>1, <2>2 DEF IInv, MessagesKnown
    <3> QED BY <2>2, <3>1, <3>2 DEF MessagesKnown, MessageOf
  <2> QED BY <1>8, <2>3, <2>4 DEF ProcessPingReq, IInv, Numbered, Unique, Accounted, Timed,
            RunningHasTimer
<1>9. ASSUME NEW m \in msgs, ProcessPingRsp(m) PROVE IInv'
  <2> DEFINE found == Matching(m_pingTracker, m)
  <2>1. /\ m_pingTracker' = m_pingTracker \ found /\ answered' = answered \cup found
        /\ msgs' = msgs \ {m} /\ pings' = pings /\ served' = served
    BY <1>9 DEF ProcessPingRsp, EraseRequest
  <2>2. found \subseteq m_pingTracker /\ \A q \in found : MessageOf(m, q)
    BY DEF Matching, MessageOf
  <2> HIDE DEF found
  <2>3. TypeOK'
    BY <1>9, <2>1, <2>2 DEF ProcessPingRsp, IInv, TypeOK, Accounted
  <2>4. MessagesKnown'
    <3>1. ASSUME NEW k \in msgs'
          PROVE  \E q \in pings \ answered' :
                   MessageOf(k, q) /\ k.dest = q.dest /\ (k.type = "PING_RSP" => q \in served)
      <4>1. PICK q \in pings \ answered :
              MessageOf(k, q) /\ k.dest = q.dest /\ (k.type = "PING_RSP" => q \in served)
        BY <2>1 DEF IInv, MessagesKnown
      <4>2. q \notin found
        BY <2>1, <2>2, <4>1 DEF IInv, MessagesKnown, MessageOf
      <4> QED BY <2>1, <4>1, <4>2
    <3> QED BY <2>1, <3>1 DEF IInv, MessagesKnown, MessageOf
  <2>5. Accounted'
    BY <1>9, <2>1, <2>2 DEF ProcessPingRsp, IInv, Accounted
  <2>6. Timed'
    BY <1>9, <2>1 DEF ProcessPingRsp, IInv, Timed
  <2> QED BY <1>9, <2>3, <2>4, <2>5, <2>6 DEF ProcessPingRsp, IInv, Numbered, Unique,
            RunningHasTimer
<1>10. ASSUME NEW m \in msgs, Lose(m) PROVE IInv'
  <2>1. TypeOK'
    BY <1>10 DEF Lose, IInv, TypeOK
  <2> QED BY <1>10, <2>1 DEF Lose, IInv, Numbered, Unique, Accounted, MessagesKnown, MessageOf,
            Timed, RunningHasTimer
<1>11. CASE Tick
  <2>1. TypeOK'
    BY <1>11 DEF Tick, IInv, TypeOK
  <2>2. Timed'
    <3>1. now \in Nat /\ now' = now + 1 /\ \A c \in Clients : m_auditPingsTimer[c] \in Nat
      BY <1>11 DEF Tick, IInv, TypeOK
    <3>2. \A p \in expired : p.sent \in Nat
      BY DEF IInv, TypeOK, Ping
    <3>3. UNCHANGED <<m_auditPingsTimer, m_pingTracker, expired>>
          /\ \A c \in Clients : now < m_auditPingsTimer[c]
      BY <1>11 DEF Tick
    <3> QED BY <3>1, <3>2, <3>3, TimesAssumption DEF IInv, Timed
  <2> QED BY <1>11, <2>1, <2>2 DEF Tick, IInv, Numbered, Unique, Accounted, MessagesKnown,
            RunningHasTimer
<1>12. CASE DoDispose
  <2>1. TypeOK'
    BY <1>12 DEF DoDispose, IInv, TypeOK
  <2> QED BY <1>12, <2>1 DEF DoDispose, Idle, IInv, Numbered, Unique, Accounted, MessagesKnown,
            Timed, RunningHasTimer
<1>13. CASE UNCHANGED vars
  <2>1. TypeOK'
    BY <1>13 DEF vars, IInv, TypeOK
  <2> QED BY <1>13, <2>1 DEF vars, IInv, Numbered, Unique, Accounted, MessagesKnown, Timed,
            RunningHasTimer
<1>14. \A dests \in Targets : dests \in SUBSET Nodes
  BY DEF Targets
<1>15. CASE Commands
  <2>1. ASSUME NEW n \in AppNodes, NEW dests \in Targets, AppPing(n, dests) PROVE IInv'
    BY <1>1, <1>14, <2>1 DEF AppPing, AppNodes
  <2>2. ASSUME NEW n \in Nodes, NEW d \in Nodes, LSPing(n, d) PROVE IInv'
    BY <1>1, <2>2 DEF LSPing, PingCommand
  <2>3. ASSUME NEW n \in Nodes, NEW d \in Nodes, DVPing(n, d) PROVE IInv'
    BY <1>1, <2>3 DEF DVPing, PingCommand
  <2> QED BY <1>2, <1>3, <1>14, <1>15, <2>1, <2>2, <2>3 DEF Commands
<1>16. CASE Events
  BY <1>4, <1>5, <1>6, <1>16 DEF Events
<1> QED BY <1>7, <1>8, <1>9, <1>10, <1>11, <1>12, <1>13, <1>15, <1>16 DEF Next

(* So it holds throughout.                                                 *)
LEMMA Invariance == Spec => []IInv
BY InitIInv, NextIInv, PTL DEF Spec

(***************************************************************************)
(* The theorems.                                                           *)
(***************************************************************************)
(* Every variable keeps its type; transaction numbers keep their width.    *)
THEOREM TypeCorrect == Spec => []TypeOK
<1>1. IInv => TypeOK
  BY DEF IInv
<1> QED BY <1>1, Invariance, PTL

(* m_trafficRunning is never set without a SendTraffic event in the queue. *)
THEOREM TrafficTimer == Spec => []RunningHasTimer
<1>1. IInv => RunningHasTimer
  BY DEF IInv
<1> QED BY <1>1, Invariance, PTL

(* A PING_RSP that arrives in time finds the entry of its ping and comes   *)
(* from the node that was pinged.                                          *)
THEOREM ResponsesInTime == Spec => []ResponsesFindRequests
<1>1. ASSUME IInv PROVE ResponsesFindRequests
  <2> SUFFICES ASSUME ~disposed, NEW m \in msgs, NEW p \in Matching(pings, m),
                      m.type = "PING_RSP", now < p.sent + PingTimeout
               PROVE  Matching(m_pingTracker, m) = {p} /\ p.dest = m.dest
    BY DEF ResponsesFindRequests
  <2>1. p \in pings /\ p.client = m.client /\ p.id = m.id
    BY DEF Matching
  <2>2. PICK q \in pings \ answered : MessageOf(m, q) /\ m.dest = q.dest
    BY <1>1 DEF IInv, MessagesKnown
  <2>3. q = p
    BY <1>1, <2>1, <2>2 DEF IInv, Unique, MessageOf
  <2>4. p \notin expired
    <3>1. p.sent \in Nat /\ now \in Nat
      BY <1>1, <2>1 DEF IInv, TypeOK, Ping
    <3> QED BY <1>1, <3>1, TimesAssumption DEF IInv, Timed
  <2>5. p \in m_pingTracker
    BY <1>1, <2>1, <2>2, <2>3, <2>4 DEF IInv, Accounted
  <2>6. \A e \in Matching(m_pingTracker, m) : e = p
    BY <1>1, <2>1 DEF IInv, Accounted, Unique, Matching
  <2> QED BY <2>1, <2>2, <2>3, <2>5, <2>6 DEF Matching
<1> QED BY <1>1, Invariance, PTL

(* Every step of the trackers is a step of PingService or changes nothing  *)
(* that it sees.                                                           *)
LEMMA StepSimulation == IInv /\ [Next]_vars => [Service!Next]_(Service!vars)
<1> SUFFICES ASSUME IInv, [Next]_vars PROVE [Service!Next]_(Service!vars)
  OBVIOUS
<1> USE DEF trackerVars, trafficVars, loopVars, history
<1> DEFINE Same == UNCHANGED <<now, m_pingTracker, served, answered, expired, disposed>>
<1>0. Same => Service!vars' = Service!vars
  BY DEF Service!vars
<1>1. ASSUME NEW c, NEW dests, PingCommand(c, dests) PROVE Same
  BY <1>1 DEF PingCommand
<1>2. ASSUME NEW n, NEW dests, StartTraffic(n, dests) \/ StopTraffic(n, dests) PROVE Same
  BY <1>2 DEF StartTraffic, StopTraffic, TrafficCommand
<1>3. CASE SendPing
  <2>1. PICK d \in rest :
        LET id == m_currentTransactionId[sender]
            p  == [client |-> sender, id |-> id, dest |-> d, sent |-> now]
        IN  /\ m_pingTracker' =
                 IF \E q \in m_pingTracker : q.client = sender /\ q.id = id
                 THEN m_pingTracker ELSE m_pingTracker \cup {p}
            /\ pings' = pings \cup {p}
    BY <1>3 DEF SendPing
  <2> DEFINE id == m_currentTransactionId[sender]
             p  == [client |-> sender, id |-> id, dest |-> d, sent |-> now]
  <2>2. sender \in Clients /\ TakeId(sender) /\ ~disposed
    BY <1>3 DEF SendPing, IInv, TypeOK, Accounted
  <2>3. taken[sender] \in 0 .. IdLimit - 1
    BY <2>2, TakeIdProperties DEF IInv
  <2>4. \A q \in pings : q.client # sender \/ q.id # id
    <3> SUFFICES ASSUME NEW q \in pings, q.client = sender, q.id = id PROVE FALSE
      OBVIOUS
    <3>1. PICK k \in 0 .. taken[sender] - 1 : q.id = IdOf(sender, k)
      BY DEF IInv, Numbered
    <3>2. id = IdOf(sender, taken[sender])
      BY <2>2 DEF IInv, Numbered
    <3>3. IdOf(sender, k) # IdOf(sender, taken[sender])
      BY <2>2, <2>3, IdOfProperties
    <3> QED BY <3>1, <3>2, <3>3
  <2>5. m_pingTracker' = m_pingTracker \cup {p}
    BY <2>1, <2>4 DEF IInv, Accounted
  <2>6. p.sent = now /\ p.client = sender /\ p.id = id
    OBVIOUS
  <2>7. UNCHANGED <<now, served, answered, expired, disposed>>
    BY <1>3 DEF SendPing
  <2> HIDE DEF p, id
  <2>8. Service!Send(p)
    BY <2>2, <2>4, <2>5, <2>6, <2>7 DEF Service!Send, Service!Pings, IInv, Accounted
  <2> QED BY <2>2, <2>5, <2>8 DEF Service!Next
<1>4. ASSUME NEW c \in Clients, AuditPings(c) PROVE Service!Next
  <2> DEFINE old == {p \in m_pingTracker : p.client = c /\ Stale(p)}
  <2>1. /\ m_pingTracker' = m_pingTracker \ old /\ expired' = expired \cup old
        /\ UNCHANGED <<now, served, answered, disposed>>
    BY <1>4 DEF AuditPings
  <2>2. old \in SUBSET m_pingTracker /\ \A p \in old : p.sent + PingTimeout <= now
    BY DEF Stale
  <2> HIDE DEF old
  <2>3. Service!Expire(old)
    BY <2>1, <2>2 DEF Service!Expire
  <2>4. ~disposed
    BY <1>4 DEF AuditPings, Idle
  <2> QED BY <2>2, <2>3, <2>4 DEF Service!Next
<1>5. ASSUME NEW n, NEW i, SendTraffic(n, i) PROVE Same
  BY <1>5 DEF SendTraffic
<1>6. ASSUME NEW c, OtherMessage(c) PROVE Same
  BY <1>6 DEF OtherMessage
<1>7. ASSUME NEW m \in msgs, ProcessPingReq(m) PROVE Service!Next
  <2>1. PICK p \in pings : MessageOf(m, p)
    BY DEF IInv, MessagesKnown
  <2>2. Matching(pings, m) = {p}
    BY <2>1 DEF Matching, MessageOf, IInv, Unique
  <2>3. ~disposed /\ p \in Service!Pings
    BY <1>7, <2>1 DEF ProcessPingReq, Idle, IInv, Accounted, Service!Pings
  <2>4. Service!Serve(p)
    BY <1>7, <2>2 DEF ProcessPingReq, Service!Serve
  <2> QED BY <2>3, <2>4 DEF Service!Next
<1>8. ASSUME NEW m \in msgs, ProcessPingRsp(m) PROVE Service!Next \/ Same
  <2>1. PICK p \in pings : MessageOf(m, p) /\ p \in served
    BY <1>8 DEF ProcessPingRsp, IInv, MessagesKnown
  <2>2. \A q \in Matching(m_pingTracker, m) : q = p
    BY <2>1 DEF Matching, MessageOf, IInv, Unique, Accounted
  <2>3. /\ m_pingTracker' = m_pingTracker \ Matching(m_pingTracker, m)
        /\ answered' = answered \cup Matching(m_pingTracker, m)
        /\ UNCHANGED <<now, served, expired, disposed>> /\ ~disposed
    BY <1>8 DEF ProcessPingRsp, EraseRequest, Idle
  <2>4. CASE Matching(m_pingTracker, m) = {}
    BY <2>3, <2>4
  <2>5. CASE Matching(m_pingTracker, m) # {}
    <3>1. Matching(m_pingTracker, m) = {p} /\ p \in m_pingTracker
      BY <2>2, <2>5 DEF Matching
    <3>2. Service!Answer(p)
      BY <2>3, <3>1 DEF Service!Answer
    <3> QED BY <2>1, <2>3, <3>1, <3>2 DEF Service!Next
  <2> QED BY <2>4, <2>5
<1>9. ASSUME NEW m, Lose(m) PROVE Same
  BY <1>9 DEF Lose
<1>10. CASE Tick
  <2>1. now \in Nat /\ now' = now + 1 /\ UNCHANGED <<m_pingTracker, served, answered, expired, disposed>>
        /\ ~disposed
    BY <1>10 DEF Tick, Idle, IInv, TypeOK
  <2>2. ASSUME NEW p \in m_pingTracker PROVE now' < p.sent + 2 * PingTimeout
    <3>1. p.client \in Clients /\ p.sent \in Nat
      BY DEF IInv, TypeOK, Ping
    <3>2. m_auditPingsTimer[p.client] \in Nat /\ now < m_auditPingsTimer[p.client]
          /\ m_auditPingsTimer[p.client] < p.sent + 2 * PingTimeout
      BY <1>10, <3>1 DEF Tick, IInv, TypeOK, Timed
    <3> QED BY <2>1, <3>1, <3>2, TimesAssumption
  <2>3. Service!Tick
    BY <2>1, <2>2 DEF Service!Tick
  <2> QED BY <2>1, <2>3 DEF Service!Next
<1>11. CASE DoDispose
  <2>1. Service!Shutdown
    BY <1>11 DEF DoDispose, Service!Shutdown
  <2> QED BY <1>11, <2>1 DEF DoDispose, Idle, Service!Next
<1>12. CASE UNCHANGED vars
  BY <1>0, <1>12 DEF vars
<1>13. CASE Commands
  BY <1>0, <1>1, <1>2, <1>13 DEF Commands, AppPing, LSPing, DVPing
<1>14. CASE Events
  BY <1>0, <1>3, <1>4, <1>5, <1>14 DEF Events
<1> QED BY <1>0, <1>6, <1>7, <1>8, <1>9, <1>10, <1>11, <1>12, <1>13, <1>14 DEF Next

(* The ping trackers of the application and of the protocols implement     *)
(* PingService: every ping is answered by the node it was sent to or       *)
(* expires, once, between one and two timeouts after it was sent.          *)
THEOREM Refinement == Spec => ImplementsPingService
<1>1. Init => Service!Init
  BY DEF Init, Service!Init
<1> QED BY <1>1, StepSimulation, Invariance, PTL DEF Spec, ImplementsPingService, Service!Spec
=============================================================================
