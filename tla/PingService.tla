---------------------------- MODULE PingService ----------------------------
(***************************************************************************)
(* What the PING command promises, whatever the network does: a ping is    *)
(* outstanding until it is answered by the node it was sent to or has      *)
(* expired, one of the two and only once; it does not expire before        *)
(* PingTimeout has passed, and does not stay for twice that long.          *)
(***************************************************************************)
EXTENDS Integers

CONSTANT PingTimeout

VARIABLES
  now,
  outstanding,  \* pings sent and neither answered nor expired
  served,       \* pings that have reached their destination
  answered,
  expired,
  down          \* the simulation is over

vars == <<now, outstanding, served, answered, expired, down>>

Pings == outstanding \cup answered \cup expired

Init ==
  /\ now = 0
  /\ outstanding = {} /\ served = {} /\ answered = {} /\ expired = {}
  /\ down = FALSE

(* A ping is told from the others of its client by its number.             *)
Send(p) ==
  /\ p.sent = now
  /\ \A q \in Pings : q.client # p.client \/ q.id # p.id
  /\ outstanding' = outstanding \cup {p}
  /\ UNCHANGED <<now, served, answered, expired, down>>

Serve(p) ==
  /\ served' = served \cup {p}
  /\ UNCHANGED <<now, outstanding, answered, expired, down>>

Answer(p) ==
  /\ outstanding' = outstanding \ {p}
  /\ answered' = answered \cup {p}
  /\ UNCHANGED <<now, served, expired, down>>

Expire(old) ==
  /\ \A p \in old : p.sent + PingTimeout <= now
  /\ outstanding' = outstanding \ old
  /\ expired' = expired \cup old
  /\ UNCHANGED <<now, served, answered, down>>

Tick ==
  /\ now' = now + 1
  /\ \A p \in outstanding : now' < p.sent + 2 * PingTimeout
  /\ UNCHANGED <<outstanding, served, answered, expired, down>>

Shutdown ==
  /\ down' = TRUE
  /\ outstanding' = {}
  /\ UNCHANGED <<now, served, answered, expired>>

Next ==
  /\ ~down
  /\ \/ \E p \in outstanding' : Send(p)
     \/ \E p \in Pings : Serve(p)
     \/ \E p \in outstanding \cap served : Answer(p)
     \/ \E old \in SUBSET outstanding : Expire(old)
     \/ Tick
     \/ Shutdown

Spec == Init /\ [][Next]_vars
=============================================================================
