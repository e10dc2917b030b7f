----------------------------- MODULE LSDatabase -----------------------------
(***************************************************************************)
(* What flooding promises, without a network: a board on which the nodes   *)
(* publish their links and from which each node takes any message at any   *)
(* time, if it is newer than the one it has.  A node that gives up         *)
(* neighbours takes itself out of their messages only while it publishes   *)
(* that it has given them up.                                              *)
(***************************************************************************)
EXTENDS Integers

CONSTANT Nodes

VARIABLES
  published,  \* the messages on the board
  db          \* db[n][o]: what n knows about the links of another node o

vars == <<published, db>>

Nothing == [seq |-> -1, links |-> {}]

Init ==
  /\ published = {}
  /\ db = [n \in Nodes |-> [o \in Nodes |-> Nothing]]

Publish(m) ==
  /\ published' = published \cup {m}
  /\ UNCHANGED db

Learn(n, m) ==
  /\ m.orig # n
  /\ m.seq > db[n][m.orig].seq
  /\ db' = [db EXCEPT ![n][m.orig] = [seq |-> m.seq, links |-> m.nbrs]]
  /\ UNCHANGED published

GiveUp(n, gone, m) ==
  /\ m.orig = n
  /\ m.nbrs \cap gone = {}
  /\ published' = published \cup {m}
  /\ db' = [db EXCEPT ![n] = [o \in Nodes |->
              IF o \in gone THEN [db[n][o] EXCEPT !.links = @ \ {n}] ELSE db[n][o]]]

Next ==
  \/ \E m \in published' : Publish(m)
  \/ \E n \in Nodes : \E m \in published : Learn(n, m)
  \/ \E n \in Nodes, gone \in SUBSET Nodes : \E m \in published' : GiveUp(n, gone, m)

Spec == Init /\ [][Next]_vars
=============================================================================
