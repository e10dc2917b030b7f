--------------------------- MODULE MCDVForwarding ---------------------------
(***************************************************************************)
(* An instance of DVForwarding for TLC.                                    *)
(***************************************************************************)
EXTENDS DVForwarding

Square == {{1, 2}, {2, 3}, {3, 4}, {1, 4}}

(* A node's first link in the topology carries its main address.           *)
FirstLinks == [n \in Nodes |-> CHOOSE m \in Adjacent(n) : \A k \in Adjacent(n) : m <= k]
=============================================================================
