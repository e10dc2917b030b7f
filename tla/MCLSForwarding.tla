--------------------------- MODULE MCLSForwarding ---------------------------
(***************************************************************************)
(* An instance of LSForwarding for TLC.                                    *)
(***************************************************************************)
EXTENDS LSForwarding

Triangle == {{1, 2}, {2, 3}, {1, 3}}

(* A node's first link in the topology carries its main address.           *)
FirstLinks == [n \in Nodes |-> CHOOSE m \in Adjacent(n) : \A k \in Adjacent(n) : m <= k]
=============================================================================
