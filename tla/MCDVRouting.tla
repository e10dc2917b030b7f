---------------------------- MODULE MCDVRouting ----------------------------
(***************************************************************************)
(* Instances of DVRouting for TLC.                                         *)
(***************************************************************************)
EXTENDS DVRouting

Pair == {{1, 2}}
Line3 == {{1, 2}, {2, 3}}
=============================================================================
