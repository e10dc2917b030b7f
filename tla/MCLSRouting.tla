---------------------------- MODULE MCLSRouting ----------------------------
(***************************************************************************)
(* Instances of LSRouting for TLC.                                         *)
(***************************************************************************)
EXTENDS LSRouting

Pair == {{1, 2}}
Line3 == {{1, 2}, {2, 3}}
Line4 == {{1, 2}, {2, 3}, {3, 4}}
=============================================================================
