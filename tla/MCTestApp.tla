----------------------------- MODULE MCTestApp -----------------------------
(***************************************************************************)
(* An instance of TestApp for TLC: two nodes and a link, and a client of   *)
(* each kind that starts at the last number, so that its numbers wrap      *)
(* around.                                                                 *)
(***************************************************************************)
EXTENDS TestApp

MCNodes == {0, 1}
MCLinks == {{0, 1}}
MCClients == {<<"APP", 0>>, <<"LS", 0>>, <<"DV", 1>>}
MCFirstId == [c \in Clients |-> IdLimit - 1]
=============================================================================
