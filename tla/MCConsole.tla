----------------------------- MODULE MCConsole -----------------------------
(***************************************************************************)
(* An instance of Console for TLC with two nodes, 0 and 1: a blank line;   *)
(* TIME with no, a good and a bad argument; QUIT; a comment; and commands  *)
(* for a node, for one that does not exist, for one whose word spells no   *)
(* number and for all of them, without the word they need, and for links.  *)
(***************************************************************************)
EXTENDS Console

MCTokens ==
  {"TIME", "QUIT", "#", "1", "5", "x", "*", "APP", "PING", "VERBOSE", "LINK", "UP"}
MCValue == [t \in {"1", "5"} |-> IF t = "1" THEN 1 ELSE 5]
MCGarbage == {0, 7}
MCLines ==
  {<<>>, <<"TIME">>, <<"TIME", "5">>, <<"TIME", "x">>, <<"QUIT">>, <<"#", "APP", "PING">>,
   <<"1", "APP", "PING">>, <<"5", "APP", "PING">>, <<"x", "APP", "PING">>,
   <<"*", "APP", "PING">>, <<"*", "APP", "VERBOSE">>, <<"*", "APP">>,
   <<"LINK", "UP", "1">>, <<"LINK", "x", "1">>}
MCTypedLines == {<<>>, <<"TIME", "5">>, <<"QUIT">>, <<"1", "APP", "PING">>}
=============================================================================
