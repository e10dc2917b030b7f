-------------------------- MODULE MCMessageFormats --------------------------
(***************************************************************************)
(* An instance of MessageFormats for TLC: the smallest and largest values  *)
(* of every width, lengths below and above what one byte can hold.         *)
(***************************************************************************)
EXTENDS MessageFormats

EdgeIds == {0, 1, Base, Base ^ 2 + 2, Base ^ 4 - 1}
EdgeAddresses == {Base ^ 3 + 1, Base ^ 4 - 1}

OfLength(n, Value(_)) == [k \in 1 .. n |-> Value(k)]
Lengths == {0, 1, Base - 1, Base, 2 * Base + 1}

EdgeTexts == {OfLength(n, LAMBDA k : k % Base) : n \in Lengths}
EdgeTables ==
  {OfLength(n, LAMBDA k : [addr |-> Base ^ 3 + k, cost |-> IF k = 1 THEN Base ^ 4 - 1 ELSE k]) :
     n \in Lengths}
=============================================================================
