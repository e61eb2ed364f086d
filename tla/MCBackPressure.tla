--------------------------- MODULE MCBackPressure ---------------------------
(* BackPressure with two nodes and two messages of each. *)
EXTENDS BackPressure

Nodes == 1 .. 2
Msgs == 1 .. 4
Origins == [m \in Msgs |-> IF m <= 2 THEN 1 ELSE 2]
Crashing == {1}
NoReset == {}
=============================================================================
