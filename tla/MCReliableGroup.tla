--------------------------- MODULE MCReliableGroup ---------------------------
(***************************************************************************)
(* Instances of ReliableGroup: node 1 multicasts one message, and its      *)
(* connection to node 3 may be reset.                                      *)
(***************************************************************************)
EXTENDS ReliableGroup

CONSTANT a

OneMessage == {a}
FromNode1 == [m \in OneMessage |-> 1]
ResetOf13 == {<<1, 3>>}
=============================================================================
