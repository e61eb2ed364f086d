---------------------------- MODULE MCTotalOrding ----------------------------
(***************************************************************************)
(* Instances of TotalOrding: which messages there are, who multicasts      *)
(* them, and which connections may be reset.                               *)
(***************************************************************************)
EXTENDS TotalOrding

CONSTANTS a, b

OneMessage == {a}
TwoMessages == {a, b}

FromNode1 == [m \in OneMessage |-> 1]
BothFromNode2 == [m \in TwoMessages |-> 2]
FromEach == [m \in TwoMessages |-> IF m = a THEN 1 ELSE 2]

ResetOf21 == {<<2, 1>>}
=============================================================================
