---------------------------- MODULE MCHoldQueue -----------------------------
(***************************************************************************)
(* Instances of HoldQueue for TLC.                                         *)
(***************************************************************************)
EXTENDS HoldQueue, TLC

MessagesAreAlike == Permutations(Msg)
=============================================================================
