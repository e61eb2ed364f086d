----------------------------- MODULE MCReplicas -----------------------------
(* Replicas with two nodes, ints of four bits and short inputs. *)
EXTENDS Replicas

Nodes == 1 .. 2
Ints == "-1" :> -1 @@ "3" :> 3 @@ "7" :> 7

Deposit7 == <<"DEPOSIT", "x", "7">>
Deposit3 == <<"DEPOSIT", "y", "3">>
Negative == <<"DEPOSIT", "x", "-1">>
Move == <<"TRANSFER", "x", "->", "y", "3">>
Back == <<"TRANSFER", "y", "->", "x", "3">>
ToItself == <<"TRANSFER", "x", "->", "x", "3">>
Cut == <<"TRANSFER", "x", "->", "y">>
NoNumber == <<"DEPOSIT", "x", "->">>

SomeInputs ==
  {<<Cut, Deposit7, Move>>, <<Deposit3, NoNumber, Back>>, <<ToItself, Deposit7>>,
   <<Negative, Move>>, <<Deposit7, ToItself>>}

Crashing == {1}
=============================================================================
