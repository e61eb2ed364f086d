------------------------------ MODULE MCStartup ------------------------------
(* Startup with three nodes and the configuration files they may have. *)
EXTENDS Startup

Nodes == 1 .. 3

\* Node 2 has a file with a line that is no node, or one whose first line
\* counts too few: one node too many is let in, or one is left out.  The
\* others have a file that lists the other nodes.
Files ==
  <<{[count |-> 2, lines |-> <<2, 3>>]},
    {[count |-> 2, lines |-> <<1, blank, 3>>]}
      \cup {[count |-> k, lines |-> <<1, 3>>] : k \in 0 .. 1},
    {[count |-> 2, lines |-> <<1, 2>>]}>>

Crashing == {1}
NoPort == {3}
=============================================================================
