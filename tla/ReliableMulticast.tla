-------------------------- MODULE ReliableMulticast --------------------------
(***************************************************************************)
(* What RMulticast promises: every node delivers a message at most once    *)
(* and only if somebody multicast it (integrity); a message delivered by a *)
(* node that stays up, or multicast by one, is delivered by every node     *)
(* that stays up (agreement and validity).                                 *)
(***************************************************************************)
EXTENDS Sequences, Functions

CONSTANTS Node, RMsg

VARIABLES
  up,         \* nodes that have not crashed
  sent,       \* messages multicast so far
  delivered   \* delivered[n]: messages whose handler ran at n, in order

vars == <<up, sent, delivered>>

Init ==
  /\ up = Node
  /\ sent = {}
  /\ delivered = [n \in Node |-> <<>>]

DeliveredSet(n) == Range(delivered[n])

Multicast(m) ==
  /\ m \in RMsg \ sent
  /\ sent' = sent \cup {m}
  /\ UNCHANGED <<up, delivered>>

Deliver(n, m) ==
  /\ n \in up
  /\ m \in sent \ DeliveredSet(n)
  /\ delivered' = [delivered EXCEPT ![n] = Append(@, m)]
  /\ UNCHANGED <<up, sent>>

Crash(n) ==
  /\ n \in up
  /\ up' = up \ {n}
  /\ UNCHANGED <<sent, delivered>>

Next ==
  \/ \E m \in RMsg : Multicast(m)
  \/ \E n \in Node : Crash(n)
  \/ \E n \in Node, m \in RMsg : Deliver(n, m)

Spec == Init /\ [][Next]_vars

\* A message that a surviving node has delivered reaches every surviving node.
Agreement ==
  \A n, d \in Node, m \in RMsg :
    (m \in DeliveredSet(n)) ~> (m \in DeliveredSet(d) \/ n \notin up \/ d \notin up)
=============================================================================
