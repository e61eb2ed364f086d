--------------------------- MODULE MemberUpdates ----------------------------
(***************************************************************************)
(* What BMulticast and TotalOrding assume of the broker of member counts:  *)
(* collectVotes receives the count after every ejection, in order, unless  *)
(* more counts than the channel holds are on their way.                    *)
(***************************************************************************)
EXTENDS Integers, SequencesExt

CONSTANTS
  Member,
  Capacity  \* counts that are never lost

VARIABLES
  senders,  \* the members of the group
  updates,  \* counts published and not received
  known     \* the count that collectVotes received last

vars == <<senders, updates, known>>

Init ==
  /\ senders = Member
  /\ updates = <<>>
  /\ known = Cardinality(Member)

\* A member is ejected, and the new count published.
Eject(m) ==
  /\ m \in senders
  /\ senders' = senders \ {m}
  /\ updates' = Append(updates, Cardinality(senders) - 1)
  /\ UNCHANGED known

Receive ==
  /\ updates # <<>>
  /\ known' = Head(updates)
  /\ updates' = Tail(updates)
  /\ UNCHANGED senders

\* The first count that the channel has no place for is lost.
Lose ==
  /\ Len(updates) > Capacity
  /\ updates' = RemoveAt(updates, Capacity + 1)
  /\ UNCHANGED <<senders, known>>

Next == Receive \/ Lose \/ \E m \in Member : Eject(m)

Spec == Init /\ [][Next]_vars
=============================================================================
