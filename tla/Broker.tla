------------------------------- MODULE Broker -------------------------------
(***************************************************************************)
(* The path of a member count inside one node (lib/broker and its use by   *)
(* lib/mp1/multicast): a goroutine that multicasts holds senderLock,       *)
(* ejects the members it cannot write to one after another, and publishes  *)
(* the count after each, still under the lock; the goroutine of the broker *)
(* forwards it to the channel of collectVotes, and drops it when that      *)
(* channel is full; collectVotes receives it, and needs senderLock itself  *)
(* to count members and to multicast.                                      *)
(*                                                                         *)
(* BMulticast and TotalOrding model this path by a sequence of counts;     *)
(* MemberUpdates states what that needs.  The group has started:           *)
(* collectVotes has subscribed and nothing was ejected before.             *)
(***************************************************************************)
EXTENDS Integers, Sequences, FiniteSets

CONSTANTS
  Member,       \* the members of the group
  Unreachable,  \* those a write may fail for (bound of the environment)
  Handler,      \* goroutines of handlers that multicast
  collector,    \* the goroutine of collectVotes
  nobody,
  MaxWaiting,   \* messages whose votes one count makes enough (bound)
  SubCap        \* capacity of the channel that Subscribe makes; 5 in the code

ASSUME MemberAssumption == IsFiniteSet(Member) /\ Unreachable \subseteq Member
ASSUME GoroutineAssumption == collector \notin Handler /\ nobody \notin Handler \cup {collector}
ASSUME CapAssumption == SubCap \in Nat \ {0} /\ MaxWaiting \in Nat

VARIABLES
  senders,     \* keys of BMulticast.senders
  senderLock,  \* the goroutine that holds it, or nobody
  failing,     \* members that a write of the running multicast will fail for
  publishing,  \* the count given to Publish, until the channel takes it
  publishCh,   \* Broker.publishCh, of capacity 1
  forwarding,  \* the count that the goroutine of the broker has in hand
  subCh,       \* the channel of collectVotes
  votesPC,     \* where collectVotes is: "select", "count" or "multicast"
  announcing,  \* the multicasts it makes before it selects again
  known        \* the count that collectVotes received last

vars == <<senders, senderLock, failing, publishing, publishCh, forwarding, subCh,
          votesPC, announcing, known>>

Goroutine == Handler \cup {collector}
PublishCap == 1

-----------------------------------------------------------------------------
Init ==
  /\ senders = Member
  /\ senderLock = nobody
  /\ failing = {}
  /\ publishing = <<>>
  /\ publishCh = <<>>
  /\ forwarding = <<>>
  /\ subCh = <<>>
  /\ votesPC = "select"
  /\ announcing = 0
  /\ known = Cardinality(Member)

\* BMulticast.Multicast (or Unicast) acquires senderLock; the writes to
\* some members are going to fail.
Lock(g) ==
  /\ senderLock = nobody
  /\ g = collector => votesPC = "multicast"
  /\ senderLock' = g
  /\ failing' \in SUBSET (senders \cap Unreachable)
  /\ UNCHANGED <<senders, publishing, publishCh, forwarding, subCh, votesPC, announcing, known>>

\* Seeded fault: the count is taken before the member is deleted.
CountBeforeDelete(m) == Cardinality(senders)

\* Seeded fault: the count of those that will be left in the end.
CountOfTheRest(m) == Cardinality(senders \ failing)

\* The count after m is deleted.
CountWithout(m) == Cardinality(senders \ {m})

\* A write to m failed: m is deleted, and Publish is called.
Eject(m) ==
  /\ senderLock # nobody
  /\ publishing = <<>>
  /\ m \in failing
  /\ failing' = failing \ {m}
  /\ senders' = senders \ {m}
  /\ publishing' = <<CountWithout(m)>>
  /\ UNCHANGED <<senderLock, publishCh, forwarding, subCh, votesPC, announcing, known>>

\* Seeded fault: a count that was not taken yet is replaced.
PublishLatest ==
  /\ publishing # <<>>
  /\ publishCh' = publishing
  /\ publishing' = <<>>
  /\ UNCHANGED <<senders, senderLock, failing, forwarding, subCh, votesPC, announcing, known>>

\* Broker.Publish: blocks while the channel is full.
Publish ==
  /\ publishing # <<>>
  /\ Len(publishCh) < PublishCap
  /\ publishCh' = publishCh \o publishing
  /\ publishing' = <<>>
  /\ UNCHANGED <<senders, senderLock, failing, forwarding, subCh, votesPC, announcing, known>>

\* collectVotes makes i multicasts before it selects again.
Announce(i) ==
  /\ votesPC' = IF i = 0 THEN "select" ELSE "multicast"
  /\ announcing' = i

\* The multicast is over.
Unlock ==
  /\ senderLock # nobody
  /\ failing = {}
  /\ publishing = <<>>
  /\ senderLock' = nobody
  /\ IF senderLock = collector
       THEN Announce(announcing - 1)
       ELSE UNCHANGED <<votesPC, announcing>>
  /\ UNCHANGED <<senders, failing, publishing, publishCh, forwarding, subCh, known>>

\* Broker.Start: a count is taken from publishCh ...
Take ==
  /\ forwarding = <<>>
  /\ publishCh # <<>>
  /\ forwarding' = <<Head(publishCh)>>
  /\ publishCh' = Tail(publishCh)
  /\ UNCHANGED <<senders, senderLock, failing, publishing, subCh, votesPC, announcing, known>>

\* Seeded fault: the goroutine waits for room in the channel of a subscriber.
ForwardOrWait ==
  /\ forwarding # <<>>
  /\ Len(subCh) < SubCap
  /\ forwarding' = <<>>
  /\ subCh' = subCh \o forwarding
  /\ UNCHANGED <<senders, senderLock, failing, publishing, publishCh, votesPC, announcing, known>>

\* ... and forwarded, or dropped when the channel of the subscriber is full.
Forward ==
  /\ forwarding # <<>>
  /\ forwarding' = <<>>
  /\ subCh' = IF Len(subCh) < SubCap THEN subCh \o forwarding ELSE subCh
  /\ UNCHANGED <<senders, senderLock, failing, publishing, publishCh, votesPC, announcing, known>>

\* collectVotes receives a count: it announces the messages whose votes are
\* enough now.
ReceiveCount ==
  /\ votesPC = "select"
  /\ subCh # <<>>
  /\ known' = Head(subCh)
  /\ subCh' = Tail(subCh)
  /\ \E i \in 0 .. MaxWaiting : Announce(i)
  /\ UNCHANGED <<senders, senderLock, failing, publishing, publishCh, forwarding>>

\* collectVotes receives a vote, ...
ReceiveVote ==
  /\ votesPC = "select"
  /\ votesPC' = "count"
  /\ UNCHANGED <<senders, senderLock, failing, publishing, publishCh, forwarding, subCh,
                 announcing, known>>

\* ... asks for the member count under senderLock, and announces the
\* message if the votes are enough.
CountMembers ==
  /\ votesPC = "count"
  /\ senderLock = nobody
  /\ Announce(0) \/ Announce(1)
  /\ UNCHANGED <<senders, senderLock, failing, publishing, publishCh, forwarding, subCh, known>>

Next ==
  \/ \E g \in Goroutine : Lock(g)
  \/ \E m \in Member : Eject(m)
  \/ Publish \/ Unlock
  \/ Take \/ Forward
  \/ ReceiveCount \/ ReceiveVote \/ CountMembers

\* The holder of the lock and the goroutine of the broker are scheduled.
\* collectVotes gets the lock in the end, Go's mutex being fair to waiters,
\* and its select takes both channels again and again, since it chooses
\* among those that are ready at random.
Fairness ==
  /\ WF_vars(\E m \in Member : Eject(m))
  /\ WF_vars(Publish)
  /\ WF_vars(Unlock)
  /\ WF_vars(Take)
  /\ WF_vars(Forward)
  /\ SF_vars(Lock(collector))
  /\ SF_vars(CountMembers)
  /\ SF_vars(ReceiveCount)

Spec == Init /\ [][Next]_vars
FairSpec == Spec /\ Fairness
-----------------------------------------------------------------------------
(***************************************************************************)
(* Properties.                                                             *)
(***************************************************************************)

\* A goroutine that holds senderLock releases it, however many members it
\* ejects and however long collectVotes does not read: also collectVotes
\* itself, the only one that could make room in its channel.
LockReleased == \A g \in Goroutine : senderLock = g ~> senderLock # g

\* The count that collectVotes compares votes with after an update may be
\* out of date, but only too large: it never announces on fewer votes than
\* the group had members, with counts in transit, or dropped.
KnownNotTooSmall ==
  LET inTransit == subCh \o forwarding \o publishCh \o publishing IN
  /\ known >= Cardinality(senders)
  /\ \A i \in 1 .. Len(inTransit) :
       /\ inTransit[i] >= Cardinality(senders)
       /\ \A j \in 1 .. i - 1 : inTransit[j] > inTransit[i]

\* When the channel has room for each count that the broker has in hand,
\* collectVotes knows the real count in the end.
KnownInTheEnd ==
  [](forwarding # <<>> => Len(subCh) < SubCap) => <>[](known = Cardinality(senders))

Updates == INSTANCE MemberUpdates
             WITH updates <- subCh \o forwarding \o publishCh \o publishing,
                  Capacity <- SubCap

\* No count is overtaken, and none is lost as long as no more are on their
\* way than the channel holds (so none at all when no more members are
\* ejected): the path is the sequence memberUpdate of BMulticast.
ImplementsMemberUpdates == Updates!Spec
=============================================================================
