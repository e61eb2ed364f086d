----------------------------- MODULE TotalOrding -----------------------------
(***************************************************************************)
(* The ISIS total order multicast (lib/mp1/multicast/total_ording.go) of a *)
(* group of nodes, with the layers below it: a node asks the group to      *)
(* order its message (RMulticast), every node answers with a proposal      *)
(* (BMulticast.Unicast), the asking node announces the largest proposal    *)
(* (RMulticast), and every node delivers the messages of its hold queue    *)
(* in the order of their agreed sequence numbers.                          *)
(*                                                                         *)
(* Goroutines of a node: the reader of its standard input (AskGroup), one  *)
(* handler per incoming connection (tasks), and collectVotes.  Each action *)
(* is what a goroutine does between two acquisitions of a lock that        *)
(* another goroutine of the node can take in between; the loop over the    *)
(* hold queue runs under holdQueueLocker, one iteration per action.        *)
(*                                                                         *)
(* uint64 sequence numbers are Nat: one is used up per message.  The ids   *)
(* of messages are members of Msg; an announcement is identified by its    *)
(* content, which never repeats because no vote is counted in two of them  *)
(* (VotesCountedOnce below).                                               *)
(***************************************************************************)
EXTENDS RMulticast

CONSTANTS
  Msg,      \* the messages the application multicasts
  Origin    \* Origin[m]: the node that multicasts m

ASSUME OriginAssumption == Origin \in [Msg -> Node]

VARIABLES
  asked,                      \* messages passed to TotalOrding.Multicast
  maxAgreementSeqNumOfGroup,  \* per node
  maxProposalSeqNumOfSelf,    \* per node
  holdQueue,                  \* the items of holdQueue, and of holdQueueMap
  holdQueueLocker,            \* {} or {the handler goroutine that holds the lock}
  waitVotesChannel,           \* votes on their way to collectVotes
  waitProposalCounter,        \* votes collected per message
  recheck,                    \* messages collectVotes has still to announce
                              \* because of a member update
  crashNodeTimeout,           \* keys of the map of that name
  delivered,                  \* deliveries to the application, in order
  overtaken                   \* history: see Deliver

tovars == <<asked, maxAgreementSeqNumOfGroup, maxProposalSeqNumOfSelf, holdQueue,
            holdQueueLocker, waitVotesChannel, waitProposalCounter, recheck,
            crashNodeTimeout, delivered, overtaken>>
vars == <<bvars, rvars, tovars>>

AskProposalSeqPath == "/total-ording/ask-proposal-seq"
WaitProposalSeqPath == "/total-ording/wait-proposal-seq"
AnnounceAgreementSeqPath == "/total-ording/announce-agreement-seq"

TOAskProposalSeqMsg(m) == [path |-> AskProposalSeqPath, id |-> m]
TOAnnounceAgreementSeqMsg(vote) ==
  [path |-> AnnounceAgreementSeqPath, id |-> vote.id, seq |-> vote.seq, pid |-> vote.pid]
ProposalItem(n, m, seq) == [id |-> m, seq |-> seq, pid |-> n]

Vote == [id : Msg, seq : Nat, pid : Node]
RMsg ==
  [path : {AskProposalSeqPath}, id : Msg]
    \cup [path : {AnnounceAgreementSeqPath}, id : Msg, seq : Nat, pid : Node]
BMsg == [path : {RMulticastPath}, body : RMsg] \cup [path : {WaitProposalSeqPath}, body : Vote]
Item == [id : Msg, seq : Nat, pid : Node, agreed : BOOLEAN]
HandlerPC == {"relay", "route", "push", "update", "drain"}
-----------------------------------------------------------------------------
(***************************************************************************)
(* Orders.                                                                 *)
(***************************************************************************)
MaxUint64(x, y) == IF x > y THEN x ELSE y

\* Seeded fault: the smallest vote wins.
VoteGreater(v, w) == v.seq > w.seq \/ (v.seq = w.seq /\ v.pid > w.pid)

\* The order MaxOfArrayProposalItem compares votes with.
VoteLess(v, w) == v.seq < w.seq \/ (v.seq = w.seq /\ v.pid < w.pid)

MaxOfArrayProposalItem(votes) ==
  CHOOSE v \in votes : \A w \in votes : ~VoteLess(v, w)

\* Seeded fault: Less without its tie-breaks.
LessBySeq(i, j) == i.seq < j.seq

\* TOHoldPriorityQueue.Less
Less(i, j) ==
  \/ i.seq < j.seq
  \/ i.seq = j.seq /\ ~i.agreed /\ j.agreed
  \/ i.seq = j.seq /\ i.agreed = j.agreed /\ i.pid < j.pid

\* Seeded fault: some element of the slice, not the first of the heap.
IsElement(n, i) == i \in holdQueue[n]

\* TOHoldPriorityQueue.Peek
IsPeek(n, i) == i \in holdQueue[n] /\ \A j \in holdQueue[n] : ~Less(j, i)

\* Seeded fault: the item leaves the map but not the heap.
PopForgotten(n, i) == holdQueue[n]

\* The queue of n after its head i was popped.
Pop(n, i) == holdQueue[n] \ {i}
-----------------------------------------------------------------------------
Init ==
  /\ BInit
  /\ RInit
  /\ asked = {}
  /\ maxAgreementSeqNumOfGroup = [n \in Node |-> 0]
  /\ maxProposalSeqNumOfSelf = [n \in Node |-> 0]
  /\ holdQueue = [n \in Node |-> {}]
  /\ holdQueueLocker = [n \in Node |-> {}]
  /\ waitVotesChannel = [n \in Node |-> <<>>]
  /\ waitProposalCounter = [n \in Node |-> [m \in Msg |-> {}]]
  /\ recheck = [n \in Node |-> {}]
  /\ crashNodeTimeout = [n \in Node |-> {}]
  /\ delivered = [n \in Node |-> <<>>]
  /\ overtaken = [n \in Node |-> {}]

TypeOK ==
  /\ BTypeOK(BMsg)
  /\ RTypeOK(RMsg, HandlerPC)
  /\ asked \in SUBSET Msg
  /\ maxAgreementSeqNumOfGroup \in [Node -> Nat]
  /\ maxProposalSeqNumOfSelf \in [Node -> Nat]
  /\ holdQueue \in [Node -> SUBSET Item]
  /\ holdQueueLocker \in [Node -> SUBSET Node]
  /\ waitVotesChannel \in [Node -> Seq(Vote)]
  /\ waitProposalCounter \in [Node -> [Msg -> SUBSET Vote]]
  /\ recheck \in [Node -> SUBSET Msg]
  /\ crashNodeTimeout \in [Node -> SUBSET Node]
  /\ delivered \in [Node -> Seq(Vote)]
  /\ overtaken \in [Node -> SUBSET Msg]
-----------------------------------------------------------------------------
(***************************************************************************)
(* The reader of standard input and the lower layers.                      *)
(***************************************************************************)

\* TotalOrding.Multicast
AskGroup(n, m) ==
  /\ n \in alive
  /\ Origin[m] = n
  /\ m \notin asked
  /\ asked' = asked \cup {m}
  /\ MulticastR(n, TOAskProposalSeqMsg(m))
  /\ UNCHANGED <<rvars, maxAgreementSeqNumOfGroup, maxProposalSeqNumOfSelf, holdQueue,
                 holdQueueLocker, waitVotesChannel, waitProposalCounter, recheck,
                 crashNodeTimeout, delivered, overtaken>>

Receive(s, n) == ReceiveR(s, n) /\ UNCHANGED tovars

RelayTask(n, t) == Relay(n, t) /\ UNCHANGED tovars

Crash(n) == RCrash(n) /\ UNCHANGED tovars

Reset(s, d) == ConnReset(s, d) /\ UNCHANGED <<rvars, tovars>>
-----------------------------------------------------------------------------
(***************************************************************************)
(* The handler of AskProposalSeqPath.                                      *)
(***************************************************************************)

IsAt(n, t, pc, path) == n \in alive /\ t.pc = pc /\ t.rmsg.path = path

\* Seeded faults: agreements are not taken into account; a number is
\* proposed again; the counter moves the wrong way.
NextOwnProposal(n) == maxProposalSeqNumOfSelf[n] + 1
SameProposal(n) == MaxUint64(maxAgreementSeqNumOfGroup[n], maxProposalSeqNumOfSelf[n])
PreviousProposal(n) == maxProposalSeqNumOfSelf[n] - 1

\* The next proposal of node n.
NextProposal(n) ==
  MaxUint64(maxAgreementSeqNumOfGroup[n], maxProposalSeqNumOfSelf[n]) + 1

\* Under the two locks of the sequence numbers.
Propose(n, t) ==
  /\ IsAt(n, t, "route", AskProposalSeqPath)
  /\ maxProposalSeqNumOfSelf' = [maxProposalSeqNumOfSelf EXCEPT ![n] = NextProposal(n)]
  /\ GoTo(n, t, "push", NextProposal(n))
  /\ UNCHANGED <<bvars, received, asked, maxAgreementSeqNumOfGroup, holdQueue,
                 holdQueueLocker, waitVotesChannel, waitProposalCounter, recheck,
                 crashNodeTimeout, delivered, overtaken>>

\* Under holdQueueLocker, acquired after the other two were released.
PushAndReply(n, t) ==
  /\ IsAt(n, t, "push", AskProposalSeqPath)
  /\ holdQueueLocker[n] = {}
  /\ LET m == t.rmsg.id
     IN  /\ holdQueue' = [holdQueue EXCEPT ![n] = @ \cup
              {[id |-> m, seq |-> t.local, pid |-> Origin[m], agreed |-> FALSE]}]
         /\ Unicast(n, Origin[m],
                    [path |-> WaitProposalSeqPath, body |-> ProposalItem(n, m, t.local)])
  /\ Return(n, t)
  /\ UNCHANGED <<received, asked, maxAgreementSeqNumOfGroup, maxProposalSeqNumOfSelf,
                 holdQueueLocker, waitVotesChannel, waitProposalCounter, recheck,
                 crashNodeTimeout, delivered, overtaken>>
-----------------------------------------------------------------------------
(***************************************************************************)
(* The handler of WaitProposalSeqPath, and collectVotes.                   *)
(***************************************************************************)
ReceiveVote(s, n) ==
  /\ IsIdle(n, s)
  /\ Read(s, n, WaitProposalSeqPath)
  /\ waitVotesChannel' = [waitVotesChannel EXCEPT ![n] = Append(@, Head(net[s][n]).body)]
  /\ UNCHANGED <<rvars, asked, maxAgreementSeqNumOfGroup, maxProposalSeqNumOfSelf, holdQueue,
                 holdQueueLocker, waitProposalCounter, recheck, crashNodeTimeout,
                 delivered, overtaken>>

\* Seeded faults: the count is not looked at; a vote too many is waited for.
AnyVote(votes, count) == votes # {}
MoreThanAll(votes, count) == Cardinality(votes) > count

\* Enough members have voted, when the group has `count' of them.
Enough(votes, count) == Cardinality(votes) >= count

\* Seeded fault: the votes are not deleted.
AggregateAndKeepVotes(n, m, votes) ==
  /\ MulticastR(n, TOAnnounceAgreementSeqMsg(MaxOfArrayProposalItem(votes)))
  /\ waitProposalCounter' = [waitProposalCounter EXCEPT ![n][m] = votes]

\* aggregateVotesAndMulticast, and the deletion of the votes that follows it.
AggregateVotesAndMulticast(n, m, votes) ==
  /\ MulticastR(n, TOAnnounceAgreementSeqMsg(MaxOfArrayProposalItem(votes)))
  /\ waitProposalCounter' = [waitProposalCounter EXCEPT ![n][m] = {}]

\* collectVotes receives a vote.
CollectVote(n) ==
  /\ n \in alive
  /\ recheck[n] = {}
  /\ waitVotesChannel[n] # <<>>
  /\ waitVotesChannel' = [waitVotesChannel EXCEPT ![n] = Tail(@)]
  /\ LET vote == Head(waitVotesChannel[n])
         votes == waitProposalCounter[n][vote.id] \cup {vote}
     IN  \/ /\ ~Enough(votes, MemberCount(n))
            /\ waitProposalCounter' = [waitProposalCounter EXCEPT ![n][vote.id] = votes]
            /\ UNCHANGED bvars
         \/ /\ Enough(votes, MemberCount(n))
            /\ AggregateVotesAndMulticast(n, vote.id, votes)
  /\ UNCHANGED <<rvars, asked, maxAgreementSeqNumOfGroup, maxProposalSeqNumOfSelf, holdQueue,
                 holdQueueLocker, recheck, crashNodeTimeout, delivered, overtaken>>

\* Seeded fault: a message with exactly `count' votes is skipped.
OverdueOnly(n, count) == {m \in Msg : Cardinality(waitProposalCounter[n][m]) > count}

\* The messages to announce when the group of n has `count' members.
NowEnough(n, count) ==
  {m \in Msg : waitProposalCounter[n][m] # {} /\ Enough(waitProposalCounter[n][m], count)}

\* collectVotes receives a member count and finds the messages to announce.
ReceiveMemberUpdate(n) ==
  /\ n \in alive
  /\ recheck[n] = {}
  /\ memberUpdate[n] # <<>>
  /\ memberUpdate' = [memberUpdate EXCEPT ![n] = Tail(@)]
  /\ recheck' = [recheck EXCEPT ![n] = NowEnough(n, Head(memberUpdate[n]))]
  /\ UNCHANGED <<alive, conn, net, senders, rvars, asked, maxAgreementSeqNumOfGroup,
                 maxProposalSeqNumOfSelf, holdQueue, holdQueueLocker, waitVotesChannel,
                 waitProposalCounter, crashNodeTimeout, delivered, overtaken>>

\* One iteration of its loop over waitProposalCounter, in any order.
RecheckVotes(n, m) ==
  /\ n \in alive
  /\ m \in recheck[n]
  /\ recheck' = [recheck EXCEPT ![n] = @ \ {m}]
  /\ AggregateVotesAndMulticast(n, m, waitProposalCounter[n][m])
  /\ UNCHANGED <<rvars, asked, maxAgreementSeqNumOfGroup, maxProposalSeqNumOfSelf, holdQueue,
                 holdQueueLocker, waitVotesChannel, crashNodeTimeout, delivered, overtaken>>
-----------------------------------------------------------------------------
(***************************************************************************)
(* The handler of AnnounceAgreementSeqPath.                                *)
(***************************************************************************)

\* Under maxAgreementSeqNumOfGroupLocker.
Agree(n, t) ==
  /\ IsAt(n, t, "route", AnnounceAgreementSeqPath)
  /\ maxAgreementSeqNumOfGroup' =
       [maxAgreementSeqNumOfGroup EXCEPT ![n] = MaxUint64(@, t.rmsg.seq)]
  /\ GoTo(n, t, "update", t.local)
  /\ UNCHANGED <<bvars, received, asked, maxProposalSeqNumOfSelf, holdQueue,
                 holdQueueLocker, waitVotesChannel, waitProposalCounter, recheck,
                 crashNodeTimeout, delivered, overtaken>>

\* TOHoldPriorityQueue.Update
Update(i, vote) == [i EXCEPT !.agreed = TRUE, !.pid = vote.pid, !.seq = vote.seq]

\* holdQueueLocker is acquired; the item, if it is in the queue, is agreed.
UpdateItem(n, t) ==
  /\ IsAt(n, t, "update", AnnounceAgreementSeqPath)
  /\ holdQueueLocker[n] = {}
  /\ \/ /\ \A i \in holdQueue[n] : i.id # t.rmsg.id
        /\ Return(n, t)
        /\ UNCHANGED <<holdQueue, holdQueueLocker>>
     \/ \E i \in holdQueue[n] :
          /\ i.id = t.rmsg.id
          /\ holdQueue' = [holdQueue EXCEPT ![n] = (@ \ {i}) \cup {Update(i, t.rmsg)}]
          /\ holdQueueLocker' = [holdQueueLocker EXCEPT ![n] = {t.conn}]
          /\ GoTo(n, t, "drain", t.local)
  /\ UNCHANGED <<bvars, received, asked, maxAgreementSeqNumOfGroup, maxProposalSeqNumOfSelf,
                 waitVotesChannel, waitProposalCounter, recheck, crashNodeTimeout,
                 delivered, overtaken>>

\* Messages of n whose proposal, at most seq, is not in the hold queue yet.
NotYetPushed(n, seq) == {t.rmsg.id : t \in {u \in tasks[n] : u.pc = "push" /\ u.local <= seq}}

\* The head of the hold queue is agreed: it is delivered.  Messages that the
\* node has proposed a number for, no larger than the one delivered, but not
\* yet pushed are overtaken; the history variable records them.
Deliver(n, t) ==
  /\ IsAt(n, t, "drain", AnnounceAgreementSeqPath)
  /\ \E i \in holdQueue[n] :
       /\ IsPeek(n, i)
       /\ i.agreed
       /\ holdQueue' = [holdQueue EXCEPT ![n] = Pop(n, i)]
       /\ delivered' = [delivered EXCEPT ![n] = Append(@, ProposalItem(i.pid, i.id, i.seq))]
       /\ overtaken' = [overtaken EXCEPT ![n] = @ \cup NotYetPushed(n, i.seq)]
  /\ UNCHANGED <<bvars, rvars, asked, maxAgreementSeqNumOfGroup, maxProposalSeqNumOfSelf,
                 holdQueueLocker, waitVotesChannel, waitProposalCounter, recheck,
                 crashNodeTimeout>>

\* The head is not agreed, or there is none: the loop ends.  If the node that
\* asked for the head has left the group, the first time is recorded in
\* crashNodeTimeout; once NodeCrashTimeout has passed since then (any later
\* moment, here) the head is dropped.
Stop(n, t) ==
  /\ IsAt(n, t, "drain", AnnounceAgreementSeqPath)
  /\ \/ /\ holdQueue[n] = {}
        /\ UNCHANGED <<holdQueue, crashNodeTimeout>>
     \/ \E i \in holdQueue[n] :
          /\ IsPeek(n, i)
          /\ ~i.agreed
          /\ \/ /\ IsNodeAlived(n, i.pid) \/ i.pid \in crashNodeTimeout[n]
                /\ UNCHANGED <<holdQueue, crashNodeTimeout>>
             \/ /\ ~IsNodeAlived(n, i.pid)
                /\ i.pid \notin crashNodeTimeout[n]
                /\ crashNodeTimeout' = [crashNodeTimeout EXCEPT ![n] = @ \cup {i.pid}]
                /\ UNCHANGED holdQueue
             \/ /\ ~IsNodeAlived(n, i.pid)
                /\ i.pid \in crashNodeTimeout[n]
                /\ holdQueue' = [holdQueue EXCEPT ![n] = Pop(n, i)]
                /\ UNCHANGED crashNodeTimeout
  /\ holdQueueLocker' = [holdQueueLocker EXCEPT ![n] = {}]
  /\ Return(n, t)
  /\ UNCHANGED <<bvars, received, asked, maxAgreementSeqNumOfGroup, maxProposalSeqNumOfSelf,
                 waitVotesChannel, waitProposalCounter, recheck, delivered, overtaken>>
-----------------------------------------------------------------------------
\* One step of the goroutine of n that handles the connection from s.
HandleConn(s, n) ==
  \/ Receive(s, n)
  \/ ReceiveVote(s, n)
  \/ \E t \in tasks[n] :
       /\ t.conn = s
       /\ \/ RelayTask(n, t) \/ Propose(n, t) \/ PushAndReply(n, t)
          \/ Agree(n, t) \/ UpdateItem(n, t) \/ Deliver(n, t) \/ Stop(n, t)

CollectVotes(n) ==
  \/ CollectVote(n)
  \/ ReceiveMemberUpdate(n)
  \/ \E m \in Msg : RecheckVotes(n, m)

Next ==
  \/ \E n \in Node, m \in Msg : AskGroup(n, m)
  \/ \E s, n \in Node : HandleConn(s, n) \/ Reset(s, n)
  \/ \E n \in Node : CollectVotes(n) \/ Crash(n)

Spec == Init /\ [][Next]_vars

\* Every goroutine of a running process is scheduled; the input need not come.
FairSpec ==
  /\ Spec
  /\ \A s, n \in Node : WF_vars(HandleConn(s, n))
  /\ \A n \in Node : WF_vars(CollectVotes(n))
-----------------------------------------------------------------------------
(***************************************************************************)
(* What can be observed.                                                   *)
(***************************************************************************)
DeliveredIds(n) == {x.id : x \in Range(delivered[n])}
HeldIds(n) == {i.id : i \in holdQueue[n]}

\* The announcements that some node has received, and the proposals in them.
Announcements == {r \in UNION {received[n] : n \in Node} : r.path = AnnounceAgreementSeqPath}

KeyOf(x) == <<x.seq, x.pid>>

\* No member of any group was ejected.
NoEjection == \A n \in Node : senders[n] = Node

\* The votes of n for m that have not been deleted by collectVotes: still to
\* be sent, on the connection, in the channel, counted.  (A bag, given by the
\* number of places they are at.)
VotesInTransit(n, m) ==
  LET o == Origin[m]
      Of(v) == v.id = m /\ v.pid = n
      sent == {i \in DOMAIN net[n][o] :
                 net[n][o][i].path = WaitProposalSeqPath /\ Of(net[n][o][i].body)}
      queued == {i \in DOMAIN waitVotesChannel[o] : Of(waitVotesChannel[o][i])}
      counted == {v \in waitProposalCounter[o][m] : Of(v)}
      unsent == {t \in tasks[n] : t.rmsg = TOAskProposalSeqMsg(m)}
  IN  Cardinality(sent) + Cardinality(queued) + Cardinality(counted) + Cardinality(unsent)

\* The two nodes have delivered the same messages, with the same agreed
\* numbers, at the positions that both have reached.
SameOrder(n, d) ==
  \A i \in DOMAIN delivered[n] \cap DOMAIN delivered[d] : delivered[n][i] = delivered[d][i]
-----------------------------------------------------------------------------
(***************************************************************************)
(* Properties.                                                             *)
(***************************************************************************)

\* A message is delivered at most once, only if it was multicast, and never
\* while it is still held: whatever copies, relays, second announcements or
\* skips there are, the map, the heap and the application stay in step
\* (total_ording.go:209-210, 253-259, 277-278, 288-289).
DeliveredOnce ==
  \A n \in Node :
    /\ \A i, j \in DOMAIN delivered[n] : delivered[n][i].id = delivered[n][j].id => i = j
    /\ \A i, j \in holdQueue[n] : i.id = j.id => i = j
    /\ DeliveredIds(n) \subseteq asked \ HeldIds(n)

\* As long as nobody was ejected, two nodes that have overtaken no message
\* deliver the same messages in the same order: this is what ISIS promises,
\* restricted by the window of Propose and PushAndReply.
TotalOrderUnlessOvertaken ==
  NoEjection =>
    \A n, d \in Node : overtaken[n] = {} /\ overtaken[d] = {} => SameOrder(n, d)

\* As long as nobody was ejected, a node delivers in increasing order of the
\* agreed keys, but for the messages that were overtaken there.
DeliveredInOrder ==
  NoEjection =>
    \A n \in Node : \A i, j \in DOMAIN delivered[n] :
      i < j /\ delivered[n][j].id \notin overtaken[n] =>
        VoteLess(delivered[n][i], delivered[n][j])

\* What the design document says: all nodes deliver in the same order.
TotalOrder == \A n, d \in Node : SameOrder(n, d)

\* Two messages never get the same agreed key, ejections and second
\* announcements included, so the order of the hold queue has no ties among
\* agreed items (to_hold_queue_item.go:34-48).
AgreedKeysDistinct ==
  \A r, q \in Announcements : KeyOf(r) = KeyOf(q) => r = q

\* As long as nobody was ejected, a message is announced with one key only.
AgreementUnique ==
  NoEjection => \A r, q \in Announcements : r.id = q.id => r = q

\* As long as nobody was ejected, an announcement comes after every node
\* pushed the message, whichever relay brings it, and its number is at least
\* the one that any node still holds the message with: the error "msg id not
\* exist" cannot happen and an agreed item never moves forward in a queue
\* (total_ording.go:253-259).
AnnouncementDominates ==
  NoEjection =>
    \A r \in Announcements : \A n \in Node :
      /\ r.id \in HeldIds(n) \cup DeliveredIds(n)
      /\ \A i \in holdQueue[n] : i.id = r.id => i.seq <= r.seq

\* A node never has two votes for one message on their way or counted, and a
\* vote that was counted in an announcement is never counted again.
VotesCountedOnce ==
  \A n \in Node, m \in Msg :
    /\ VotesInTransit(n, m) <= 1
    /\ \A r \in Announcements : r.id = m /\ r.pid = n => VotesInTransit(n, m) = 0

\* While no handler is delivering, an agreed message waits only behind one
\* that is not agreed: no delivery is forgotten.  Dropping the head of a
\* crashed node ends the loop early, and so do announcements that come while
\* its timeout runs; nodes that have met a crashed head are left out.
NothingDeliverableWaits ==
  \A n \in alive : \A i \in holdQueue[n] :
    holdQueueLocker[n] = {} /\ crashNodeTimeout[n] = {} /\ IsPeek(n, i) => ~i.agreed

\* Every message multicast is delivered at every node, unless a node crashes:
\* no proposal, vote, announcement or delivery is lost between the goroutines.
EverythingDelivered ==
  \A m \in Msg :
    (m \in asked) ~> (alive # Node \/ \A n \in Node : m \in DeliveredIds(n))

\* A message whose node lives is announced once the crashed members are out
\* of the group of that node, be the votes counted before or after the member
\* was ejected (the re-check of total_ording.go:127-146).
AnnouncedWithoutTheCrashed ==
  \A m \in Msg :
    (m \in asked /\ senders[Origin[m]] \subseteq alive)
      ~> \/ \E r \in Announcements : r.id = m
         \/ ~(senders[Origin[m]] \subseteq alive)

\* What the design document says of a crashed node: it is evicted once the
\* connection is lost, and its messages that it did not announce a number
\* for are rejected after a timeout.
CrashedRejected ==
  \A n \in Node, m \in Msg :
    (\E i \in holdQueue[n] : i.id = m /\ ~i.agreed /\ Origin[m] \notin alive)
      ~> (n \notin alive \/ \A i \in holdQueue[n] : i.id = m => i.agreed)
=============================================================================
