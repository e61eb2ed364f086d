-------------------------- MODULE TotalOrdingProofs --------------------------
(***************************************************************************)
(* Proofs about TotalOrding, for every finite set of nodes and every set   *)
(* of messages, crashes, resets and ejections: that it is type correct,    *)
(* that nothing is delivered twice; where a vote may be, that it is        *)
(* counted once, and that agreed keys are distinct; what a node keeps in   *)
(* its hold queue, with any faults; and what all nodes agree on, the order *)
(* of their deliveries included, as long as nobody was ejected.            *)
(***************************************************************************)
EXTENDS TotalOrding, MulticastLemmas

\* VoteLess is a strict total order of the votes for one message
\* (MaxOfArrayProposalItem, util.go:26-47).
LEMMA VoteOrder ==
  ASSUME NEW u \in Vote, NEW v \in Vote, NEW w \in Vote
  PROVE  /\ ~VoteLess(u, u)
         /\ VoteLess(u, v) => ~VoteLess(v, u)
         /\ VoteLess(u, v) /\ ~VoteLess(w, v) => ~VoteLess(w, u)
<1>1. \A x \in Vote : x.seq \in Nat /\ x.pid \in Node
  BY DEF Vote
<1>2. \A x \in Vote : x.pid \in Nat
  BY <1>1, NodeAssumption
<1>3. QED  BY <1>1, <1>2 DEF VoteLess

\* A finite set of votes that is not empty has a largest one.
LEMMA LargestVote ==
  ASSUME NEW votes \in SUBSET Vote, IsFiniteSet(votes), votes # {}
  PROVE  \E v \in votes : \A w \in votes : ~VoteLess(v, w)
<1> DEFINE HasLargest(S) == \E v \in S : \A w \in S : ~VoteLess(v, w)
           Bad == {S \in FiniteSubsetsOf(Vote) : S # {} /\ ~HasLargest(S)}
<1>1. SUFFICES ASSUME Bad # {}  PROVE FALSE
  BY DEF FiniteSubsetsOf
<1>2. PICK S \in Bad : \A U \in Bad : <<U, S>> \notin StrictSubsetOrdering(Vote)
  <2> HIDE DEF Bad
  <2>1. Bad \subseteq FiniteSubsetsOf(Vote)
    BY DEF Bad
  <2>2. QED  BY <1>1, <2>1, FS_StrictSubsetOrderingWellFounded, WFMin
<1>3. PICK v \in S : TRUE
  BY <1>2
<1> DEFINE U == S \ {v}
<1>4. U \in FiniteSubsetsOf(Vote) /\ S \in SUBSET Vote
  BY <1>2, FS_RemoveElement DEF FiniteSubsetsOf
<1>5. <<U, S>> \in StrictSubsetOrdering(Vote)
  BY <1>3, <1>4 DEF StrictSubsetOrdering
<1>6. U = {} \/ HasLargest(U)
  BY <1>2, <1>4, <1>5
<1>7. CASE U = {}
  BY <1>2, <1>3, <1>4, <1>7, VoteOrder
<1>8. CASE HasLargest(U)
  <2>1. PICK u \in U : \A w \in U : ~VoteLess(u, w)
    BY <1>8
  <2>2. CASE VoteLess(u, v)
    BY <1>2, <1>3, <1>4, <2>1, <2>2, VoteOrder
  <2>3. CASE ~VoteLess(u, v)
    BY <1>2, <1>3, <1>4, <2>1, <2>3, VoteOrder
  <2>4. QED  BY <2>2, <2>3
<1>9. QED  BY <1>6, <1>7, <1>8

\* MaxOfArrayProposalItem returns a vote that no other exceeds.
LEMMA MaxVote ==
  ASSUME NEW votes \in SUBSET Vote, IsFiniteSet(votes), votes # {}
  PROVE  /\ MaxOfArrayProposalItem(votes) \in votes
         /\ \A w \in votes : ~VoteLess(MaxOfArrayProposalItem(votes), w)
BY LargestVote DEF MaxOfArrayProposalItem

-----------------------------------------------------------------------------
(***************************************************************************)
(* Types.  To be inductive, TypeOK needs that the votes counted are        *)
(* finitely many, and some, for a message that is to be announced.         *)
(***************************************************************************)
TOTypeOK ==
  /\ asked \in SUBSET Msg
  /\ maxAgreementSeqNumOfGroup \in [Node -> Nat]
  /\ maxProposalSeqNumOfSelf \in [Node -> Nat]
  /\ holdQueue \in [Node -> SUBSET Item]
  /\ holdQueueLocker \in [Node -> SUBSET Node]
  /\ waitVotesChannel \in [Node -> Seq(Vote)]
  /\ waitProposalCounter \in [Node -> [Msg -> SUBSET Vote]]
  /\ recheck \in [Node -> SUBSET Msg]
  /\ crashNodeTimeout \in [Node -> SUBSET Node]
  /\ delivered \in [Node -> Seq(Vote)]
  /\ overtaken \in [Node -> SUBSET Msg]

VotesOK ==
  /\ \A n \in Node, m \in Msg : IsFiniteSet(waitProposalCounter[n][m])
  /\ \A n \in Node : \A m \in recheck[n] : waitProposalCounter[n][m] # {}

TypeInv ==
  /\ BTypeOK(BMsg)
  /\ RTypeOK(RMsg, HandlerPC)
  /\ TOTypeOK
  /\ VotesOK
  /\ ConnAlive

\* A multicast of a message of the protocol.
LEMMA MulticastRType ==
  ASSUME BTypeOK(BMsg), NEW n \in Node, NEW rmsg \in RMsg, MulticastR(n, rmsg)
  PROVE  BTypeOK(BMsg)' /\ Writes(n, senders[n], RBMsg(rmsg))
<1>1. RBMsg(rmsg) \in BMsg
  BY DEF RBMsg, BMsg
<1>2. QED  BY <1>1, MulticastStep DEF MulticastR

\* The first copy of a message starts a task.
LEMMA ReceiveType ==
  ASSUME BTypeOK(BMsg), RTypeOK(RMsg, HandlerPC),
         NEW s \in Node, NEW n \in Node, ReceiveR(s, n)
  PROVE  /\ BTypeOK(BMsg)' /\ RTypeOK(RMsg, HandlerPC)'
         /\ Reads(s, n, Head(net[s][n]))
         /\ Head(net[s][n]).body \in RMsg
<1>1. /\ BTypeOK(BMsg)'
      /\ Head(net[s][n]) \in BMsg
      /\ Head(net[s][n]).path = RMulticastPath
      /\ Reads(s, n, Head(net[s][n]))
  BY ReadStep DEF ReceiveR
<1>2. Head(net[s][n]).body \in RMsg
  BY <1>1 DEF BMsg, RMulticastPath, WaitProposalSeqPath
<1>3. NewTask(n, s, Head(net[s][n]).body) \in Task(RMsg, HandlerPC)
  BY <1>2 DEF NewTask, EntryPoint, Task, HandlerPC
<1>4. RTypeOK(RMsg, HandlerPC)'
  BY <1>2, <1>3 DEF RTypeOK, ReceiveR, rvars
<1>5. QED  BY <1>1, <1>2, <1>4

\* A task that moves on, or returns, leaves tasks behind.
LEMMA TaskType ==
  ASSUME RTypeOK(RMsg, HandlerPC), NEW n \in Node, NEW t \in tasks[n],
         \/ Return(n, t)
         \/ \E pc \in HandlerPC, local \in Nat : GoTo(n, t, pc, local)
  PROVE  tasks' \in [Node -> SUBSET Task(RMsg, HandlerPC)]
<1>1. t \in Task(RMsg, HandlerPC)
  BY DEF RTypeOK
<1>2. \A pc \in HandlerPC, local \in Nat : At(t, pc, local) \in Task(RMsg, HandlerPC)
  BY <1>1 DEF Task, At
<1>3. QED  BY <1>2 DEF GoTo, Return, RTypeOK

\* What a task of an announcement, or of a request for proposals, is about.
LEMMA TaskMessage ==
  ASSUME RTypeOK(RMsg, HandlerPC), NEW n \in Node, NEW t \in tasks[n]
  PROVE  /\ t.conn \in Node /\ t.local \in Nat /\ t.rmsg \in RMsg /\ t.rmsg.id \in Msg
         /\ t.rmsg.path = AnnounceAgreementSeqPath => t.rmsg.seq \in Nat /\ t.rmsg.pid \in Node
         /\ t.rmsg.path = AskProposalSeqPath => t.rmsg = TOAskProposalSeqMsg(t.rmsg.id)
<1>1. t.conn \in Node /\ t.local \in Nat /\ t.rmsg \in RMsg
  BY DEF RTypeOK, Task
<1>2. QED  BY <1>1 DEF RMsg, AskProposalSeqPath, AnnounceAgreementSeqPath, TOAskProposalSeqMsg

\* Announcing a largest vote preserves the types.
LEMMA AggregateType ==
  ASSUME TypeInv, NEW n \in Node, NEW m \in Msg, NEW votes \in SUBSET Vote,
         IsFiniteSet(votes), votes # {}, AggregateVotesAndMulticast(n, m, votes)
  PROVE  /\ BTypeOK(BMsg)'
         /\ Writes(n, senders[n], RBMsg(TOAnnounceAgreementSeqMsg(MaxOfArrayProposalItem(votes))))
         /\ waitProposalCounter' \in [Node -> [Msg -> SUBSET Vote]]
         /\ \A s \in Node, l \in Msg : IsFiniteSet(waitProposalCounter'[s][l])
         /\ \A s \in Node, l \in Msg : l # m \/ s # n =>
              waitProposalCounter'[s][l] = waitProposalCounter[s][l]
<1>1. MaxOfArrayProposalItem(votes) \in Vote
  BY MaxVote
<1>2. TOAnnounceAgreementSeqMsg(MaxOfArrayProposalItem(votes)) \in RMsg
  BY <1>1 DEF TOAnnounceAgreementSeqMsg, RMsg, Vote
<1>3. /\ BTypeOK(BMsg)'
      /\ Writes(n, senders[n], RBMsg(TOAnnounceAgreementSeqMsg(MaxOfArrayProposalItem(votes))))
  BY <1>2, MulticastRType DEF AggregateVotesAndMulticast, TypeInv
<1>4. waitProposalCounter \in [Node -> [Msg -> SUBSET Vote]]
  BY DEF TypeInv, TOTypeOK
<1>5. waitProposalCounter' = [waitProposalCounter EXCEPT ![n][m] = {}]
  BY DEF AggregateVotesAndMulticast
<1>6. IsFiniteSet({})
  BY FS_EmptySet
<1>7. \A s \in Node, l \in Msg : IsFiniteSet(waitProposalCounter'[s][l])
  BY <1>4, <1>5, <1>6 DEF TypeInv, VotesOK
<1>8. QED  BY <1>3, <1>4, <1>5, <1>7

\* Every step keeps the types.
LEMMA TypeStep == TypeInv /\ [Next]_vars => TypeInv'
<1> SUFFICES ASSUME TypeInv, [Next]_vars  PROVE TypeInv'
  OBVIOUS
<1>0. BTypeOK(BMsg) /\ RTypeOK(RMsg, HandlerPC) /\ TOTypeOK /\ VotesOK /\ ConnAlive
  BY DEF TypeInv
<1>1. ASSUME NEW n \in Node, NEW m \in Msg, AskGroup(n, m)  PROVE TypeInv'
  <2>1. TOAskProposalSeqMsg(m) \in RMsg
    BY DEF TOAskProposalSeqMsg, RMsg
  <2>2. BTypeOK(BMsg)' /\ ConnAlive'
    BY <1>0, <1>1, <2>1, MulticastRType DEF AskGroup, Writes, ConnAlive
  <2>3. QED  BY <1>0, <1>1, <2>2 DEF AskGroup, TypeInv, TOTypeOK, VotesOK, RTypeOK, rvars
<1>2. ASSUME NEW s \in Node, NEW n \in Node, Receive(s, n)  PROVE TypeInv'
  <2>1. BTypeOK(BMsg)' /\ RTypeOK(RMsg, HandlerPC)' /\ ConnAlive'
    BY <1>0, <1>2, ReceiveType DEF Receive, Reads, ConnAlive
  <2>2. QED  BY <1>0, <1>2, <2>1 DEF Receive, TypeInv, TOTypeOK, VotesOK, tovars
<1>3. ASSUME NEW n \in Node, NEW t \in tasks[n], RelayTask(n, t)  PROVE TypeInv'
  <2>1. BTypeOK(BMsg)' /\ ConnAlive'
    BY <1>0, <1>3, TaskMessage, MulticastRType DEF RelayTask, Relay, Writes, ConnAlive
  <2>2. RTypeOK(RMsg, HandlerPC)'
    BY <1>0, <1>3, TaskMessage, TaskType DEF RelayTask, Relay, RTypeOK, HandlerPC
  <2>3. QED  BY <1>0, <1>3, <2>1, <2>2 DEF RelayTask, TypeInv, TOTypeOK, VotesOK, tovars
<1>4. ASSUME NEW n \in Node, NEW t \in tasks[n], Propose(n, t)  PROVE TypeInv'
  <2>1. NextProposal(n) \in Nat
    BY <1>0 DEF TOTypeOK, NextProposal, MaxUint64
  <2>2. RTypeOK(RMsg, HandlerPC)'
    BY <1>0, <1>4, <2>1, TaskType DEF Propose, RTypeOK, HandlerPC
  <2>3. QED
    BY <1>0, <1>4, <2>1, <2>2
    DEF Propose, TypeInv, BTypeOK, ConnAlive, bvars, TOTypeOK, VotesOK
<1>5. ASSUME NEW n \in Node, NEW t \in tasks[n], PushAndReply(n, t)  PROVE TypeInv'
  <2> DEFINE m == t.rmsg.id
             reply == [path |-> WaitProposalSeqPath, body |-> ProposalItem(n, m, t.local)]
  <2>1. m \in Msg /\ t.local \in Nat /\ Origin[m] \in Node
    BY <1>0, TaskMessage, OriginAssumption
  <2>2. reply \in BMsg
    BY <2>1 DEF BMsg, ProposalItem, Vote
  <2>3. BTypeOK(BMsg)' /\ ConnAlive'
    BY <1>0, <1>5, <2>1, <2>2, UnicastStep DEF PushAndReply, Writes, ConnAlive
  <2>4. [id |-> m, seq |-> t.local, pid |-> Origin[m], agreed |-> FALSE] \in Item
    BY <2>1 DEF Item
  <2>5. holdQueue' \in [Node -> SUBSET Item]
    BY <1>0, <1>5, <2>4 DEF PushAndReply, TOTypeOK
  <2>6. RTypeOK(RMsg, HandlerPC)'
    BY <1>0, <1>5, TaskType DEF PushAndReply, RTypeOK
  <2>7. QED  BY <1>0, <1>5, <2>3, <2>5, <2>6 DEF PushAndReply, TypeInv, TOTypeOK, VotesOK
<1>6. ASSUME NEW s \in Node, NEW n \in Node, ReceiveVote(s, n)  PROVE TypeInv'
  <2>1. /\ BTypeOK(BMsg)' /\ ConnAlive'
        /\ Head(net[s][n]) \in BMsg
        /\ Head(net[s][n]).path = WaitProposalSeqPath
    BY <1>0, <1>6, ReadStep DEF ReceiveVote, Reads, ConnAlive
  <2>2. Head(net[s][n]).body \in Vote
    BY <2>1 DEF BMsg, RMulticastPath, WaitProposalSeqPath
  <2>3. waitVotesChannel' \in [Node -> Seq(Vote)]
    BY <1>0, <1>6, <2>2 DEF ReceiveVote, TOTypeOK
  <2>4. QED
    BY <1>0, <1>6, <2>1, <2>3 DEF ReceiveVote, TypeInv, TOTypeOK, VotesOK, RTypeOK, rvars
<1>7. ASSUME NEW n \in Node, CollectVote(n)  PROVE TypeInv'
  <2> DEFINE vote == Head(waitVotesChannel[n])
             votes == waitProposalCounter[n][vote.id] \cup {vote}
  <2>1. waitVotesChannel[n] \in Seq(Vote) /\ waitVotesChannel[n] # <<>>
    BY <1>0, <1>7 DEF CollectVote, TOTypeOK
  <2>2. vote \in Vote /\ Tail(waitVotesChannel[n]) \in Seq(Vote)
    BY <2>1, HeadTailProperties
  <2>3. vote.id \in Msg
    BY <2>2 DEF Vote
  <2>4. votes \in SUBSET Vote /\ votes # {} /\ IsFiniteSet(votes)
    <3>1. waitProposalCounter[n][vote.id] \in SUBSET Vote
      BY <1>0, <2>3 DEF TOTypeOK
    <3>2. IsFiniteSet(waitProposalCounter[n][vote.id])
      BY <1>0, <2>3 DEF VotesOK
    <3>3. IsFiniteSet(votes)
      BY <3>2, FS_AddElement
    <3>4. QED  BY <2>2, <3>1, <3>3
  <2>5. waitVotesChannel' \in [Node -> Seq(Vote)]
    <3>1. waitVotesChannel' = [waitVotesChannel EXCEPT ![n] = Tail(@)]
      BY <1>7 DEF CollectVote
    <3>2. waitVotesChannel \in [Node -> Seq(Vote)]
      BY <1>0 DEF TOTypeOK
    <3>3. QED  BY <2>2, <3>1, <3>2
  <2>6. CASE /\ waitProposalCounter' = [waitProposalCounter EXCEPT ![n][vote.id] = votes]
             /\ UNCHANGED bvars
    <3>1. waitProposalCounter' \in [Node -> [Msg -> SUBSET Vote]]
      BY <1>0, <2>3, <2>4, <2>6 DEF TOTypeOK
    <3>2. \A s \in Node, l \in Msg : IsFiniteSet(waitProposalCounter'[s][l])
      BY <1>0, <2>3, <2>4, <2>6 DEF TOTypeOK, VotesOK
    <3>3. \A s \in Node, l \in Msg : waitProposalCounter[s][l] # {} => waitProposalCounter'[s][l] # {}
      BY <1>0, <2>3, <2>4, <2>6 DEF TOTypeOK
    <3>4. VotesOK' /\ TOTypeOK'
      BY <1>0, <1>7, <2>5, <3>1, <3>2, <3>3 DEF CollectVote, VotesOK, TOTypeOK
    <3>5. QED
      BY <1>0, <1>7, <2>6, <3>4
      DEF CollectVote, TypeInv, BTypeOK, RTypeOK, ConnAlive, bvars, rvars
  <2>7. CASE AggregateVotesAndMulticast(n, vote.id, votes)
    <3>1. /\ BTypeOK(BMsg)' /\ ConnAlive'
          /\ waitProposalCounter' \in [Node -> [Msg -> SUBSET Vote]]
          /\ \A s \in Node, l \in Msg : IsFiniteSet(waitProposalCounter'[s][l])
          /\ \A s \in Node, l \in Msg : s # n => waitProposalCounter'[s][l] = waitProposalCounter[s][l]
      BY <1>0, <2>3, <2>4, <2>7, AggregateType DEF Writes, ConnAlive
    <3>2. recheck[n] = {} /\ recheck' = recheck /\ recheck \in [Node -> SUBSET Msg]
      BY <1>0, <1>7 DEF CollectVote, TOTypeOK
    <3>3. VotesOK' /\ TOTypeOK'
      BY <1>0, <1>7, <2>5, <3>1, <3>2 DEF CollectVote, VotesOK, TOTypeOK
    <3>4. QED  BY <1>0, <1>7, <3>1, <3>3 DEF CollectVote, TypeInv, RTypeOK, rvars
  <2>8. QED  BY <1>7, <2>6, <2>7 DEF CollectVote
<1>8. ASSUME NEW n \in Node, ReceiveMemberUpdate(n)  PROVE TypeInv'
  <2>1. memberUpdate' \in [Node -> Seq(Int)]
    BY <1>0, <1>8 DEF ReceiveMemberUpdate, BTypeOK
  <2>2. BTypeOK(BMsg)' /\ ConnAlive' /\ RTypeOK(RMsg, HandlerPC)'
    BY <1>0, <1>8, <2>1 DEF ReceiveMemberUpdate, BTypeOK, RTypeOK, rvars, ConnAlive
  <2>3. recheck' \in [Node -> SUBSET Msg]
    BY <1>0, <1>8 DEF ReceiveMemberUpdate, NowEnough, TOTypeOK
  <2>4. VotesOK'
    BY <1>0, <1>8 DEF ReceiveMemberUpdate, NowEnough, VotesOK, TOTypeOK
  <2>5. QED  BY <1>0, <1>8, <2>2, <2>3, <2>4 DEF ReceiveMemberUpdate, TypeInv, TOTypeOK
<1>9. ASSUME NEW n \in Node, NEW m \in Msg, RecheckVotes(n, m)  PROVE TypeInv'
  <2> DEFINE votes == waitProposalCounter[n][m]
  <2>1. votes \in SUBSET Vote /\ votes # {} /\ IsFiniteSet(votes)
    BY <1>0, <1>9 DEF RecheckVotes, TOTypeOK, VotesOK
  <2>2. /\ BTypeOK(BMsg)' /\ ConnAlive'
        /\ waitProposalCounter' \in [Node -> [Msg -> SUBSET Vote]]
        /\ \A s \in Node, l \in Msg : IsFiniteSet(waitProposalCounter'[s][l])
        /\ \A s \in Node, l \in Msg : l # m \/ s # n =>
             waitProposalCounter'[s][l] = waitProposalCounter[s][l]
    BY <1>0, <1>9, <2>1, AggregateType DEF RecheckVotes, Writes, ConnAlive
  <2>3. recheck' = [recheck EXCEPT ![n] = @ \ {m}] /\ recheck \in [Node -> SUBSET Msg]
    BY <1>0, <1>9 DEF RecheckVotes, TOTypeOK
  <2>4. VotesOK' /\ TOTypeOK'
    BY <1>0, <1>9, <2>2, <2>3 DEF RecheckVotes, VotesOK, TOTypeOK
  <2>5. QED  BY <1>0, <1>9, <2>2, <2>4 DEF RecheckVotes, TypeInv, RTypeOK, rvars
<1>10. ASSUME NEW n \in Node, NEW t \in tasks[n], Agree(n, t)  PROVE TypeInv'
  <2>1. maxAgreementSeqNumOfGroup' \in [Node -> Nat]
    BY <1>0, <1>10, TaskMessage DEF Agree, IsAt, MaxUint64, TOTypeOK
  <2>2. RTypeOK(RMsg, HandlerPC)'
    BY <1>0, <1>10, TaskMessage, TaskType DEF Agree, RTypeOK, HandlerPC
  <2>3. QED
    BY <1>0, <1>10, <2>1, <2>2
    DEF Agree, TypeInv, BTypeOK, ConnAlive, bvars, TOTypeOK, VotesOK
<1>11. ASSUME NEW n \in Node, NEW t \in tasks[n], UpdateItem(n, t)  PROVE TypeInv'
  <2>1. \A i \in Item : Update(i, t.rmsg) \in Item
    BY <1>0, <1>11, TaskMessage DEF UpdateItem, IsAt, Update, Item
  <2>2. /\ holdQueue' \in [Node -> SUBSET Item]
        /\ holdQueueLocker' \in [Node -> SUBSET Node]
    <3>1. holdQueue \in [Node -> SUBSET Item] /\ holdQueueLocker \in [Node -> SUBSET Node]
      BY <1>0 DEF TOTypeOK
    <3>2. CASE UNCHANGED <<holdQueue, holdQueueLocker>>
      BY <3>1, <3>2
    <3>3. ASSUME NEW i \in holdQueue[n],
                 holdQueue' = [holdQueue EXCEPT ![n] = (@ \ {i}) \cup {Update(i, t.rmsg)}],
                 holdQueueLocker' = [holdQueueLocker EXCEPT ![n] = {t.conn}]
          PROVE  /\ holdQueue' \in [Node -> SUBSET Item]
                 /\ holdQueueLocker' \in [Node -> SUBSET Node]
      <4>1. Update(i, t.rmsg) \in Item /\ t.conn \in Node
        BY <1>0, <2>1, <3>1, TaskMessage
      <4>2. QED  BY <3>1, <3>3, <4>1
    <3>4. QED  BY <1>11, <3>2, <3>3 DEF UpdateItem
  <2>3. RTypeOK(RMsg, HandlerPC)'
    <3>1. Return(n, t) \/ GoTo(n, t, "drain", t.local)
      BY <1>11 DEF UpdateItem
    <3>2. t.local \in Nat /\ "drain" \in HandlerPC
      BY <1>0, TaskMessage DEF HandlerPC
    <3>3. tasks' \in [Node -> SUBSET Task(RMsg, HandlerPC)]
      BY <1>0, <3>1, <3>2, TaskType
    <3>4. QED  BY <1>0, <1>11, <3>3 DEF UpdateItem, RTypeOK
  <2>4. QED
    BY <1>0, <1>11, <2>2, <2>3
    DEF UpdateItem, TypeInv, BTypeOK, ConnAlive, bvars, TOTypeOK, VotesOK
<1>12. ASSUME NEW n \in Node, NEW t \in tasks[n], Deliver(n, t)  PROVE TypeInv'
  <2>1. PICK i \in holdQueue[n] :
          /\ holdQueue' = [holdQueue EXCEPT ![n] = Pop(n, i)]
          /\ delivered' = [delivered EXCEPT ![n] = Append(@, ProposalItem(i.pid, i.id, i.seq))]
          /\ overtaken' = [overtaken EXCEPT ![n] = @ \cup NotYetPushed(n, i.seq)]
    BY <1>12 DEF Deliver
  <2>2. ProposalItem(i.pid, i.id, i.seq) \in Vote
    BY <1>0, <2>1 DEF TOTypeOK, Item, Vote, ProposalItem
  <2>3. NotYetPushed(n, i.seq) \in SUBSET Msg
    BY <1>0, TaskMessage DEF NotYetPushed
  <2>4. /\ holdQueue' \in [Node -> SUBSET Item]
        /\ delivered' \in [Node -> Seq(Vote)]
        /\ overtaken' \in [Node -> SUBSET Msg]
    BY <1>0, <2>1, <2>2, <2>3 DEF TOTypeOK, Pop
  <2>5. QED
    BY <1>0, <1>12, <2>4
    DEF Deliver, TypeInv, BTypeOK, RTypeOK, ConnAlive, bvars, rvars, TOTypeOK, VotesOK
<1>13. ASSUME NEW n \in Node, NEW t \in tasks[n], Stop(n, t)  PROVE TypeInv'
  <2>1. \A i \in Item : i.pid \in Node
    BY DEF Item
  <2>2. /\ holdQueue' \in [Node -> SUBSET Item]
        /\ crashNodeTimeout' \in [Node -> SUBSET Node]
        /\ holdQueueLocker' \in [Node -> SUBSET Node]
    <3>1. /\ holdQueue \in [Node -> SUBSET Item]
          /\ crashNodeTimeout \in [Node -> SUBSET Node]
          /\ holdQueueLocker \in [Node -> SUBSET Node]
      BY <1>0 DEF TOTypeOK
    <3>2. \/ holdQueue' = holdQueue
          \/ \E i \in holdQueue[n] : holdQueue' = [holdQueue EXCEPT ![n] = holdQueue[n] \ {i}]
      BY <1>13 DEF Stop, Pop
    <3>3. \/ crashNodeTimeout' = crashNodeTimeout
          \/ \E i \in holdQueue[n] :
               crashNodeTimeout' = [crashNodeTimeout EXCEPT ![n] = @ \cup {i.pid}]
      BY <1>13 DEF Stop
    <3>4. holdQueueLocker' = [holdQueueLocker EXCEPT ![n] = {}]
      BY <1>13 DEF Stop
    <3>5. holdQueue' \in [Node -> SUBSET Item]
      BY <3>1, <3>2
    <3>6. crashNodeTimeout' \in [Node -> SUBSET Node]
      BY <2>1, <3>1, <3>3
    <3>7. QED  BY <3>1, <3>4, <3>5, <3>6
  <2>3. RTypeOK(RMsg, HandlerPC)'
    <3>1. Return(n, t) /\ UNCHANGED received
      BY <1>13 DEF Stop
    <3>2. tasks' \in [Node -> SUBSET Task(RMsg, HandlerPC)]
      BY <1>0, <3>1, TaskType
    <3>3. QED  BY <1>0, <3>1, <3>2 DEF RTypeOK
  <2>4. QED
    BY <1>0, <1>13, <2>2, <2>3
    DEF Stop, TypeInv, BTypeOK, ConnAlive, bvars, TOTypeOK, VotesOK
<1>14. ASSUME NEW n \in Node, Crash(n)  PROVE TypeInv'
  <2>1. BTypeOK(BMsg)' /\ ConnAlive'
    BY <1>0, <1>14, CrashStep DEF Crash, RCrash
  <2>2. QED
    BY <1>0, <1>14, <2>1 DEF Crash, RCrash, TypeInv, RTypeOK, TOTypeOK, VotesOK, tovars
<1>15. ASSUME NEW s \in Node, NEW d \in Node, Reset(s, d)  PROVE TypeInv'
  <2>1. BTypeOK(BMsg)' /\ ConnAlive'
    BY <1>0, <1>15, ResetStep DEF Reset
  <2>2. QED
    BY <1>0, <1>15, <2>1 DEF Reset, TypeInv, RTypeOK, rvars, TOTypeOK, VotesOK, tovars
<1>16. CASE UNCHANGED vars
  BY <1>0, <1>16
  DEF vars, bvars, rvars, tovars, TypeInv, BTypeOK, RTypeOK, TOTypeOK, VotesOK, ConnAlive
<1>17. QED
  BY <1>1, <1>2, <1>3, <1>4, <1>5, <1>6, <1>7, <1>8, <1>9, <1>10, <1>11, <1>12, <1>13,
     <1>14, <1>15, <1>16 DEF Next, HandleConn, CollectVotes

\* The initial state has the types.
LEMMA TypeInit == Init => TypeInv
BY FS_EmptySet
DEF Init, BInit, RInit, TypeInv, BTypeOK, RTypeOK, TOTypeOK, VotesOK, ConnAlive

\* Every reachable state has the types of the struct of TotalOrding
\* (total_ording.go:33-48); in particular an announcement always carries a
\* number and a node that were voted, because aggregateVotesAndMulticast is
\* never called without votes (total_ording.go:83-102, 118, 138).
THEOREM TypeCorrect == Spec => []TypeOK
<1>1. TypeInv => TypeOK
  BY DEF TypeInv, TOTypeOK, TypeOK
<1>2. QED  BY <1>1, TypeInit, TypeStep, PTL DEF Spec

-----------------------------------------------------------------------------
(***************************************************************************)
(* DeliveredOnce.  The invariant follows a message through a node: the     *)
(* request for a proposal is recorded once, at most one task handles it,   *)
(* and while it does the message is neither held nor delivered; then it    *)
(* is held, under one item; then it is delivered, or dropped.              *)
(***************************************************************************)
Requested(n) == {r.id : r \in {q \in received[n] : q.path = AskProposalSeqPath}}

\* A frame of the network that asks for a proposal asks it for an asked message.
AskedFrame(bmsg) ==
  bmsg.path = RMulticastPath /\ bmsg.body.path = AskProposalSeqPath => bmsg.body.id \in asked

AskedSent == \A s, d \in Node : \A bmsg \in Range(net[s][d]) : AskedFrame(bmsg)

TasksOnce(n) ==
  /\ \A t \in tasks[n] : t.rmsg \in received[n]
  /\ \A t, u \in tasks[n] : t.rmsg = u.rmsg => t = u
  /\ \A t \in tasks[n] :
       t.rmsg.path = AskProposalSeqPath => t.rmsg.id \notin HeldIds(n) \cup DeliveredIds(n)

HeldOnce(n) ==
  /\ HeldIds(n) \subseteq Requested(n) \ DeliveredIds(n)
  /\ \A i, j \in holdQueue[n] : i.id = j.id => i = j

DeliveriesOnce(n) ==
  /\ DeliveredIds(n) \subseteq Requested(n)
  /\ \A i, j \in DOMAIN delivered[n] : delivered[n][i].id = delivered[n][j].id => i = j

OnceInv ==
  /\ TypeInv
  /\ AskedSent
  /\ \A n \in Node : /\ Requested(n) \subseteq asked
                     /\ TasksOnce(n)
                     /\ HeldOnce(n)
                     /\ DeliveriesOnce(n)

\* Tasks only come to an end or move on.
TasksShrink ==
  \A n \in Node :
    /\ \A u \in tasks'[n] : \E t \in tasks[n] : u.rmsg = t.rmsg
    /\ \A u, v \in tasks'[n] : u.rmsg = v.rmsg => u = v

\* A task that moves on, returns or is killed leaves the others alone.
LEMMA TaskSteps ==
  ASSUME OnceInv, NEW n \in Node,
         \/ UNCHANGED tasks
         \/ tasks' = [tasks EXCEPT ![n] = {}]
         \/ \E t \in tasks[n] : Return(n, t)
         \/ \E t \in tasks[n], pc \in HandlerPC, local \in Nat : GoTo(n, t, pc, local)
  PROVE  TasksShrink
<1>1. tasks \in [Node -> SUBSET Task(RMsg, HandlerPC)]
      /\ \A s \in Node : \A t, u \in tasks[s] : t.rmsg = u.rmsg => t = u
  BY DEF OnceInv, TypeInv, RTypeOK, TasksOnce
<1>2. CASE UNCHANGED tasks
  BY <1>1, <1>2 DEF TasksShrink
<1>3. CASE tasks' = [tasks EXCEPT ![n] = {}]
  BY <1>1, <1>3 DEF TasksShrink
<1>4. ASSUME NEW t \in tasks[n], Return(n, t)  PROVE TasksShrink
  BY <1>1, <1>4 DEF TasksShrink, Return
<1>5. ASSUME NEW t \in tasks[n], NEW pc \in HandlerPC, NEW local \in Nat, GoTo(n, t, pc, local)
      PROVE  TasksShrink
  <2>1. At(t, pc, local).rmsg = t.rmsg
    BY <1>1 DEF At, Task
  <2>2. tasks'[n] = (tasks[n] \ {t}) \cup {At(t, pc, local)}
        /\ \A s \in Node : s # n => tasks'[s] = tasks[s]
    BY <1>1, <1>5 DEF GoTo
  <2>3. \A u \in tasks'[n] : \E v \in tasks[n] : u.rmsg = v.rmsg
    BY <2>1, <2>2
  <2>4. \A u, v \in tasks'[n] : u.rmsg = v.rmsg => u = v
    BY <1>1, <2>1, <2>2
  <2>5. QED  BY <1>1, <2>2, <2>3, <2>4 DEF TasksShrink
<1>6. QED  BY <1>2, <1>3, <1>4, <1>5

\* A step that neither records, holds nor delivers anything keeps OnceInv.
LEMMA QuietStep ==
  ASSUME OnceInv, TypeInv', AskedSent', TasksShrink, asked \subseteq asked',
         UNCHANGED <<received, holdQueue, delivered>>
  PROVE  OnceInv'
<1>1. ASSUME NEW n \in Node
      PROVE  /\ HeldIds(n)' = HeldIds(n) /\ DeliveredIds(n)' = DeliveredIds(n)
             /\ Requested(n)' = Requested(n)
  BY DEF HeldIds, DeliveredIds, Requested
<1>2. ASSUME NEW n \in Node
      PROVE  (Requested(n) \subseteq asked)' /\ HeldOnce(n)' /\ DeliveriesOnce(n)'
  BY <1>1, <1>2 DEF OnceInv, HeldOnce, DeliveriesOnce
<1>3. ASSUME NEW n \in Node  PROVE TasksOnce(n)'
  BY <1>1, <1>3 DEF OnceInv, TasksOnce, TasksShrink
<1>4. QED  BY <1>2, <1>3 DEF OnceInv

\* What a step may write without breaking AskedSent.
LEMMA WritesAsked ==
  ASSUME AskedSent, TypeInv, NEW n \in Node, NEW S, NEW bmsg, Writes(n, S, bmsg), S \subseteq Node,
         asked \subseteq asked', AskedFrame(bmsg)'
  PROVE  AskedSent'
<1> SUFFICES ASSUME NEW s \in Node, NEW d \in Node, NEW b \in Range(net[s][d])'
             PROVE  AskedFrame(b)'
  BY DEF AskedSent
<1>1. b = bmsg \/ b \in Range(net[s][d])
  BY DEF Writes
<1>2. QED  BY <1>1 DEF AskedSent, AskedFrame

\* Nothing that is lost or read breaks it.
LEMMA ShrinkAsked ==
  ASSUME AskedSent, UNCHANGED asked,
         \A s, d \in Node : Range(net'[s][d]) \subseteq Range(net[s][d])
  PROVE  AskedSent'
BY DEF AskedSent, AskedFrame

\* An announcement does not ask for a proposal, and a vote does not either.
LEMMA OtherFrames ==
  /\ \A vote : AskedFrame(RBMsg(TOAnnounceAgreementSeqMsg(vote)))'
  /\ \A vote : AskedFrame([path |-> WaitProposalSeqPath, body |-> vote])'
BY DEF AskedFrame, RBMsg, TOAnnounceAgreementSeqMsg, RMulticastPath, WaitProposalSeqPath,
       AskProposalSeqPath, AnnounceAgreementSeqPath

\* The first copy of a request is recorded: nothing is held or delivered for
\* it yet, and the task it starts is the only one.
LEMMA ReceiveOnce ==
  ASSUME OnceInv, TypeInv', NEW s \in Node, NEW n \in Node, Receive(s, n)
  PROVE  OnceInv'
<1> DEFINE r == Head(net[s][n]).body
<1>1. /\ BTypeOK(BMsg) /\ RTypeOK(RMsg, HandlerPC)
      /\ UNCHANGED <<asked, holdQueue, delivered>>
      /\ Reads(s, n, Head(net[s][n]))
      /\ r \in RMsg
  BY ReceiveType DEF OnceInv, TypeInv, Receive, tovars
<1>2. Head(net[s][n]).path = RMulticastPath
  BY DEF Receive, ReceiveR, Read
<1>3. AskedSent'
  <2>1. \A e, d \in Node : Range(net'[e][d]) \subseteq Range(net[e][d])
    BY <1>1 DEF Reads
  <2>2. QED  BY <1>1, <2>1, ShrinkAsked DEF OnceInv
<1>4. r.path = AskProposalSeqPath => r.id \in asked
  BY <1>1, <1>2 DEF OnceInv, AskedSent, AskedFrame, Reads
<1>5. CASE ~IsNew(n, r)
  <2>1. UNCHANGED rvars
    BY <1>5 DEF Receive, ReceiveR
  <2>2. TasksShrink
    BY <2>1, TaskSteps DEF rvars
  <2>3. QED  BY <1>1, <1>3, <2>1, <2>2, QuietStep DEF rvars
<1>6. CASE IsNew(n, r)
  <2>1. /\ received' = [received EXCEPT ![n] = @ \cup {r}]
        /\ tasks' = [tasks EXCEPT ![n] = @ \cup {NewTask(n, s, r)}]
    BY <1>6 DEF Receive, ReceiveR
  <2>2. r \notin received[n] /\ NewTask(n, s, r).rmsg = r
    BY <1>6 DEF IsNew, NewTask
  <2>3. /\ received'[n] = received[n] \cup {r}
        /\ tasks'[n] = tasks[n] \cup {NewTask(n, s, r)}
        /\ \A e \in Node : e # n => received'[e] = received[e] /\ tasks'[e] = tasks[e]
    BY <1>1, <2>1 DEF RTypeOK
  <2>4. \A e \in Node : HeldIds(e)' = HeldIds(e) /\ DeliveredIds(e)' = DeliveredIds(e)
    BY <1>1 DEF HeldIds, DeliveredIds
  <2>5. \A e \in Node : Requested(e) \subseteq Requested(e)' /\ Requested(e)' \subseteq asked'
    BY <1>1, <1>4, <2>3 DEF Requested, OnceInv
  <2>6. \A e \in Node : HeldOnce(e)' /\ DeliveriesOnce(e)'
    BY <1>1, <2>4, <2>5 DEF OnceInv, HeldOnce, DeliveriesOnce
  <2>7. r.path = AskProposalSeqPath => r.id \notin HeldIds(n) \cup DeliveredIds(n)
    <3>1. \A q \in received[n] : q \in RMsg
      BY <1>1 DEF RTypeOK
    <3>2. \A q \in received[n] :
            q.path = AskProposalSeqPath /\ r.path = AskProposalSeqPath => q.id # r.id
      BY <1>1, <2>2, <3>1 DEF RMsg, AskProposalSeqPath, AnnounceAgreementSeqPath
    <3>3. r.path = AskProposalSeqPath => r.id \notin Requested(n)
      BY <3>2 DEF Requested
    <3>4. QED  BY <3>3 DEF OnceInv, HeldOnce, DeliveriesOnce
  <2>8. TasksOnce(n)'
    BY <2>2, <2>3, <2>4, <2>7 DEF OnceInv, TasksOnce
  <2>9. ASSUME NEW e \in Node, e # n  PROVE TasksOnce(e)'
    BY <2>3, <2>4, <2>9 DEF OnceInv, TasksOnce
  <2>10. QED  BY <1>3, <2>5, <2>6, <2>8, <2>9 DEF OnceInv
<1>7. QED  BY <1>5, <1>6

\* The message of a request is held when its task ends.
LEMMA PushOnce ==
  ASSUME OnceInv, TypeInv', NEW n \in Node, NEW t \in tasks[n], PushAndReply(n, t)
  PROVE  OnceInv'
<1> DEFINE m == t.rmsg.id
           item == [id |-> m, seq |-> t.local, pid |-> Origin[m], agreed |-> FALSE]
           reply == [path |-> WaitProposalSeqPath, body |-> ProposalItem(n, m, t.local)]
<1>1. /\ BTypeOK(BMsg) /\ RTypeOK(RMsg, HandlerPC)
      /\ holdQueue \in [Node -> SUBSET Item] /\ tasks \in [Node -> SUBSET Task(RMsg, HandlerPC)]
  BY DEF OnceInv, TypeInv, TOTypeOK, RTypeOK
<1>2. m \in Msg /\ t.local \in Nat /\ Origin[m] \in Node /\ t.rmsg.path = AskProposalSeqPath
  BY <1>1, TaskMessage, OriginAssumption DEF PushAndReply, IsAt
<1>3. AskedSent'
  <2>1. reply \in BMsg
    BY <1>2 DEF BMsg, ProposalItem, Vote
  <2>2. PICK S \in SUBSET {Origin[m]} : Writes(n, S, reply)
    <3>1. Unicast(n, Origin[m], reply)
      BY DEF PushAndReply
    <3> HIDE DEF m, reply
    <3>2. BTypeOK(BMsg) /\ Origin[m] \in Node
      BY <1>1, <1>2
    <3>3. QED  BY <2>1, <3>1, <3>2, UnicastStep
  <2>3. asked' = asked /\ S \subseteq Node
    BY <1>2 DEF PushAndReply
  <2>4. AskedFrame(reply)'
    BY OtherFrames
  <2>5. AskedSent /\ TypeInv /\ asked \subseteq asked'
    BY <2>3 DEF OnceInv
  <2>6. QED  BY <2>2, <2>3, <2>4, <2>5, WritesAsked
<1>4. /\ holdQueue'[n] = holdQueue[n] \cup {item}
      /\ \A e \in Node : e # n => holdQueue'[e] = holdQueue[e]
      /\ UNCHANGED <<received, asked, delivered>>
  BY <1>1 DEF PushAndReply
<1>5. /\ tasks'[n] = tasks[n] \ {t}
      /\ \A e \in Node : e # n => tasks'[e] = tasks[e]
  BY <1>1 DEF PushAndReply, Return
<1>6. /\ \A e \in Node : DeliveredIds(e)' = DeliveredIds(e) /\ Requested(e)' = Requested(e)
      /\ \A e \in Node : e # n => HeldIds(e)' = HeldIds(e)
      /\ HeldIds(n)' = HeldIds(n) \cup {m}
  <2>1. /\ \A e \in Node : DeliveredIds(e)' = DeliveredIds(e) /\ Requested(e)' = Requested(e)
        /\ \A e \in Node : e # n => HeldIds(e)' = HeldIds(e)
    BY <1>4 DEF DeliveredIds, Requested, HeldIds
  <2>2. item.id = m
    OBVIOUS
  <2> HIDE DEF item, m
  <2>3. HeldIds(n)' = HeldIds(n) \cup {m}
    BY <1>4, <2>2 DEF HeldIds
  <2>4. QED  BY <2>1, <2>3
<1>7. m \in Requested(n) /\ m \notin HeldIds(n) \cup DeliveredIds(n)
  BY <1>2 DEF OnceInv, TasksOnce, Requested
<1>8. \A e \in Node : (Requested(e) \subseteq asked)' /\ DeliveriesOnce(e)'
  BY <1>4, <1>6 DEF OnceInv, DeliveriesOnce
<1>9. HeldOnce(n)'
  <2>1. /\ HeldIds(n) \subseteq Requested(n) \ DeliveredIds(n)
        /\ \A i, j \in holdQueue[n] : i.id = j.id => i = j
    BY DEF OnceInv, HeldOnce
  <2>2. item.id = m /\ \A i \in holdQueue[n] : i.id # m
    BY <1>7 DEF HeldIds
  <2>3. (HeldIds(n) \subseteq Requested(n) \ DeliveredIds(n))'
    BY <1>6, <1>7, <2>1
  <2>4. \A i, j \in holdQueue'[n] : i.id = j.id => i = j
    BY <1>4, <2>1, <2>2
  <2>5. QED  BY <2>3, <2>4 DEF HeldOnce
<1>10. TasksOnce(n)'
  <2>1. \A u \in tasks[n] \ {t} : u.rmsg.path = AskProposalSeqPath => u.rmsg.id # m
    <3>1. ASSUME NEW u \in tasks[n] \ {t}, u.rmsg.path = AskProposalSeqPath, u.rmsg.id = m
          PROVE  FALSE
      <4>1. u.rmsg = t.rmsg
        BY <1>1, <1>2, <3>1, TaskMessage
      <4>2. QED  BY <3>1, <4>1 DEF OnceInv, TasksOnce
    <3>2. QED  BY <3>1
  <2>2. QED  BY <1>4, <1>5, <1>6, <2>1 DEF OnceInv, TasksOnce
<1>11. ASSUME NEW e \in Node, e # n  PROVE HeldOnce(e)' /\ TasksOnce(e)'
  BY <1>4, <1>5, <1>6, <1>11 DEF OnceInv, HeldOnce, TasksOnce
<1>12. QED  BY <1>3, <1>8, <1>9, <1>10, <1>11 DEF OnceInv

\* The item of an announced message changes, but not what it is about.
LEMMA UpdateOnce ==
  ASSUME OnceInv, TypeInv', NEW n \in Node, NEW t \in tasks[n], UpdateItem(n, t)
  PROVE  OnceInv'
<1>1. /\ holdQueue \in [Node -> SUBSET Item]
      /\ UNCHANGED <<bvars, received, asked, delivered>>
  BY DEF OnceInv, TypeInv, TOTypeOK, UpdateItem
<1>2. TasksShrink
  <2>1. Return(n, t) \/ GoTo(n, t, "drain", t.local)
    BY DEF UpdateItem
  <2>2. t.local \in Nat /\ "drain" \in HandlerPC
    BY TaskMessage DEF HandlerPC, OnceInv, TypeInv
  <2>3. QED  BY <2>1, <2>2, TaskSteps
<1>3. AskedSent'
  BY <1>1, ShrinkAsked DEF OnceInv, bvars
<1>4. CASE UNCHANGED holdQueue
  BY <1>1, <1>2, <1>3, <1>4, QuietStep
<1>5. ASSUME NEW i \in holdQueue[n],
             holdQueue' = [holdQueue EXCEPT ![n] = (@ \ {i}) \cup {Update(i, t.rmsg)}]
      PROVE  OnceInv'
  <2>1. Update(i, t.rmsg).id = i.id
    BY <1>1 DEF Update, Item
  <2>2. /\ holdQueue'[n] = (holdQueue[n] \ {i}) \cup {Update(i, t.rmsg)}
        /\ \A e \in Node : e # n => holdQueue'[e] = holdQueue[e]
    BY <1>1, <1>5
  <2>3. \A e \in Node : HeldIds(e)' = HeldIds(e)
    <3>1. \A m : m \in HeldIds(n)' <=> m \in HeldIds(n)
      BY <2>1, <2>2 DEF HeldIds
    <3>2. QED  BY <2>2, <3>1 DEF HeldIds
  <2>4. \A e \in Node : DeliveredIds(e)' = DeliveredIds(e) /\ Requested(e)' = Requested(e)
    BY <1>1 DEF DeliveredIds, Requested
  <2>5. \A e \in Node : \A j, k \in holdQueue'[e] : j.id = k.id => j = k
    BY <2>1, <2>2 DEF OnceInv, HeldOnce
  <2>6. ASSUME NEW e \in Node
        PROVE  (Requested(e) \subseteq asked)' /\ HeldOnce(e)' /\ DeliveriesOnce(e)'
    BY <1>1, <2>3, <2>4, <2>5 DEF OnceInv, HeldOnce, DeliveriesOnce
  <2>7. ASSUME NEW e \in Node  PROVE TasksOnce(e)'
    BY <1>1, <1>2, <2>3, <2>4 DEF OnceInv, TasksOnce, TasksShrink
  <2>8. QED  BY <1>3, <2>6, <2>7 DEF OnceInv
<1>6. QED  BY <1>4, <1>5 DEF UpdateItem

\* A head that is dropped is neither held nor delivered afterwards.
LEMMA StopOnce ==
  ASSUME OnceInv, TypeInv', NEW n \in Node, NEW t \in tasks[n], Stop(n, t)
  PROVE  OnceInv'
<1>1. /\ holdQueue \in [Node -> SUBSET Item]
      /\ UNCHANGED <<bvars, received, asked, delivered>>
  BY DEF OnceInv, TypeInv, TOTypeOK, Stop
<1>2. TasksShrink
  BY TaskSteps DEF Stop
<1>3. AskedSent'
  BY <1>1, ShrinkAsked DEF OnceInv, bvars
<1>4. \A e \in Node : holdQueue'[e] \subseteq holdQueue[e]
  <2>1. \/ holdQueue' = holdQueue
        \/ \E i \in holdQueue[n] : holdQueue' = [holdQueue EXCEPT ![n] = holdQueue[n] \ {i}]
    BY DEF Stop, Pop
  <2>2. QED  BY <1>1, <2>1
<1>5. \A e \in Node : HeldIds(e)' \subseteq HeldIds(e)
  BY <1>4 DEF HeldIds
<1>6. \A e \in Node : DeliveredIds(e)' = DeliveredIds(e) /\ Requested(e)' = Requested(e)
  BY <1>1 DEF DeliveredIds, Requested
<1>7. ASSUME NEW e \in Node
      PROVE  (Requested(e) \subseteq asked)' /\ HeldOnce(e)' /\ DeliveriesOnce(e)'
  BY <1>1, <1>4, <1>5, <1>6 DEF OnceInv, HeldOnce, DeliveriesOnce
<1>8. ASSUME NEW e \in Node  PROVE TasksOnce(e)'
  BY <1>1, <1>2, <1>5, <1>6 DEF OnceInv, TasksOnce, TasksShrink
<1>9. QED  BY <1>3, <1>7, <1>8 DEF OnceInv

\* The head that is delivered was held under no other item, so it is not held
\* any more, and was not delivered before.
LEMMA DeliverOnce ==
  ASSUME OnceInv, TypeInv', NEW n \in Node, NEW t \in tasks[n], Deliver(n, t)
  PROVE  OnceInv'
<1>1. PICK i \in holdQueue[n] :
        /\ holdQueue' = [holdQueue EXCEPT ![n] = Pop(n, i)]
        /\ delivered' = [delivered EXCEPT ![n] = Append(@, ProposalItem(i.pid, i.id, i.seq))]
  BY DEF Deliver
<1> DEFINE x == ProposalItem(i.pid, i.id, i.seq)
<1>2. /\ holdQueue \in [Node -> SUBSET Item] /\ delivered \in [Node -> Seq(Vote)]
      /\ UNCHANGED <<bvars, rvars, asked>>
  BY DEF OnceInv, TypeInv, TOTypeOK, Deliver
<1>3. x \in Vote /\ x.id = i.id
  BY <1>2 DEF Item, Vote, ProposalItem
<1> HIDE DEF x
<1>4. TasksShrink /\ AskedSent'
  BY <1>2, TaskSteps, ShrinkAsked DEF OnceInv, bvars, rvars
<1>5. /\ holdQueue'[n] = holdQueue[n] \ {i}
      /\ delivered'[n] = Append(delivered[n], x)
      /\ \A e \in Node : e # n => holdQueue'[e] = holdQueue[e] /\ delivered'[e] = delivered[e]
  BY <1>1, <1>2 DEF Pop, x
<1>6. /\ Range(delivered'[n]) = Range(delivered[n]) \cup {x}
      /\ delivered'[n] \in Seq(Vote)
  BY <1>2, <1>3, <1>5, RangeAppend
<1>7. /\ DeliveredIds(n)' = DeliveredIds(n) \cup {i.id}
      /\ \A e \in Node : e # n => DeliveredIds(e)' = DeliveredIds(e) /\ HeldIds(e)' = HeldIds(e)
  BY <1>3, <1>5, <1>6 DEF DeliveredIds, HeldIds
<1>8. HeldIds(n)' = HeldIds(n) \ {i.id}
  BY <1>5 DEF HeldIds, OnceInv, HeldOnce
<1>9. i.id \in HeldIds(n) /\ i.id \in Requested(n) \ DeliveredIds(n)
  BY DEF HeldIds, OnceInv, HeldOnce
<1>10. \A e \in Node : Requested(e)' = Requested(e)
  BY <1>2 DEF Requested, rvars
<1>11. HeldOnce(n)'
  BY <1>5, <1>7, <1>8, <1>10 DEF OnceInv, HeldOnce
<1>12. DeliveriesOnce(n)'
  <2>1. DeliveredIds(n)' \subseteq Requested(n)'
    BY <1>7, <1>9, <1>10 DEF OnceInv, DeliveriesOnce
  <2>2. delivered[n] \in Seq(Vote)
    BY <1>2
  <2>3. /\ Len(delivered'[n]) = Len(delivered[n]) + 1 /\ Len(delivered[n]) \in Nat
        /\ DOMAIN delivered[n] = 1 .. Len(delivered[n])
        /\ DOMAIN delivered'[n] = 1 .. Len(delivered'[n])
        /\ \A k \in 1 .. Len(delivered[n]) : delivered'[n][k] = delivered[n][k]
        /\ delivered'[n][Len(delivered[n]) + 1] = x
    BY <1>3, <1>5, <2>2, AppendProperties, LenProperties
  <2>4. \A k \in DOMAIN delivered[n] : delivered[n][k].id # i.id
    <3>1. \A k \in DOMAIN delivered[n] : delivered[n][k] \in Range(delivered[n])
      BY DEF Range
    <3>2. QED  BY <1>9, <3>1 DEF DeliveredIds
  <2>5. \A j, k \in DOMAIN delivered[n] : delivered[n][j].id = delivered[n][k].id => j = k
    BY DEF OnceInv, DeliveriesOnce
  <2> DEFINE len == Len(delivered[n])
  <2>6. ASSUME NEW j \in 1 .. len + 1, NEW k \in 1 .. len + 1, j < k,
               delivered'[n][j].id = delivered'[n][k].id
        PROVE  FALSE
    <3>1. j \in 1 .. len /\ delivered'[n][j] = delivered[n][j]
      BY <2>3, <2>6
    <3>2. CASE k = len + 1
      BY <1>3, <2>3, <2>4, <2>6, <3>1, <3>2
    <3>3. CASE k \in 1 .. len
      BY <2>3, <2>5, <2>6, <3>1, <3>3
    <3>4. QED  BY <2>3, <3>2, <3>3
  <2>7. \A j, k \in DOMAIN delivered'[n] : delivered'[n][j].id = delivered'[n][k].id => j = k
    BY <2>3, <2>6
  <2>8. QED  BY <2>1, <2>7 DEF DeliveriesOnce
<1>13. TasksOnce(n)'
  BY <1>2, <1>4, <1>7, <1>8, <1>9 DEF OnceInv, TasksOnce, TasksShrink, rvars
<1>14. ASSUME NEW e \in Node, e # n  PROVE HeldOnce(e)' /\ DeliveriesOnce(e)' /\ TasksOnce(e)'
  BY <1>2, <1>5, <1>7, <1>10, <1>14 DEF OnceInv, HeldOnce, DeliveriesOnce, TasksOnce, rvars
<1>15. ASSUME NEW e \in Node  PROVE (Requested(e) \subseteq asked)'
  BY <1>2, <1>10, <1>15 DEF OnceInv
<1>16. QED  BY <1>4, <1>11, <1>12, <1>13, <1>14, <1>15 DEF OnceInv

\* Every step keeps the invariant.
LEMMA OnceStep == OnceInv /\ [Next]_vars => OnceInv'
<1> SUFFICES ASSUME OnceInv, [Next]_vars  PROVE OnceInv'
  OBVIOUS
<1>0. TypeInv' /\ TypeInv /\ BTypeOK(BMsg) /\ RTypeOK(RMsg, HandlerPC) /\ ConnAlive
  BY TypeStep DEF OnceInv, TypeInv
<1>1. ASSUME NEW n \in Node, NEW m \in Msg, AskGroup(n, m)  PROVE OnceInv'
  <2>1. TOAskProposalSeqMsg(m) \in RMsg /\ TOAskProposalSeqMsg(m).id = m
    BY DEF TOAskProposalSeqMsg, RMsg
  <2>2. Writes(n, senders[n], RBMsg(TOAskProposalSeqMsg(m))) /\ senders[n] \subseteq Node
    BY <1>0, <1>1, <2>1, MulticastRType DEF AskGroup, BTypeOK
  <2>3. asked' = asked \cup {m} /\ UNCHANGED <<rvars, holdQueue, delivered>>
    BY <1>1 DEF AskGroup
  <2>4. AskedFrame(RBMsg(TOAskProposalSeqMsg(m)))'
    BY <2>1, <2>3 DEF AskedFrame, RBMsg
  <2>5. AskedSent'
    BY <1>0, <2>2, <2>3, <2>4, WritesAsked DEF OnceInv
  <2>6. TasksShrink
    BY <2>3, TaskSteps DEF rvars
  <2>7. QED  BY <1>0, <2>3, <2>5, <2>6, QuietStep DEF rvars
<1>2. ASSUME NEW s \in Node, NEW n \in Node, Receive(s, n)  PROVE OnceInv'
  BY <1>0, <1>2, ReceiveOnce
<1>3. ASSUME NEW n \in Node, NEW t \in tasks[n], RelayTask(n, t)  PROVE OnceInv'
  <2>1. t.rmsg \in RMsg /\ t.local \in Nat /\ t.rmsg \in received[n]
    BY <1>0, TaskMessage DEF OnceInv, TasksOnce
  <2>2. Writes(n, senders[n], RBMsg(t.rmsg)) /\ senders[n] \subseteq Node
    BY <1>0, <1>3, <2>1, MulticastRType DEF RelayTask, Relay, BTypeOK
  <2>3. UNCHANGED <<asked, received, holdQueue, delivered>> /\ GoTo(n, t, "route", t.local)
    BY <1>3 DEF RelayTask, Relay, tovars
  <2>4. t.rmsg.path = AskProposalSeqPath => t.rmsg.id \in asked
    BY <2>1 DEF OnceInv, Requested
  <2>5. AskedFrame(RBMsg(t.rmsg))'
    BY <2>3, <2>4 DEF AskedFrame, RBMsg
  <2>6. AskedSent'
    BY <1>0, <2>2, <2>3, <2>5, WritesAsked DEF OnceInv
  <2>7. TasksShrink
    BY <2>1, <2>3, TaskSteps DEF HandlerPC
  <2>8. QED  BY <1>0, <2>3, <2>6, <2>7, QuietStep
<1>4. ASSUME NEW n \in Node, NEW t \in tasks[n], Propose(n, t)  PROVE OnceInv'
  <2>1. NextProposal(n) \in Nat
    BY <1>0 DEF TypeInv, TOTypeOK, NextProposal, MaxUint64
  <2>2. /\ UNCHANGED <<bvars, asked, received, holdQueue, delivered>>
        /\ GoTo(n, t, "push", NextProposal(n))
    BY <1>4 DEF Propose
  <2>3. TasksShrink
    BY <2>1, <2>2, TaskSteps DEF HandlerPC
  <2>4. QED  BY <1>0, <2>2, <2>3, ShrinkAsked, QuietStep DEF OnceInv, bvars
<1>5. ASSUME NEW n \in Node, NEW t \in tasks[n], PushAndReply(n, t)  PROVE OnceInv'
  BY <1>0, <1>5, PushOnce
<1>6. ASSUME NEW s \in Node, NEW n \in Node, ReceiveVote(s, n)  PROVE OnceInv'
  <2>1. Reads(s, n, Head(net[s][n])) /\ UNCHANGED <<asked, rvars, holdQueue, delivered>>
    BY <1>0, <1>6, ReadStep DEF ReceiveVote
  <2>2. \A e, d \in Node : Range(net'[e][d]) \subseteq Range(net[e][d])
    BY <2>1 DEF Reads
  <2>3. TasksShrink
    BY <2>1, TaskSteps DEF rvars
  <2>4. QED  BY <1>0, <2>1, <2>2, <2>3, ShrinkAsked, QuietStep DEF OnceInv, rvars
<1>7. ASSUME NEW n \in Node, CollectVotes(n)  PROVE OnceInv'
  <2>1. UNCHANGED <<asked, rvars, holdQueue, delivered>>
    BY <1>7 DEF CollectVotes, CollectVote, ReceiveMemberUpdate, RecheckVotes
  <2>2. TasksShrink
    BY <2>1, TaskSteps DEF rvars
  <2>3. CASE UNCHANGED net
    BY <1>0, <2>1, <2>2, <2>3, ShrinkAsked, QuietStep DEF OnceInv, rvars
  <2>4. ASSUME NEW m \in Msg, NEW votes \in SUBSET Vote, IsFiniteSet(votes), votes # {},
               AggregateVotesAndMulticast(n, m, votes)
        PROVE  OnceInv'
    <3> DEFINE vote == MaxOfArrayProposalItem(votes)
    <3>1. Writes(n, senders[n], RBMsg(TOAnnounceAgreementSeqMsg(vote)))
      BY <1>0, <2>4, AggregateType
    <3>2. AskedFrame(RBMsg(TOAnnounceAgreementSeqMsg(vote)))'
      BY OtherFrames
    <3> HIDE DEF vote
    <3>3. AskedSent /\ senders[n] \subseteq Node /\ asked \subseteq asked'
      BY <1>0, <2>1 DEF OnceInv, BTypeOK
    <3>4. AskedSent'
      BY <1>0, <3>1, <3>2, <3>3, WritesAsked
    <3>5. QED  BY <1>0, <2>1, <2>2, <3>4, QuietStep DEF rvars
  <2>5. ASSUME CollectVote(n)  PROVE OnceInv'
    <3> DEFINE vote == Head(waitVotesChannel[n])
               votes == waitProposalCounter[n][vote.id] \cup {vote}
    <3>1. vote \in Vote
      BY <1>0, <2>5 DEF CollectVote, TypeInv, TOTypeOK
    <3>2. vote.id \in Msg
      BY <3>1 DEF Vote
    <3>3. /\ waitProposalCounter[n][vote.id] \in SUBSET Vote
          /\ IsFiniteSet(waitProposalCounter[n][vote.id])
      BY <1>0, <3>2 DEF TypeInv, TOTypeOK, VotesOK
    <3>4. IsFiniteSet(votes)
      BY <3>3, FS_AddElement
    <3>5. UNCHANGED bvars \/ AggregateVotesAndMulticast(n, vote.id, votes)
      BY <2>5 DEF CollectVote
    <3>6. votes \in SUBSET Vote /\ votes # {}
      BY <3>1, <3>3
    <3> HIDE DEF vote, votes
    <3>7. QED  BY <2>3, <2>4, <3>2, <3>4, <3>5, <3>6 DEF bvars
  <2>6. ASSUME NEW m \in Msg, RecheckVotes(n, m)  PROVE OnceInv'
    <3> DEFINE votes == waitProposalCounter[n][m]
    <3>1. votes \in SUBSET Vote /\ votes # {} /\ IsFiniteSet(votes)
      BY <1>0, <2>6 DEF RecheckVotes, TypeInv, TOTypeOK, VotesOK
    <3>2. AggregateVotesAndMulticast(n, m, votes)
      BY <2>6 DEF RecheckVotes
    <3> HIDE DEF votes
    <3>3. QED  BY <2>4, <3>1, <3>2
  <2>7. QED  BY <1>7, <2>3, <2>5, <2>6 DEF CollectVotes, ReceiveMemberUpdate
<1>8. ASSUME NEW n \in Node, NEW t \in tasks[n], Agree(n, t)  PROVE OnceInv'
  <2>1. /\ UNCHANGED <<bvars, asked, received, holdQueue, delivered>>
        /\ GoTo(n, t, "update", t.local)
    BY <1>8 DEF Agree
  <2>2. TasksShrink
    BY <1>0, <2>1, TaskMessage, TaskSteps DEF HandlerPC
  <2>3. QED  BY <1>0, <2>1, <2>2, ShrinkAsked, QuietStep DEF OnceInv, bvars
<1>9. ASSUME NEW n \in Node, NEW t \in tasks[n], UpdateItem(n, t) \/ Deliver(n, t) \/ Stop(n, t)
      PROVE  OnceInv'
  BY <1>0, <1>9, UpdateOnce, DeliverOnce, StopOnce
<1>10. ASSUME NEW n \in Node, Crash(n)  PROVE OnceInv'
  <2>1. Loses /\ UNCHANGED <<asked, received, holdQueue, delivered>>
        /\ tasks' = [tasks EXCEPT ![n] = {}]
    BY <1>0, <1>10, CrashStep DEF Crash, RCrash, tovars
  <2>2. TasksShrink
    BY <2>1, TaskSteps
  <2>3. QED  BY <1>0, <2>1, <2>2, ShrinkAsked, QuietStep DEF OnceInv, Loses
<1>11. ASSUME NEW s \in Node, NEW d \in Node, Reset(s, d)  PROVE OnceInv'
  <2>1. Loses /\ UNCHANGED <<asked, rvars, holdQueue, delivered>>
    BY <1>0, <1>11, ResetStep DEF Reset, tovars
  <2>2. TasksShrink
    BY <1>11, <2>1, TaskSteps DEF rvars
  <2>3. QED  BY <1>0, <2>1, <2>2, ShrinkAsked, QuietStep DEF OnceInv, Loses, rvars
<1>12. CASE UNCHANGED vars
  <2>1. UNCHANGED <<net, asked, rvars, holdQueue, delivered>>
    BY <1>12 DEF vars, bvars, tovars
  <2>2. QED
    BY <1>0, <2>1 DEF OnceInv, AskedSent, AskedFrame, TasksOnce, HeldOnce, DeliveriesOnce,
                      Requested, HeldIds, DeliveredIds, rvars
<1>13. QED
  BY <1>1, <1>2, <1>3, <1>4, <1>5, <1>6, <1>7, <1>8, <1>9, <1>10, <1>11, <1>12
  DEF Next, HandleConn

\* The invariant holds initially, when nothing was asked.
LEMMA OnceInit == Init => OnceInv
<1> SUFFICES ASSUME Init  PROVE OnceInv
  OBVIOUS
<1>1. TypeInv
  BY TypeInit
<1>2. \A s, d \in Node : Range(net[s][d]) = {}
  BY DEF Init, BInit, Range
<1>3. \A n \in Node : /\ received[n] = {} /\ tasks[n] = {} /\ holdQueue[n] = {}
                       /\ delivered[n] = <<>>
  BY DEF Init, RInit
<1>4. Range(<<>>) = {} /\ DOMAIN <<>> = {}
  BY DEF Range
<1>5. QED
  BY <1>1, <1>2, <1>3, <1>4 DEF OnceInv, AskedSent, TasksOnce, HeldOnce, DeliveriesOnce, Requested,
                          HeldIds, DeliveredIds

\* Every node delivers a message at most once, only if it was asked for, and
\* no longer holds it then, in any group, with any crashes and resets: none of
\* the copies, relays and second announcements makes the map, the heap and the
\* application disagree (total_ording.go:199-218, 250-298).
THEOREM DeliveredOnceHolds == Spec => []DeliveredOnce
<1>1. OnceInv => DeliveredOnce
  BY DEF OnceInv, DeliveredOnce, HeldOnce, DeliveriesOnce
<1>2. QED  BY <1>1, OnceInit, OnceStep, PTL DEF Spec

-----------------------------------------------------------------------------
(***************************************************************************)
(* Positions of the elements of a class in a sequence.                     *)
(***************************************************************************)
Single(S) == \A x, y \in S : x = y

Positions(seq, class) == {i \in DOMAIN seq : seq[i] \in class}

\* A set that has become smaller, as far as one element matters.
Fewer(new, old) == (old = {} => new = {}) /\ (Single(old) => Single(new))

\* What arrives at the end of a sequence counts if it is of the class.
LEMMA PositionsAppend ==
  ASSUME NEW S, NEW seq \in Seq(S), NEW e \in S, NEW class
  PROVE  /\ e \notin class => Positions(Append(seq, e), class) = Positions(seq, class)
         /\ Positions(seq, class) = {} => Single(Positions(Append(seq, e), class))
<1>1. /\ Append(seq, e) \in Seq(S)
      /\ Len(Append(seq, e)) = Len(seq) + 1
      /\ \A i \in 1 .. Len(seq) : Append(seq, e)[i] = seq[i]
      /\ Append(seq, e)[Len(seq) + 1] = e
  BY AppendProperties
<1>2. /\ DOMAIN seq = 1 .. Len(seq) /\ Len(seq) \in Nat
      /\ DOMAIN Append(seq, e) = 1 .. (Len(seq) + 1)
  BY <1>1, LenProperties
<1>3. Positions(seq, class) \subseteq Positions(Append(seq, e), class)
  BY <1>1, <1>2 DEF Positions
<1>4. \A i \in Positions(Append(seq, e), class) :
        i \in Positions(seq, class) \/ (i = Len(seq) + 1 /\ e \in class)
  BY <1>1, <1>2 DEF Positions
<1>5. QED  BY <1>3, <1>4 DEF Single

\* Taking the first element moves the others; if it is the only one of the
\* class, none is left.
LEMMA PositionsTail ==
  ASSUME NEW S, NEW seq \in Seq(S), seq # <<>>, NEW class
  PROVE  /\ Fewer(Positions(Tail(seq), class), Positions(seq, class))
         /\ Head(seq) \in class => /\ Positions(seq, class) # {}
                                   /\ Single(Positions(seq, class)) => Positions(Tail(seq), class) = {}
<1>1. /\ Tail(seq) \in Seq(S)
      /\ Len(Tail(seq)) = Len(seq) - 1
      /\ \A i \in 1 .. Len(Tail(seq)) : Tail(seq)[i] = seq[i + 1]
  BY HeadTailProperties
<1>2. Head(seq) = seq[1] /\ Len(seq) \in Nat \ {0}
  BY EmptySeq
<1>3. DOMAIN seq = 1 .. Len(seq) /\ DOMAIN Tail(seq) = 1 .. (Len(seq) - 1)
  BY <1>1, LenProperties
<1>4. \A i \in Positions(Tail(seq), class) : i \in Int /\ i >= 1 /\ i + 1 \in Positions(seq, class)
  BY <1>1, <1>2, <1>3 DEF Positions
<1>5. Fewer(Positions(Tail(seq), class), Positions(seq, class))
  <2>1. \A i, j \in Positions(Tail(seq), class) : i + 1 = j + 1 => i = j
    BY <1>4
  <2>2. QED  BY <1>4, <2>1 DEF Fewer, Single
<1>6. Head(seq) \in class => 1 \in Positions(seq, class)
  BY <1>2, <1>3 DEF Positions
<1>7. ASSUME Head(seq) \in class, Single(Positions(seq, class)), NEW i \in Positions(Tail(seq), class)
      PROVE  FALSE
  <2>1. i + 1 = 1
    BY <1>4, <1>6, <1>7 DEF Single
  <2>2. QED  BY <1>4, <2>1
<1>8. QED  BY <1>5, <1>6, <1>7

\* The beginning of a sequence has no more of the class than the sequence.
LEMMA PositionsPrefix ==
  ASSUME NEW S, NEW seq \in Seq(S), NEW p \in Prefixes(seq), NEW class
  PROVE  Fewer(Positions(p, class), Positions(seq, class))
<1>1. PICK k \in 0 .. Len(seq) : p = SubSeq(seq, 1, k)
  BY DEF Prefixes
<1>2. Len(seq) \in Nat /\ DOMAIN seq = 1 .. Len(seq)
  BY LenProperties
<1>3. \A i \in 1 .. k : seq[i] \in S
  BY <1>2, ElementOfSeq
<1>4. p \in Seq(S) /\ Len(p) = (IF 1 <= k THEN k - 1 + 1 ELSE 0)
      /\ \A i \in 1 .. k - 1 + 1 : p[i] = seq[1 + i - 1]
  BY <1>1, <1>2, <1>3, SubSeqProperties
<1>5. DOMAIN p = 1 .. k /\ \A i \in 1 .. k : p[i] = seq[i]
  BY <1>2, <1>4, LenProperties
<1>6. Positions(p, class) \subseteq Positions(seq, class)
  BY <1>2, <1>5 DEF Positions
<1>7. QED  BY <1>6 DEF Fewer, Single
-----------------------------------------------------------------------------
(***************************************************************************)
(* Where the vote of node n for message m may be: it is still to be sent   *)
(* by the task of the request, on the connection to the node that asked,   *)
(* in the channel to its collectVotes, or counted.                         *)
(***************************************************************************)
VotesOf(n, m) == {v \in Vote : v.id = m /\ v.pid = n}
VoteFrame(v) == [path |-> WaitProposalSeqPath, body |-> v]
VoteFrames(n, m) == {VoteFrame(v) : v \in VotesOf(n, m)}

Unsent(n, m) == {t \in tasks[n] : t.rmsg = TOAskProposalSeqMsg(m)}
Sent(n, m) == Positions(net[n][Origin[m]], VoteFrames(n, m))
Queued(n, m) == Positions(waitVotesChannel[Origin[m]], VotesOf(n, m))
Counted(n, m) == waitProposalCounter[Origin[m]][m] \cap VotesOf(n, m)

NoVote(n, m) ==
  Unsent(n, m) = {} /\ Sent(n, m) = {} /\ Queued(n, m) = {} /\ Counted(n, m) = {}

\* There is one vote at most, wherever it is.
OneVote(n, m) ==
  \/ Single(Unsent(n, m)) /\ Sent(n, m) = {} /\ Queued(n, m) = {} /\ Counted(n, m) = {}
  \/ Unsent(n, m) = {} /\ Single(Sent(n, m)) /\ Queued(n, m) = {} /\ Counted(n, m) = {}
  \/ Unsent(n, m) = {} /\ Sent(n, m) = {} /\ Single(Queued(n, m)) /\ Counted(n, m) = {}
  \/ Unsent(n, m) = {} /\ Sent(n, m) = {} /\ Queued(n, m) = {} /\ Single(Counted(n, m))

\* The vote of n for m moves on or is lost, but is not multiplied.
VoteKept(n, m) == (NoVote(n, m) => NoVote(n, m)') /\ (OneVote(n, m) => OneVote(n, m)')

\* Some task is about to send vote v, or v is somewhere on its way.
Proposing(v) ==
  \E t \in tasks[v.pid] :
    t.pc = "push" /\ t.rmsg = TOAskProposalSeqMsg(v.id) /\ t.local = v.seq

Cast(v) ==
  \/ \E s, d \in Node : VoteFrame(v) \in Range(net[s][d])
  \/ \E n \in Node : v \in Range(waitVotesChannel[n])
  \/ \E n \in Node, m \in Msg : v \in waitProposalCounter[n][m]

Asked(n, m) == TOAskProposalSeqMsg(m) \in received[n]

\* Some node has received, or is being sent, the announcement of vote v.
Announced(v) ==
  \/ \E n \in Node : TOAnnounceAgreementSeqMsg(v) \in received[n]
  \/ \E s, d \in Node : RBMsg(TOAnnounceAgreementSeqMsg(v)) \in Range(net[s][d])

\* Votes are only where they belong: sent by the node that proposes, to the
\* node that asked, and counted for their message.
VotesPlaced ==
  /\ \A s, d \in Node, v \in Vote :
       VoteFrame(v) \in Range(net[s][d]) => v.pid = s /\ Origin[v.id] = d
  /\ \A n \in Node : \A v \in Range(waitVotesChannel[n]) : Origin[v.id] = n
  /\ \A n \in Node, m \in Msg : \A v \in waitProposalCounter[n][m] : v.id = m /\ Origin[m] = n

VoteInv ==
  /\ OnceInv
  /\ VotesPlaced
  /\ \A n \in Node, m \in Msg : OneVote(n, m) /\ (~Asked(n, m) => NoVote(n, m))
  /\ \A v \in Vote : Announced(v) => NoVote(v.pid, v.id) /\ Asked(v.pid, v.id)

\* What every step does to the votes: the only new one is that of the node
\* that records a request; an announcement is of a vote that is gone.
VotesStep ==
  /\ VotesPlaced'
  /\ \A n \in Node : received[n] \subseteq received'[n]
  /\ \A n \in Node, m \in Msg :
       VoteKept(n, m) \/ (Asked(n, m)' /\ ~Asked(n, m) /\ OneVote(n, m)')
  /\ \A v \in Vote : Announced(v)' =>
       Announced(v) \/ (NoVote(v.pid, v.id)' /\ Asked(v.pid, v.id))

\* Such a step keeps the invariant.
LEMMA VotesStepKeeps ==
  ASSUME VoteInv, OnceInv', VotesStep
  PROVE  VoteInv'
<1>1. ASSUME NEW n \in Node, NEW m \in Msg
      PROVE  OneVote(n, m)' /\ (~Asked(n, m)' => NoVote(n, m)')
  <2>1. OneVote(n, m) /\ (~Asked(n, m) => NoVote(n, m)) /\ (Asked(n, m) => Asked(n, m)')
    BY DEF VoteInv, VotesStep, Asked
  <2>2. VoteKept(n, m) \/ (Asked(n, m)' /\ ~Asked(n, m) /\ OneVote(n, m)')
    BY DEF VotesStep
  <2>3. QED  BY <2>1, <2>2 DEF VoteKept
<1>2. ASSUME NEW v \in Vote, Announced(v)'
      PROVE  NoVote(v.pid, v.id)' /\ Asked(v.pid, v.id)'
  <2>1. v.pid \in Node /\ v.id \in Msg
    BY DEF Vote
  <2>2. Asked(v.pid, v.id) => Asked(v.pid, v.id)'
    BY <2>1 DEF VotesStep, Asked
  <2>3. Announced(v) \/ (NoVote(v.pid, v.id)' /\ Asked(v.pid, v.id))
    BY <1>2 DEF VotesStep
  <2>4. Announced(v) => NoVote(v.pid, v.id) /\ Asked(v.pid, v.id)
    BY DEF VoteInv
  <2>5. VoteKept(v.pid, v.id) \/ ~Asked(v.pid, v.id)
    BY <2>1 DEF VotesStep
  <2>6. QED  BY <2>2, <2>3, <2>4, <2>5 DEF VoteKept
<1>3. QED  BY <1>1, <1>2 DEF VoteInv, VotesStep

\* Votes are not multiplied when each of their places loses some.
LEMMA FewerKept ==
  ASSUME NEW n \in Node, NEW m \in Msg,
         Fewer(Unsent(n, m)', Unsent(n, m)), Fewer(Sent(n, m)', Sent(n, m)),
         Fewer(Queued(n, m)', Queued(n, m)), Fewer(Counted(n, m)', Counted(n, m))
  PROVE  VoteKept(n, m)
BY DEF Fewer, VoteKept, NoVote, OneVote
-----------------------------------------------------------------------------
(***************************************************************************)
(* What the steps do to the connections, as far as votes and announcements *)
(* matter.                                                                 *)
(***************************************************************************)

\* Frames of votes, requests and announcements are told apart, and say which
\* vote they carry.
LEMMA FramesDiffer ==
  /\ \A v, r : VoteFrame(v) # RBMsg(r)
  /\ \A n, m, r : RBMsg(r) \notin VoteFrames(n, m)
  /\ \A v, w : VoteFrame(v) = VoteFrame(w) => v = w
  /\ \A q, r : RBMsg(q) = RBMsg(r) => q = r
  /\ \A m, v : TOAskProposalSeqMsg(m) # TOAnnounceAgreementSeqMsg(v)
  /\ \A l, m : TOAskProposalSeqMsg(l) = TOAskProposalSeqMsg(m) => l = m
  /\ \A v, w \in Vote : TOAnnounceAgreementSeqMsg(v) = TOAnnounceAgreementSeqMsg(w) => v = w
<1>1. \A v : VoteFrame(v).path = WaitProposalSeqPath /\ VoteFrame(v).body = v
  BY DEF VoteFrame
<1>2. \A r : RBMsg(r).path = RMulticastPath /\ RBMsg(r).body = r
  BY DEF RBMsg
<1>3. WaitProposalSeqPath # RMulticastPath /\ AskProposalSeqPath # AnnounceAgreementSeqPath
  BY DEF WaitProposalSeqPath, RMulticastPath, AskProposalSeqPath, AnnounceAgreementSeqPath
<1>4. \A m : TOAskProposalSeqMsg(m).path = AskProposalSeqPath /\ TOAskProposalSeqMsg(m).id = m
  BY DEF TOAskProposalSeqMsg
<1>5. \A v : /\ TOAnnounceAgreementSeqMsg(v).path = AnnounceAgreementSeqPath
             /\ TOAnnounceAgreementSeqMsg(v).id = v.id
             /\ TOAnnounceAgreementSeqMsg(v).seq = v.seq
             /\ TOAnnounceAgreementSeqMsg(v).pid = v.pid
  BY DEF TOAnnounceAgreementSeqMsg
<1>6. \A v, w \in Vote : v.id = w.id /\ v.seq = w.seq /\ v.pid = w.pid => v = w
  BY DEF Vote
<1>7. \A v, w \in Vote : TOAnnounceAgreementSeqMsg(v) = TOAnnounceAgreementSeqMsg(w) => v = w
  BY <1>5, <1>6
<1>8. \A v, r : VoteFrame(v) # RBMsg(r)
  BY <1>1, <1>2, <1>3
<1>9. \A n, m, r : RBMsg(r) \notin VoteFrames(n, m)
  BY <1>8 DEF VoteFrames
<1>10. QED  BY <1>1, <1>2, <1>3, <1>4, <1>5, <1>7, <1>8, <1>9

\* A frame that brings nothing new: neither a vote nor a new announcement.
Harmless(b) == \E r : b = RBMsg(r) /\ \A v \in Vote : r = TOAnnounceAgreementSeqMsg(v) => Announced(v)

\* A step that brings no vote and no new announcement onto a connection.
NetQuiet ==
  /\ \A s, d \in Node : \A b \in Range(net'[s][d]) : b \in Range(net[s][d]) \/ Harmless(b)
  /\ \A n \in Node, m \in Msg : Fewer(Sent(n, m)', Sent(n, m))

\* What a node writes is added to its connections only.
LEMMA AppendsVotes ==
  ASSUME BTypeOK(BMsg), NEW n \in Node, NEW msg \in BMsg, Appends(n, msg)
  PROVE  /\ \A s, d \in Node : \A b \in Range(net'[s][d]) :
              b \in Range(net[s][d]) \/ (s = n /\ b = msg)
         /\ \A e \in Node, m \in Msg :
              /\ msg \notin VoteFrames(e, m) \/ e # n => Sent(e, m)' = Sent(e, m)
              /\ Sent(e, m) = {} => Single(Sent(e, m)')
<1>1. ASSUME NEW s \in Node, NEW d \in Node, NEW b \in Range(net'[s][d])
      PROVE  b \in Range(net[s][d]) \/ (s = n /\ b = msg)
  <2>1. net[s][d] \in Seq(BMsg)
    BY DEF BTypeOK
  <2>2. Range(Append(net[s][d], msg)) = Range(net[s][d]) \cup {msg}
    BY <2>1, RangeAppend
  <2>3. net'[s][d] = net[s][d] \/ (s = n /\ net'[s][d] = Append(net[s][d], msg))
    BY DEF Appends
  <2>4. QED  BY <1>1, <2>2, <2>3
<1>2. ASSUME NEW e \in Node, NEW m \in Msg
      PROVE  /\ msg \notin VoteFrames(e, m) \/ e # n => Sent(e, m)' = Sent(e, m)
             /\ Sent(e, m) = {} => Single(Sent(e, m)')
  <2>1. Origin[m] \in Node
    BY OriginAssumption
  <2>2. net[e][Origin[m]] \in Seq(BMsg)
    BY <2>1 DEF BTypeOK
  <2>3. /\ msg \notin VoteFrames(e, m) =>
             Positions(Append(net[e][Origin[m]], msg), VoteFrames(e, m)) = Sent(e, m)
        /\ Sent(e, m) = {} => Single(Positions(Append(net[e][Origin[m]], msg), VoteFrames(e, m)))
    BY <2>2, PositionsAppend DEF Sent
  <2>4. net'[e][Origin[m]] = net[e][Origin[m]]
          \/ (e = n /\ net'[e][Origin[m]] = Append(net[e][Origin[m]], msg))
    BY <2>1 DEF Appends
  <2>5. Sent(e, m)' = Positions(net'[e][Origin[m]], VoteFrames(e, m))
    BY DEF Sent, VoteFrames, VotesOf, Vote, VoteFrame, Positions
  <2>6. Sent(e, m) = {} => Single(Sent(e, m))
    BY DEF Single
  <2>7. net'[e][Origin[m]] = net[e][Origin[m]] => Sent(e, m)' = Sent(e, m)
    BY <2>5 DEF Sent
  <2>8. QED  BY <2>3, <2>4, <2>5, <2>6, <2>7
<1>3. QED  BY <1>1, <1>2

\* What a handler reads is gone from its connection.
LEMMA TakesVotes ==
  ASSUME BTypeOK(BMsg), NEW s \in Node, NEW n \in Node, Takes(s, n)
  PROVE  /\ NetQuiet
         /\ \A m \in Msg : Origin[m] = n /\ Head(net[s][n]) \in VoteFrames(s, m) =>
              Sent(s, m) # {} /\ (Single(Sent(s, m)) => Sent(s, m)' = {})
<1>1. /\ net[s][n] \in Seq(BMsg) /\ net[s][n] # <<>>
      /\ Range(net[s][n]) = Range(Tail(net[s][n])) \cup {Head(net[s][n])}
  BY RangeTail DEF BTypeOK, Takes
<1>2. \A e, d \in Node : Range(net'[e][d]) \subseteq Range(net[e][d])
  BY <1>1 DEF Takes
<1>3. ASSUME NEW e \in Node, NEW m \in Msg
      PROVE  /\ Fewer(Sent(e, m)', Sent(e, m))
             /\ e = s /\ Origin[m] = n /\ Head(net[s][n]) \in VoteFrames(s, m) =>
                  Sent(s, m) # {} /\ (Single(Sent(s, m)) => Sent(s, m)' = {})
  <2>1. Origin[m] \in Node
    BY OriginAssumption
  <2>2. Sent(e, m)' = Positions(net'[e][Origin[m]], VoteFrames(e, m))
    BY DEF Sent, VoteFrames, VotesOf, Vote, VoteFrame, Positions
  <2>3. CASE <<e, Origin[m]>> # <<s, n>>
    <3>1. net'[e][Origin[m]] = net[e][Origin[m]]
      BY <2>1, <2>3 DEF Takes
    <3>2. QED  BY <2>2, <2>3, <3>1 DEF Sent, Fewer
  <2>4. CASE e = s /\ Origin[m] = n
    <3>1. net'[e][Origin[m]] = Tail(net[s][n]) /\ Sent(e, m) = Positions(net[s][n], VoteFrames(s, m))
      BY <2>4 DEF Takes, Sent
    <3>2. /\ Fewer(Positions(Tail(net[s][n]), VoteFrames(s, m)), Positions(net[s][n], VoteFrames(s, m)))
          /\ Head(net[s][n]) \in VoteFrames(s, m) =>
               /\ Positions(net[s][n], VoteFrames(s, m)) # {}
               /\ Single(Positions(net[s][n], VoteFrames(s, m))) =>
                    Positions(Tail(net[s][n]), VoteFrames(s, m)) = {}
      BY <1>1, PositionsTail
    <3>3. QED  BY <2>2, <2>4, <3>1, <3>2
  <2>5. QED  BY <2>3, <2>4
<1>4. QED  BY <1>2, <1>3 DEF NetQuiet

\* A fault brings nothing onto a connection.
LEMMA CutsVotes ==
  ASSUME BTypeOK(BMsg), Cuts
  PROVE  NetQuiet
<1>1. ASSUME NEW s \in Node, NEW d \in Node  PROVE Range(net'[s][d]) \subseteq Range(net[s][d])
  <2>1. net[s][d] \in Seq(BMsg) /\ net'[s][d] \in Prefixes(net[s][d])
    BY DEF BTypeOK, Cuts
  <2>2. QED  BY <2>1, RangePrefix
<1>2. ASSUME NEW n \in Node, NEW m \in Msg  PROVE Fewer(Sent(n, m)', Sent(n, m))
  <2>1. Origin[m] \in Node
    BY OriginAssumption
  <2>2. net[n][Origin[m]] \in Seq(BMsg) /\ net'[n][Origin[m]] \in Prefixes(net[n][Origin[m]])
    BY <2>1 DEF BTypeOK, Cuts
  <2>3. Fewer(Positions(net'[n][Origin[m]], VoteFrames(n, m)), Sent(n, m))
    BY <2>2, PositionsPrefix DEF Sent
  <2>4. QED  BY <2>3 DEF Sent, VoteFrames, VotesOf, Vote, VoteFrame, Positions
<1>3. QED  BY <1>1, <1>2 DEF NetQuiet
-----------------------------------------------------------------------------
(***************************************************************************)
(* One step of the system at a time.                                       *)
(***************************************************************************)

\* A message of this layer is read in the frame that carries it, a vote in its
\* own.
LEMMA ReadFrame ==
  ASSUME NEW b \in BMsg
  PROVE  /\ b.path = RMulticastPath => b = RBMsg(b.body) /\ b.body \in RMsg
         /\ b.path = WaitProposalSeqPath => b = VoteFrame(b.body) /\ b.body \in Vote
BY DEF BMsg, RBMsg, VoteFrame, RMulticastPath, WaitProposalSeqPath

\* The tasks that are left leave no more votes to send.
LEMMA UnsentShrinks ==
  ASSUME TasksShrink, NEW n \in Node, NEW m \in Msg
  PROVE  Fewer(Unsent(n, m)', Unsent(n, m))
<1>1. \A u \in Unsent(n, m)' : \E t \in Unsent(n, m) : u.rmsg = t.rmsg
  <2>1. \A u \in tasks'[n] : \E t \in tasks[n] : u.rmsg = t.rmsg
    BY DEF TasksShrink
  <2>2. QED  BY <2>1 DEF Unsent, TOAskProposalSeqMsg
<1>2. Single(Unsent(n, m)')
  BY DEF TasksShrink, Unsent, TOAskProposalSeqMsg, Single
<1>3. QED  BY <1>1, <1>2 DEF Fewer

\* No vote is misplaced by a quiet step.
LEMMA QuietPlaced ==
  ASSUME VotesPlaced, NetQuiet
  PROVE  \A s, d \in Node, v \in Vote :
           VoteFrame(v) \in Range(net'[s][d]) => v.pid = s /\ Origin[v.id] = d
<1> SUFFICES ASSUME NEW s \in Node, NEW d \in Node, NEW v \in Vote,
                    VoteFrame(v) \in Range(net'[s][d])
             PROVE  v.pid = s /\ Origin[v.id] = d
  OBVIOUS
<1>1. VoteFrame(v) \in Range(net[s][d]) \/ Harmless(VoteFrame(v))
  BY DEF NetQuiet
<1>2. ~Harmless(VoteFrame(v))
  BY FramesDiffer DEF Harmless
<1>3. QED  BY <1>1, <1>2 DEF VotesPlaced

\* No announcement is new after a quiet step that records none.
LEMMA QuietAnnounced ==
  ASSUME NetQuiet, NEW v \in Vote, Announced(v)',
         \A n \in Node : TOAnnounceAgreementSeqMsg(v) \in received'[n] => Announced(v)
  PROVE  Announced(v)
<1> DEFINE a == TOAnnounceAgreementSeqMsg(v)
<1>1. \/ \E n \in Node : a \in received'[n]
      \/ \E s, d \in Node : RBMsg(a) \in Range(net'[s][d])
  BY DEF Announced, TOAnnounceAgreementSeqMsg, RBMsg
<1>2. ASSUME NEW s \in Node, NEW d \in Node, RBMsg(a) \in Range(net'[s][d])
      PROVE  Announced(v)
  <2>1. RBMsg(a) \in Range(net[s][d]) \/ Harmless(RBMsg(a))
    BY <1>2 DEF NetQuiet
  <2>2. Harmless(RBMsg(a)) => Announced(v)
    <3> HIDE DEF a
    <3>1. ASSUME NEW r, RBMsg(a) = RBMsg(r)  PROVE a = r
      BY <3>1, FramesDiffer
    <3>2. QED  BY <3>1 DEF Harmless, a
  <2>3. QED  BY <2>1, <2>2 DEF Announced
<1>3. QED  BY <1>1, <1>2

\* Most steps touch neither the votes queued and counted nor what was received.
LEMMA QuietVotes ==
  ASSUME VoteInv, NetQuiet, TasksShrink,
         UNCHANGED <<received, waitVotesChannel, waitProposalCounter>>
  PROVE  VotesStep
<1>1. VotesPlaced'
  BY QuietPlaced DEF VoteInv, VotesPlaced, VoteFrame
<1>2. ASSUME NEW n \in Node, NEW m \in Msg  PROVE VoteKept(n, m)
  <2>1. Fewer(Unsent(n, m)', Unsent(n, m)) /\ Fewer(Sent(n, m)', Sent(n, m))
    BY UnsentShrinks DEF NetQuiet
  <2>2. Queued(n, m)' = Queued(n, m) /\ Counted(n, m)' = Counted(n, m)
    BY DEF Queued, Counted, Positions, VotesOf, Vote
  <2>3. QED  BY <2>1, <2>2, FewerKept DEF Fewer
<1>3. ASSUME NEW v \in Vote, Announced(v)'  PROVE Announced(v)
  BY <1>3, QuietAnnounced DEF Announced
<1>4. QED  BY <1>1, <1>2, <1>3 DEF VotesStep

\* A frame that brings nothing new may be written.
LEMMA HarmlessWrite ==
  ASSUME BTypeOK(BMsg), NEW n \in Node, NEW msg \in BMsg, Appends(n, msg), Harmless(msg)
  PROVE  NetQuiet
<1>1. \A e \in Node, m \in Msg : msg \notin VoteFrames(e, m)
  BY FramesDiffer DEF Harmless
<1>2. \A e \in Node, m \in Msg : Sent(e, m)' = Sent(e, m)
  BY <1>1, AppendsVotes
<1>3. \A s, d \in Node : \A b \in Range(net'[s][d]) : b \in Range(net[s][d]) \/ Harmless(b)
  BY AppendsVotes
<1>4. QED  BY <1>2, <1>3 DEF NetQuiet, Fewer

\* Nothing is brought when the connections are left alone.
LEMMA NetUnchanged ==
  ASSUME UNCHANGED net
  PROVE  NetQuiet
<1>1. \A n \in Node, m \in Msg : Sent(n, m)' = Sent(n, m)
  BY DEF Sent, Positions, VoteFrames, VotesOf, Vote, VoteFrame
<1>2. QED  BY <1>1 DEF NetQuiet, Fewer

\* Steps of the goroutines that handle no vote, of the reader of standard
\* input and of the environment.
QuietAction ==
  \/ \E n \in Node, m \in Msg : AskGroup(n, m)
  \/ \E n \in Node : \E t \in tasks[n] :
       RelayTask(n, t) \/ Propose(n, t) \/ Agree(n, t) \/ UpdateItem(n, t)
         \/ Deliver(n, t) \/ Stop(n, t)
  \/ \E n \in Node : ReceiveMemberUpdate(n) \/ Crash(n)
  \/ \E s, d \in Node : Reset(s, d)
  \/ UNCHANGED vars

\* They leave what was received, and the votes queued and counted, alone; they
\* start no task, and bring nothing new onto the connections.
LEMMA QuietActions ==
  ASSUME OnceInv, QuietAction
  PROVE  /\ NetQuiet /\ TasksShrink
         /\ UNCHANGED <<received, waitVotesChannel, waitProposalCounter>>
<1> DEFINE Goal == /\ NetQuiet /\ TasksShrink
                   /\ UNCHANGED <<received, waitVotesChannel, waitProposalCounter>>
<1>0. TypeInv /\ BTypeOK(BMsg) /\ RTypeOK(RMsg, HandlerPC)
  BY DEF OnceInv, TypeInv
<1>1. ASSUME NEW n \in Node, NEW m \in Msg, AskGroup(n, m)  PROVE Goal
  <2> DEFINE r == TOAskProposalSeqMsg(m)
  <2>1. r \in RMsg
    BY DEF TOAskProposalSeqMsg, RMsg
  <2>2. RBMsg(r) \in BMsg
    BY <2>1 DEF RBMsg, BMsg
  <2>3. Appends(n, RBMsg(r))
    BY <1>0, <1>1, WriteAppends DEF AskGroup, MulticastR
  <2>4. Harmless(RBMsg(r))
    BY FramesDiffer DEF Harmless
  <2> HIDE DEF r
  <2>5. NetQuiet
    BY <1>0, <2>2, <2>3, <2>4, HarmlessWrite
  <2>6. UNCHANGED <<received, tasks, waitVotesChannel, waitProposalCounter>>
    BY <1>1 DEF AskGroup, rvars
  <2>7. QED  BY <1>1, <2>5, <2>6, TaskSteps
<1>2. ASSUME NEW n \in Node, NEW t \in tasks[n], RelayTask(n, t)  PROVE Goal
  <2>1. t.rmsg \in RMsg /\ t.local \in Nat /\ t.rmsg \in received[n] /\ "route" \in HandlerPC
    BY <1>0, TaskMessage DEF OnceInv, TasksOnce, HandlerPC
  <2>2. RBMsg(t.rmsg) \in BMsg
    BY <2>1 DEF RBMsg, BMsg
  <2>3. Appends(n, RBMsg(t.rmsg))
    BY <1>0, <1>2, WriteAppends DEF RelayTask, Relay, MulticastR
  <2>4. Harmless(RBMsg(t.rmsg))
    BY <2>1 DEF Harmless, Announced
  <2>5. NetQuiet
    BY <1>0, <2>2, <2>3, <2>4, HarmlessWrite
  <2>6. UNCHANGED <<received, waitVotesChannel, waitProposalCounter>> /\ GoTo(n, t, "route", t.local)
    BY <1>2 DEF RelayTask, Relay, tovars
  <2>7. QED  BY <2>1, <2>5, <2>6, TaskSteps
<1>3. ASSUME NEW n \in Node, NEW t \in tasks[n],
             Propose(n, t) \/ Agree(n, t) \/ UpdateItem(n, t) \/ Deliver(n, t) \/ Stop(n, t)
      PROVE  Goal
  <2>1. UNCHANGED <<net, received, waitVotesChannel, waitProposalCounter>>
    BY <1>3 DEF Propose, Agree, UpdateItem, Deliver, Stop, bvars, rvars
  <2>2. \/ Return(n, t) \/ UNCHANGED tasks
        \/ GoTo(n, t, "push", NextProposal(n))
        \/ GoTo(n, t, "update", t.local) \/ GoTo(n, t, "drain", t.local)
    BY <1>3 DEF Propose, Agree, UpdateItem, Deliver, Stop, rvars
  <2>3. NextProposal(n) \in Nat /\ t.local \in Nat
    BY <1>0, TaskMessage DEF TypeInv, TOTypeOK, NextProposal, MaxUint64
  <2>4. {"push", "update", "drain"} \subseteq HandlerPC
    BY DEF HandlerPC
  <2>5. TasksShrink
    BY <2>2, <2>3, <2>4, TaskSteps
  <2>6. QED  BY <2>1, <2>5, NetUnchanged
<1>4. ASSUME NEW n \in Node, ReceiveMemberUpdate(n)  PROVE Goal
  <2>1. UNCHANGED <<net, received, tasks, waitVotesChannel, waitProposalCounter>>
    BY <1>4 DEF ReceiveMemberUpdate, rvars
  <2>2. QED  BY <1>4, <2>1, NetUnchanged, TaskSteps
<1>5. ASSUME NEW n \in Node, Crash(n)  PROVE Goal
  <2>1. NetQuiet
    BY <1>0, <1>5, FaultCuts, CutsVotes DEF Crash, RCrash
  <2>2. /\ UNCHANGED <<received, waitVotesChannel, waitProposalCounter>>
        /\ tasks' = [tasks EXCEPT ![n] = {}]
    BY <1>5 DEF Crash, RCrash, tovars
  <2>3. QED  BY <2>1, <2>2, TaskSteps
<1>6. ASSUME NEW s \in Node, NEW d \in Node, Reset(s, d)  PROVE Goal
  <2>1. NetQuiet
    BY <1>0, <1>6, FaultCuts, CutsVotes DEF Reset
  <2>2. UNCHANGED <<received, tasks, waitVotesChannel, waitProposalCounter>>
    BY <1>6 DEF Reset, rvars, tovars
  <2>3. QED  BY <1>6, <2>1, <2>2, TaskSteps
<1>7. CASE UNCHANGED vars
  <2>1. UNCHANGED <<net, received, tasks, waitVotesChannel, waitProposalCounter>>
    BY <1>7 DEF vars, bvars, rvars, tovars
  <2>2. TasksShrink
    BY <2>1 DEF TasksShrink, OnceInv, TasksOnce
  <2>3. QED  BY <2>1, <2>2, NetUnchanged
<1>8. QED  BY <1>1, <1>2, <1>3, <1>4, <1>5, <1>6, <1>7 DEF QuietAction

\* What is received was sent before.
LEMMA ReceiveAnnounced ==
  ASSUME OnceInv, NEW s \in Node, NEW n \in Node, Receive(s, n), NEW v \in Vote, Announced(v)'
  PROVE  Announced(v)
<1> DEFINE r == Head(net[s][n]).body
           q == TOAnnounceAgreementSeqMsg(v)
<1>1. BTypeOK(BMsg) /\ RTypeOK(RMsg, HandlerPC)
  BY DEF OnceInv, TypeInv
<1>2. RBMsg(r) \in Range(net[s][n])
  <2>1. Head(net[s][n]) \in BMsg /\ Head(net[s][n]).path = RMulticastPath
        /\ Reads(s, n, Head(net[s][n]))
    BY <1>1, ReadStep DEF Receive, ReceiveR
  <2>2. QED  BY <2>1, ReadFrame DEF Reads
<1>3. NetQuiet
  BY <1>1, ReadTakes, TakesVotes DEF Receive, ReceiveR
<1>4. ASSUME NEW e \in Node, q \in received'[e]  PROVE Announced(v)
  <2>1. received' = received \/ received' = [received EXCEPT ![n] = @ \cup {r}]
    BY DEF Receive, ReceiveR, rvars
  <2>2. q \in received[e] \/ q = r
    BY <1>1, <1>4, <2>1 DEF RTypeOK
  <2>3. QED  BY <1>2, <2>2 DEF Announced
<1>5. QED  BY <1>3, <1>4, QuietAnnounced

\* The first copy of a request makes a vote possible, where there was none.
LEMMA ReceiveVotes ==
  ASSUME VoteInv, NEW s \in Node, NEW n \in Node, Receive(s, n)
  PROVE  VotesStep
<1> DEFINE r == Head(net[s][n]).body
<1>0. OnceInv /\ TypeInv /\ BTypeOK(BMsg) /\ RTypeOK(RMsg, HandlerPC)
  BY DEF VoteInv, OnceInv, TypeInv
<1>1. /\ Head(net[s][n]) = RBMsg(r)
      /\ RBMsg(r) \in Range(net[s][n])
      /\ r \in RMsg
  <2>1. Head(net[s][n]) \in BMsg /\ Head(net[s][n]).path = RMulticastPath
        /\ Reads(s, n, Head(net[s][n]))
    BY <1>0, ReadStep DEF Receive, ReceiveR
  <2>2. QED  BY <2>1, ReadFrame DEF Reads
<1>2. NetQuiet
  BY <1>0, ReadTakes, TakesVotes DEF Receive, ReceiveR
<1>3. UNCHANGED <<waitVotesChannel, waitProposalCounter>>
  BY DEF Receive, tovars
<1> HIDE DEF r
<1>4. CASE UNCHANGED rvars
  <2>1. TasksShrink
    BY <1>0, <1>4, TaskSteps DEF rvars
  <2>2. QED  BY <1>2, <1>3, <1>4, <2>1, QuietVotes DEF rvars
<1>5. CASE /\ IsNew(n, r)
           /\ received' = [received EXCEPT ![n] = @ \cup {r}]
           /\ tasks' = [tasks EXCEPT ![n] = @ \cup {NewTask(n, s, r)}]
  <2>1. NewTask(n, s, r).rmsg = r /\ r \notin received[n]
    BY <1>5 DEF NewTask, IsNew
  <2>2. /\ received'[n] = received[n] \cup {r} /\ tasks'[n] = tasks[n] \cup {NewTask(n, s, r)}
        /\ \A e \in Node : e # n => received'[e] = received[e] /\ tasks'[e] = tasks[e]
    BY <1>0, <1>5 DEF RTypeOK
  <2>3. VotesPlaced'
    BY <1>2, <1>3, QuietPlaced DEF VoteInv, VotesPlaced, VoteFrame
  <2>4. \A v \in Vote : Announced(v)' => Announced(v)
    BY <1>0, ReceiveAnnounced
  <2>5. ASSUME NEW e \in Node, NEW m \in Msg
        PROVE  VoteKept(e, m) \/ (Asked(e, m)' /\ ~Asked(e, m) /\ OneVote(e, m)')
    <3>1. /\ Fewer(Sent(e, m)', Sent(e, m))
          /\ Queued(e, m)' = Queued(e, m) /\ Counted(e, m)' = Counted(e, m)
      BY <1>2, <1>3 DEF NetQuiet, Queued, Counted, Positions, VotesOf, Vote
    <3>2. CASE e = n /\ r = TOAskProposalSeqMsg(m)
      <4>1. ~Asked(e, m) /\ Asked(e, m)'
        BY <2>1, <2>2, <3>2 DEF Asked, TOAskProposalSeqMsg
      <4>2. NoVote(e, m)
        BY <4>1 DEF VoteInv
      <4>3. Unsent(e, m)' = {NewTask(n, s, r)}
        <5>1. \A t \in tasks[n] : t.rmsg # r
          BY <3>2, <4>2 DEF NoVote, Unsent
        <5>2. \A u \in tasks'[n] : u.rmsg = r <=> u = NewTask(n, s, r)
          BY <2>1, <2>2, <5>1
        <5>3. Unsent(e, m)' = {u \in tasks'[n] : u.rmsg = r}
          BY <3>2 DEF Unsent, TOAskProposalSeqMsg
        <5>4. QED  BY <2>2, <5>2, <5>3
      <4>4. OneVote(e, m)'
        BY <3>1, <4>2, <4>3 DEF OneVote, NoVote, Fewer, Single
      <4>5. QED  BY <4>1, <4>4
    <3>3. CASE ~(e = n /\ r = TOAskProposalSeqMsg(m))
      <4>1. Unsent(e, m)' = Unsent(e, m)
        BY <2>1, <2>2, <3>3 DEF Unsent, TOAskProposalSeqMsg
      <4>2. QED  BY <3>1, <4>1, FewerKept DEF Fewer
    <3>4. QED  BY <3>2, <3>3
  <2>6. \A e \in Node : received[e] \subseteq received'[e]
    BY <2>2
  <2>7. QED  BY <2>3, <2>4, <2>5, <2>6 DEF VotesStep
<1>6. QED  BY <1>4, <1>5 DEF Receive, ReceiveR, r

\* What the task t of n does to the connections when it sends its vote.
SendsVote(n, t, vote) ==
  /\ vote.id = t.rmsg.id /\ vote.pid = n /\ vote.seq = t.local
  /\ t.rmsg = TOAskProposalSeqMsg(vote.id) /\ t.pc = "push"
  /\ Unicast(n, Origin[vote.id], VoteFrame(vote))
  /\ \A s, d \in Node : \A b \in Range(net'[s][d]) :
       b \in Range(net[s][d]) \/ (s = n /\ b = VoteFrame(vote))
  /\ \A e \in Node, l \in Msg :
       /\ VoteFrame(vote) \notin VoteFrames(e, l) \/ e # n => Sent(e, l)' = Sent(e, l)
       /\ Sent(e, l) = {} => Single(Sent(e, l)')

\* The vote that a task sends is for the message of its request.
LEMMA PushVote ==
  ASSUME OnceInv, NEW n \in Node, NEW t \in tasks[n], PushAndReply(n, t)
  PROVE  \E vote \in Vote : SendsVote(n, t, vote)
<1> DEFINE m == t.rmsg.id
           vote == ProposalItem(n, m, t.local)
<1>0. BTypeOK(BMsg) /\ RTypeOK(RMsg, HandlerPC)
  BY DEF OnceInv, TypeInv
<1>1. /\ m \in Msg /\ Origin[m] \in Node /\ t.rmsg = TOAskProposalSeqMsg(m) /\ t.pc = "push"
      /\ vote \in Vote /\ vote.id = m /\ vote.pid = n /\ vote.seq = t.local
  BY <1>0, TaskMessage, OriginAssumption DEF PushAndReply, IsAt, Vote, ProposalItem
<1>2. Unicast(n, Origin[m], VoteFrame(vote))
  BY DEF PushAndReply, VoteFrame
<1> HIDE DEF m, vote
<1>3. VoteFrame(vote) \in BMsg
  BY <1>1 DEF VoteFrame, BMsg
<1>4. Appends(n, VoteFrame(vote))
  BY <1>0, <1>1, <1>2, WriteAppends
<1>5. QED  BY <1>0, <1>1, <1>2, <1>3, <1>4, AppendsVotes DEF m, SendsVote

\* The vote is written to the node that asked, and its task is done.
LEMMA PushVotes ==
  ASSUME VoteInv, NEW n \in Node, NEW t \in tasks[n], PushAndReply(n, t)
  PROVE  VotesStep
<1>0. OnceInv /\ TypeInv /\ BTypeOK(BMsg) /\ RTypeOK(RMsg, HandlerPC)
  BY DEF VoteInv, OnceInv, TypeInv
<1>1. PICK vote \in Vote : SendsVote(n, t, vote)
  BY <1>0, PushVote
<1>2. Return(n, t) /\ UNCHANGED <<received, waitVotesChannel, waitProposalCounter>>
  BY DEF PushAndReply
<1>3. PICK m \in Msg : m = vote.id /\ Origin[m] \in Node
  BY OriginAssumption DEF Vote
<1>4. Unicast(n, Origin[m], VoteFrame(vote)) /\ t.rmsg = TOAskProposalSeqMsg(m)
  BY <1>1, <1>3 DEF SendsVote
<1>5. \A s, d \in Node : d # Origin[m] => net'[s][d] = net[s][d]
  <2>1. net \in [Node -> [Node -> Seq(BMsg)]]
    BY <1>0 DEF BTypeOK
  <2>2. CASE net' = Written(n, senders[n] \cap {Origin[m]}, VoteFrame(vote))
    <3>1. \A s \in Node : s # n => net'[s] = net[s]
      BY <2>1, <2>2 DEF Written
    <3>2. \A d \in Node : d # Origin[m] => net'[n][d] = net[n][d]
      BY <2>1, <2>2, Zenon DEF Written
    <3>3. QED  BY <3>1, <3>2
  <2>3. QED  BY <1>4, <2>2 DEF Unicast
<1>6. VotesPlaced'
  <2>1. ASSUME NEW s \in Node, NEW d \in Node, NEW v \in Vote, VoteFrame(v) \in Range(net'[s][d])
        PROVE  v.pid = s /\ Origin[v.id] = d
    <3>1. CASE VoteFrame(v) \in Range(net[s][d])
      BY <3>1 DEF VoteInv, VotesPlaced
    <3>2. CASE VoteFrame(v) \notin Range(net[s][d])
      <4>1. s = n /\ VoteFrame(v) = VoteFrame(vote) /\ d = Origin[m]
        BY <1>1, <1>5, <2>1, <3>2 DEF SendsVote
      <4>2. v = vote
        BY <4>1, FramesDiffer
      <4>3. QED  BY <1>1, <1>3, <4>1, <4>2 DEF SendsVote
    <3>3. QED  BY <3>1, <3>2
  <2>2. QED  BY <1>2, <2>1 DEF VoteInv, VotesPlaced, VoteFrame
<1>7. ASSUME NEW v \in Vote, Announced(v)'  PROVE Announced(v)
  <2>1. VoteFrame(vote) # RBMsg(TOAnnounceAgreementSeqMsg(v))
    BY FramesDiffer
  <2>2. \/ \E e \in Node : TOAnnounceAgreementSeqMsg(v) \in received'[e]
        \/ \E s, d \in Node : RBMsg(TOAnnounceAgreementSeqMsg(v)) \in Range(net'[s][d])
    BY <1>7 DEF Announced, TOAnnounceAgreementSeqMsg, RBMsg
  <2>3. QED  BY <1>1, <1>2, <2>1, <2>2 DEF Announced, SendsVote
<1>8. TasksShrink
  BY <1>0, <1>2, TaskSteps
<1>9. ASSUME NEW e \in Node, NEW l \in Msg  PROVE VoteKept(e, l)
  <2>1. Fewer(Unsent(e, l)', Unsent(e, l))
    BY <1>8, UnsentShrinks
  <2>2. Queued(e, l)' = Queued(e, l) /\ Counted(e, l)' = Counted(e, l)
    BY <1>2 DEF Queued, Counted, Positions, VotesOf, Vote
  <2>3. CASE e = n /\ l = m
    <3>1. t \in Unsent(n, m)
      BY <1>4 DEF Unsent
    <3>2. Unsent(n, m)' = {}
      <4>1. tasks'[n] = tasks[n] \ {t}
        BY <1>0, <1>2 DEF Return, RTypeOK
      <4>2. \A u \in tasks[n] : u.rmsg = t.rmsg => u = t
        BY <1>0 DEF OnceInv, TasksOnce
      <4>3. QED  BY <1>4, <4>1, <4>2 DEF Unsent, TOAskProposalSeqMsg
    <3>3. ~NoVote(n, m)
      BY <3>1 DEF NoVote
    <3>4. OneVote(n, m) => OneVote(n, m)'
      <4>1. Sent(n, m) = {} => Single(Sent(n, m)')
        BY <1>1 DEF SendsVote
      <4>2. Queued(n, m)' = Queued(n, m) /\ Counted(n, m)' = Counted(n, m)
        BY <2>2, <2>3
      <4>3. QED  BY <3>1, <3>2, <4>1, <4>2 DEF OneVote
    <3>5. QED  BY <2>3, <3>3, <3>4 DEF VoteKept
  <2>4. CASE ~(e = n /\ l = m)
    <3>1. VoteFrame(vote) \notin VoteFrames(e, l)
      <4>1. ASSUME NEW v \in VotesOf(e, l), VoteFrame(vote) = VoteFrame(v)  PROVE FALSE
        <5>1. v = vote
          BY <4>1, FramesDiffer
        <5>2. QED  BY <1>1, <1>3, <2>4, <4>1, <5>1 DEF VotesOf, SendsVote
      <4>2. QED  BY <4>1 DEF VoteFrames
    <3>2. Sent(e, l)' = Sent(e, l)
      BY <1>1, <3>1 DEF SendsVote
    <3>3. QED  BY <2>1, <2>2, <3>2, FewerKept DEF Fewer
  <2>5. QED  BY <2>3, <2>4
<1>10. QED  BY <1>2, <1>6, <1>7, <1>9 DEF VotesStep

\* The vote is taken off its connection and queued for collectVotes.
LEMMA ReceiveVoteVotes ==
  ASSUME VoteInv, NEW s \in Node, NEW n \in Node, ReceiveVote(s, n)
  PROVE  VotesStep
<1> PICK vote : vote = Head(net[s][n]).body
  OBVIOUS
<1>0. /\ OnceInv /\ TypeInv /\ BTypeOK(BMsg) /\ RTypeOK(RMsg, HandlerPC)
      /\ waitVotesChannel \in [Node -> Seq(Vote)]
  BY DEF VoteInv, OnceInv, TypeInv, TOTypeOK
<1>1. /\ Head(net[s][n]) = VoteFrame(vote)
      /\ VoteFrame(vote) \in Range(net[s][n])
      /\ vote \in Vote
  <2>1. Head(net[s][n]) \in BMsg /\ Head(net[s][n]).path = WaitProposalSeqPath
        /\ Reads(s, n, Head(net[s][n]))
    BY <1>0, ReadStep DEF ReceiveVote
  <2>2. QED  BY <2>1, ReadFrame DEF Reads
<1>2. waitVotesChannel' = [waitVotesChannel EXCEPT ![n] = Append(@, vote)]
      /\ UNCHANGED <<received, tasks, waitProposalCounter>>
  BY DEF ReceiveVote, rvars
<1>3. vote.id \in Msg /\ vote.pid = s /\ Origin[vote.id] = n
  BY <1>1 DEF VoteInv, VotesPlaced, Vote
<1>4. /\ waitVotesChannel'[n] = Append(waitVotesChannel[n], vote)
      /\ \A e \in Node : e # n => waitVotesChannel'[e] = waitVotesChannel[e]
      /\ waitVotesChannel[n] \in Seq(Vote)
  BY <1>0, <1>2
<1>5. /\ NetQuiet
      /\ \A m \in Msg : Origin[m] = n /\ VoteFrame(vote) \in VoteFrames(s, m) =>
           Sent(s, m) # {} /\ (Single(Sent(s, m)) => Sent(s, m)' = {})
  <2>1. Takes(s, n)
    BY <1>0, ReadTakes DEF ReceiveVote
  <2>2. QED  BY <1>0, <1>1, <2>1, TakesVotes
<1>6. VotesPlaced'
  <2>1. Range(waitVotesChannel'[n]) = Range(waitVotesChannel[n]) \cup {vote}
    BY <1>1, <1>4, RangeAppend
  <2>2. \A e \in Node : \A v \in Range(waitVotesChannel'[e]) : Origin[v.id] = e
    BY <1>3, <1>4, <2>1 DEF VoteInv, VotesPlaced
  <2>3. QED  BY <1>2, <1>5, <2>2, QuietPlaced DEF VoteInv, VotesPlaced, VoteFrame
<1>7. ASSUME NEW v \in Vote, Announced(v)'  PROVE Announced(v)
  BY <1>2, <1>5, <1>7, QuietAnnounced DEF Announced
<1>8. ASSUME NEW e \in Node, NEW m \in Msg  PROVE VoteKept(e, m)
  <2>1. /\ Unsent(e, m)' = Unsent(e, m) /\ Counted(e, m)' = Counted(e, m)
        /\ Fewer(Sent(e, m)', Sent(e, m))
    BY <1>2, <1>5 DEF NetQuiet, Unsent, TOAskProposalSeqMsg, Counted, VotesOf, Vote
  <2>2. Queued(e, m)' = Positions(waitVotesChannel'[Origin[m]], VotesOf(e, m))
    BY DEF Queued, Positions, VotesOf, Vote
  <2>3. CASE e = s /\ m = vote.id
    <3>1. VoteFrame(vote) \in VoteFrames(e, m)
      BY <1>1, <1>3, <2>3 DEF VoteFrames, VotesOf
    <3>2. Sent(e, m) # {} /\ (Single(Sent(e, m)) => Sent(e, m)' = {})
      BY <1>3, <1>5, <2>3, <3>1
    <3>3. Queued(e, m) = {} => Single(Queued(e, m)')
      <4>1. /\ Queued(e, m) = Positions(waitVotesChannel[n], VotesOf(e, m))
            /\ Queued(e, m)' = Positions(Append(waitVotesChannel[n], vote), VotesOf(e, m))
        BY <1>3, <1>4, <2>2, <2>3 DEF Queued
      <4>2. Positions(waitVotesChannel[n], VotesOf(e, m)) = {} =>
              Single(Positions(Append(waitVotesChannel[n], vote), VotesOf(e, m)))
        BY <1>1, <1>4, PositionsAppend
      <4>3. QED  BY <4>1, <4>2
    <3>4. QED  BY <2>1, <3>2, <3>3 DEF VoteKept, NoVote, OneVote
  <2>4. CASE ~(e = s /\ m = vote.id)
    <3>1. vote \notin VotesOf(e, m)
      BY <1>3, <2>4 DEF VotesOf
    <3>2. Origin[m] \in Node
      BY OriginAssumption
    <3>3. Queued(e, m)' = Queued(e, m)
      <4>1. CASE Origin[m] # n
        BY <1>4, <2>2, <3>2, <4>1 DEF Queued
      <4>2. CASE Origin[m] = n
        <5>1. Positions(Append(waitVotesChannel[n], vote), VotesOf(e, m))
                = Positions(waitVotesChannel[n], VotesOf(e, m))
          BY <1>1, <1>4, <3>1, PositionsAppend
        <5>2. QED  BY <1>4, <2>2, <4>2, <5>1 DEF Queued
      <4>3. QED  BY <4>1, <4>2
    <3>4. QED  BY <2>1, <3>3, FewerKept DEF Fewer
  <2>5. QED  BY <2>3, <2>4
<1>9. QED  BY <1>2, <1>6, <1>7, <1>8 DEF VotesStep

\* What announcing the largest of some votes brings onto the connections.
LEMMA AnnounceNet ==
  ASSUME TypeInv, NEW n \in Node, NEW m \in Msg, NEW votes \in SUBSET Vote,
         IsFiniteSet(votes), votes # {}, AggregateVotesAndMulticast(n, m, votes),
         UNCHANGED received
  PROVE  /\ MaxOfArrayProposalItem(votes) \in votes
         /\ \A e \in Node, l \in Msg : Sent(e, l)' = Sent(e, l)
         /\ \A s, d \in Node : \A b \in Range(net'[s][d]) :
              b \in Range(net[s][d]) \/ b = RBMsg(TOAnnounceAgreementSeqMsg(MaxOfArrayProposalItem(votes)))
         /\ \A v \in Vote : Announced(v)' => Announced(v) \/ v = MaxOfArrayProposalItem(votes)
<1> DEFINE win == MaxOfArrayProposalItem(votes)
           r == TOAnnounceAgreementSeqMsg(win)
<1>1. win \in votes
  BY MaxVote
<1>2. r \in RMsg
  BY <1>1 DEF TOAnnounceAgreementSeqMsg, RMsg, Vote
<1>3. RBMsg(r) \in BMsg
  BY <1>2 DEF RBMsg, BMsg
<1>4. BTypeOK(BMsg) /\ Appends(n, RBMsg(r))
  BY WriteAppends DEF TypeInv, AggregateVotesAndMulticast, MulticastR
<1>5. \A e \in Node, l \in Msg : RBMsg(r) \notin VoteFrames(e, l)
  BY FramesDiffer
<1>6. /\ \A e \in Node, l \in Msg : Sent(e, l)' = Sent(e, l)
      /\ \A s, d \in Node : \A b \in Range(net'[s][d]) : b \in Range(net[s][d]) \/ b = RBMsg(r)
  <2> HIDE DEF r
  <2>1. QED  BY <1>3, <1>4, <1>5, AppendsVotes
<1>7. ASSUME NEW v \in Vote, Announced(v)'  PROVE Announced(v) \/ v = win
  <2> DEFINE q == TOAnnounceAgreementSeqMsg(v)
  <2>1. \/ \E e \in Node : q \in received'[e]
        \/ \E s, d \in Node : RBMsg(q) \in Range(net'[s][d])
    BY <1>7 DEF Announced, TOAnnounceAgreementSeqMsg, RBMsg
  <2>2. RBMsg(q) = RBMsg(r) => q = r
    BY FramesDiffer
  <2>3. q = r => v = win
    BY <1>1, FramesDiffer
  <2>4. (\E e \in Node : q \in received[e]) => Announced(v)
    BY DEF Announced
  <2>5. (\E s, d \in Node : RBMsg(q) \in Range(net[s][d])) => Announced(v)
    BY DEF Announced
  <2> HIDE DEF q, r, win
  <2>6. QED  BY <1>6, <2>1, <2>2, <2>3, <2>4, <2>5
<1>8. QED  BY <1>1, <1>6, <1>7

\* What collectVotes does with the votes of message m: it counts them, or
\* announces the largest and deletes them (total_ording.go:104-153).  It had
\* counted them, but for one that it takes off its channel.
CountsOrAnnounces(n, m, votes) ==
  \/ /\ waitProposalCounter' = [waitProposalCounter EXCEPT ![n][m] = votes]
     /\ UNCHANGED net
  \/ /\ AggregateVotesAndMulticast(n, m, votes)
     /\ recheck[n] # {} \/ Enough(votes, MemberCount(n))

Counting(n, m, votes) ==
  /\ votes \in SUBSET Vote /\ IsFiniteSet(votes) /\ votes # {}
  /\ CountsOrAnnounces(n, m, votes)
  /\ UNCHANGED <<received, tasks, holdQueue, delivered>>
  /\ Origin[m] = n
  /\ waitProposalCounter[n][m] \subseteq votes
  /\ \A v \in votes : v.id = m /\ Cast(v)
  /\ \A e \in Node : Range(waitVotesChannel'[e]) \subseteq Range(waitVotesChannel[e])
  /\ \A e \in Node, l \in Msg : Fewer(Queued(e, l)', Queued(e, l))
  /\ \A v \in votes \ waitProposalCounter[n][m] :
       /\ votes \ waitProposalCounter[n][m] = {v}
       /\ Queued(v.pid, m) # {} /\ (Single(Queued(v.pid, m)) => Queued(v.pid, m)' = {})

\* A vote for m that is on its way, or counted, is the only one of its node.
LEMMA CountedGone ==
  ASSUME VoteInv, NEW n \in Node, NEW m \in Msg, NEW votes, Counting(n, m, votes),
         AggregateVotesAndMulticast(n, m, votes), NEW v \in votes
  PROVE  v.pid \in Node /\ NoVote(v.pid, m)' /\ Asked(v.pid, m)
<1>0. /\ TypeInv /\ waitProposalCounter \in [Node -> [Msg -> SUBSET Vote]]
      /\ v \in Vote /\ v.pid \in Node /\ v.id = m
  BY DEF VoteInv, OnceInv, TypeInv, TOTypeOK, Vote, Counting
<1>1. /\ \A e \in Node, l \in Msg : Sent(e, l)' = Sent(e, l) /\ Unsent(e, l)' = Unsent(e, l)
      /\ OneVote(v.pid, m) /\ (~Asked(v.pid, m) => NoVote(v.pid, m))
  BY <1>0, AnnounceNet DEF Unsent, TOAskProposalSeqMsg, Counting, VoteInv
<1>2. waitProposalCounter'[n][m] = {}
  BY <1>0 DEF AggregateVotesAndMulticast
<1>3. Counted(v.pid, m)' = {}
  BY <1>2 DEF Counted, VotesOf, Vote, Counting
<1>4. Unsent(v.pid, m) = {} /\ Sent(v.pid, m) = {} /\ Queued(v.pid, m)' = {} /\ Asked(v.pid, m)
  <2>1. CASE v \in waitProposalCounter[n][m]
    <3>1. v \in Counted(v.pid, m)
      BY <1>0, <2>1 DEF Counted, VotesOf, Counting
    <3>2. Fewer(Queued(v.pid, m)', Queued(v.pid, m))
      BY <1>0 DEF Counting
    <3>3. QED  BY <1>1, <3>1, <3>2 DEF OneVote, NoVote, Fewer
  <2>2. CASE v \notin waitProposalCounter[n][m]
    <3>1. Queued(v.pid, m) # {} /\ (Single(Queued(v.pid, m)) => Queued(v.pid, m)' = {})
      BY <2>2 DEF Counting
    <3>2. QED  BY <1>1, <3>1 DEF OneVote, NoVote
  <2>3. QED  BY <2>1, <2>2
<1>5. QED  BY <1>0, <1>1, <1>3, <1>4 DEF NoVote

\* Counting or announcing votes multiplies none.
LEMMA CountVotes ==
  ASSUME VoteInv, NEW n \in Node, NEW m \in Msg, NEW votes, Counting(n, m, votes)
  PROVE  VotesStep
<1>0. /\ TypeInv /\ waitProposalCounter \in [Node -> [Msg -> SUBSET Vote]]
      /\ votes \in SUBSET Vote /\ IsFiniteSet(votes) /\ votes # {}
      /\ CountsOrAnnounces(n, m, votes) /\ UNCHANGED <<received, tasks>> /\ Origin[m] = n
      /\ waitProposalCounter[n][m] \subseteq votes /\ \A v \in votes : v.id = m /\ v.pid \in Node
      /\ \A e \in Node : Range(waitVotesChannel'[e]) \subseteq Range(waitVotesChannel[e])
  BY DEF VoteInv, OnceInv, TypeInv, TOTypeOK, Vote, Counting
<1>1. /\ \A e \in Node, l \in Msg : <<e, l>> # <<n, m>> =>
           waitProposalCounter'[e][l] = waitProposalCounter[e][l]
      /\ waitProposalCounter'[n][m] = votes \/ waitProposalCounter'[n][m] = {}
  BY <1>0 DEF CountsOrAnnounces, AggregateVotesAndMulticast
<1>2. \A e \in Node, l \in Msg : Sent(e, l)' = Sent(e, l) /\ Unsent(e, l)' = Unsent(e, l)
  <2>1. CASE UNCHANGED net
    BY <1>0, <2>1 DEF Sent, Unsent, TOAskProposalSeqMsg, Positions, VoteFrames, VotesOf, Vote, VoteFrame
  <2>2. CASE AggregateVotesAndMulticast(n, m, votes)
    BY <1>0, <2>2, AnnounceNet DEF Unsent, TOAskProposalSeqMsg
  <2>3. QED  BY <1>0, <2>1, <2>2 DEF CountsOrAnnounces
<1>3. \A e \in Node, l \in Msg : Counted(e, l)' = waitProposalCounter'[Origin[l]][l] \cap VotesOf(e, l)
  BY DEF Counted, VotesOf, Vote
<1>4. VotesPlaced'
  <2>1. ASSUME NEW s \in Node, NEW d \in Node, NEW v \in Vote, VoteFrame(v) \in Range(net'[s][d])
        PROVE  VoteFrame(v) \in Range(net[s][d])
    <3>1. CASE UNCHANGED net
      BY <2>1, <3>1
    <3>2. CASE AggregateVotesAndMulticast(n, m, votes)
      <4>1. VoteFrame(v) \in Range(net[s][d])
              \/ VoteFrame(v) = RBMsg(TOAnnounceAgreementSeqMsg(MaxOfArrayProposalItem(votes)))
        BY <1>0, <2>1, <3>2, AnnounceNet
      <4>2. QED  BY <4>1, FramesDiffer
    <3>3. QED  BY <1>0, <3>1, <3>2 DEF CountsOrAnnounces
  <2>2. \A e \in Node, l \in Msg : \A v \in waitProposalCounter'[e][l] : v.id = l /\ Origin[l] = e
    BY <1>0, <1>1 DEF VoteInv, VotesPlaced
  <2>3. \A e \in Node : \A v \in Range(waitVotesChannel'[e]) : Origin[v.id] = e
    BY <1>0 DEF VoteInv, VotesPlaced
  <2>4. QED  BY <2>1, <2>2, <2>3 DEF VoteInv, VotesPlaced, VoteFrame
<1>5. ASSUME NEW e \in Node, NEW l \in Msg  PROVE VoteKept(e, l)
  <2>1. OneVote(e, l) /\ Fewer(Queued(e, l)', Queued(e, l))
    BY DEF VoteInv, Counting
  <2>2. CASE \A v \in votes \ waitProposalCounter[n][m] : v.pid # e \/ m # l
    <3>1. Counted(e, l)' \subseteq Counted(e, l)
      <4>1. Origin[l] \in Node
        BY OriginAssumption
      <4>2. Counted(e, l) = waitProposalCounter[Origin[l]][l] \cap VotesOf(e, l)
        BY DEF Counted
      <4>3. CASE l # m
        BY <1>1, <1>3, <4>1, <4>2, <4>3
      <4>4. CASE l = m
        BY <1>0, <1>1, <1>3, <2>2, <4>2, <4>4 DEF VotesOf
      <4>5. QED  BY <4>3, <4>4
    <3>2. Fewer(Counted(e, l)', Counted(e, l))
      BY <3>1 DEF Fewer, Single
    <3>3. QED  BY <1>2, <2>1, <3>2, FewerKept DEF Fewer
  <2>3. ASSUME NEW v \in votes \ waitProposalCounter[n][m], v.pid = e, m = l
        PROVE  VoteKept(e, l)
    <3>1. Queued(e, l) # {} /\ (Single(Queued(e, l)) => Queued(e, l)' = {})
          /\ votes \ waitProposalCounter[n][m] = {v}
      BY <2>3 DEF Counting
    <3>2. Unsent(e, l) = {} /\ Sent(e, l) = {} /\ Queued(e, l)' = {} /\ Counted(e, l) = {}
      BY <2>1, <3>1 DEF OneVote
    <3>3. Counted(e, l)' \subseteq {v}
      BY <1>0, <1>1, <1>3, <2>3, <3>1, <3>2 DEF Counted
    <3>4. QED  BY <1>2, <3>1, <3>2, <3>3 DEF VoteKept, NoVote, OneVote, Single
  <2>4. QED  BY <2>2, <2>3
<1>6. ASSUME NEW v \in Vote, Announced(v)', ~Announced(v)
      PROVE  NoVote(v.pid, v.id)' /\ Asked(v.pid, v.id)
  <2>1. CASE UNCHANGED net
    BY <1>0, <1>6, <2>1 DEF Announced, TOAnnounceAgreementSeqMsg, RBMsg
  <2>2. CASE AggregateVotesAndMulticast(n, m, votes)
    <3>1. v \in votes /\ v.id = m
      BY <1>0, <1>6, <2>2, AnnounceNet
    <3>2. QED  BY <1>0, <2>2, <3>1, CountedGone
  <2>3. QED  BY <1>0, <2>1, <2>2 DEF CountsOrAnnounces
<1>7. QED  BY <1>0, <1>4, <1>5, <1>6 DEF VotesStep

\* A step of collectVotes counts, or announces, the votes of one message.
LEMMA CollectVoteCounts ==
  ASSUME VoteInv, NEW n \in Node, CollectVote(n)
  PROVE  \E m \in Msg : \E votes : Counting(n, m, votes)
<1>v. PICK vote, votes : /\ vote = Head(waitVotesChannel[n])
                         /\ votes = waitProposalCounter[n][vote.id] \cup {vote}
  OBVIOUS
<1>0. /\ TypeInv /\ waitProposalCounter \in [Node -> [Msg -> SUBSET Vote]]
      /\ waitVotesChannel \in [Node -> Seq(Vote)]
  BY DEF VoteInv, OnceInv, TypeInv, TOTypeOK
<1>1. /\ waitVotesChannel[n] \in Seq(Vote) /\ waitVotesChannel[n] # <<>>
      /\ waitVotesChannel'[n] = Tail(waitVotesChannel[n])
      /\ \A e \in Node : e # n => waitVotesChannel'[e] = waitVotesChannel[e]
      /\ UNCHANGED <<received, tasks, holdQueue, delivered>>
  BY <1>0 DEF CollectVote, rvars
<1>2. /\ vote \in Vote
      /\ Range(waitVotesChannel[n]) = Range(Tail(waitVotesChannel[n])) \cup {vote}
  BY <1>v, <1>1, RangeTail
<1>3. vote.id \in Msg /\ vote.pid \in Node /\ Origin[vote.id] = n
  BY <1>2 DEF VoteInv, VotesPlaced, Vote
<1>4. /\ waitProposalCounter[n][vote.id] \in SUBSET Vote
      /\ IsFiniteSet(waitProposalCounter[n][vote.id])
  BY <1>0, <1>3 DEF TypeInv, VotesOK
<1>5. votes \in SUBSET Vote /\ IsFiniteSet(votes) /\ votes # {}
  BY <1>v, <1>2, <1>4, FS_AddElement
<1>6. CountsOrAnnounces(n, vote.id, votes)
  BY <1>v DEF CollectVote, CountsOrAnnounces, bvars
<1>7. waitProposalCounter[n][vote.id] \subseteq votes /\ \A v \in votes : v.id = vote.id /\ Cast(v)
  BY <1>v, <1>2, <1>3 DEF VoteInv, VotesPlaced, Cast
<1>8. \A e \in Node : Range(waitVotesChannel'[e]) \subseteq Range(waitVotesChannel[e])
  BY <1>1, <1>2
<1>9. ASSUME NEW e \in Node, NEW m \in Msg
      PROVE  /\ Fewer(Queued(e, m)', Queued(e, m))
             /\ m = vote.id /\ e = vote.pid =>
                  Queued(e, m) # {} /\ (Single(Queued(e, m)) => Queued(e, m)' = {})
  <2>1. Queued(e, m)' = Positions(waitVotesChannel'[Origin[m]], VotesOf(e, m)) /\ Origin[m] \in Node
    BY OriginAssumption DEF Queued, Positions, VotesOf, Vote
  <2>2. CASE Origin[m] # n
    BY <1>1, <1>3, <2>1, <2>2 DEF Queued, Fewer
  <2>3. CASE Origin[m] = n
    <3>1. /\ Queued(e, m) = Positions(waitVotesChannel[n], VotesOf(e, m))
          /\ Queued(e, m)' = Positions(Tail(waitVotesChannel[n]), VotesOf(e, m))
      BY <1>1, <2>1, <2>3 DEF Queued
    <3>2. m = vote.id /\ e = vote.pid => Head(waitVotesChannel[n]) \in VotesOf(e, m)
      BY <1>v, <1>2 DEF VotesOf
    <3>3. /\ Fewer(Positions(Tail(waitVotesChannel[n]), VotesOf(e, m)),
                   Positions(waitVotesChannel[n], VotesOf(e, m)))
          /\ Head(waitVotesChannel[n]) \in VotesOf(e, m) =>
               /\ Positions(waitVotesChannel[n], VotesOf(e, m)) # {}
               /\ Single(Positions(waitVotesChannel[n], VotesOf(e, m))) =>
                    Positions(Tail(waitVotesChannel[n]), VotesOf(e, m)) = {}
      BY <1>1, PositionsTail
    <3>4. QED  BY <3>1, <3>2, <3>3
  <2>4. QED  BY <2>2, <2>3
<1>10. ASSUME NEW v \in votes \ waitProposalCounter[n][vote.id]
       PROVE  /\ votes \ waitProposalCounter[n][vote.id] = {v}
              /\ Queued(v.pid, vote.id) # {}
              /\ Single(Queued(v.pid, vote.id)) => Queued(v.pid, vote.id)' = {}
  <2>1. v = vote /\ votes \ waitProposalCounter[n][vote.id] = {v}
    BY <1>v, <1>10
  <2>2. QED  BY <1>3, <1>9, <2>1
<1>11. \A v \in votes \ waitProposalCounter[n][vote.id] :
         /\ votes \ waitProposalCounter[n][vote.id] = {v}
         /\ Queued(v.pid, vote.id) # {}
            /\ (Single(Queued(v.pid, vote.id)) => Queued(v.pid, vote.id)' = {})
  BY <1>10
<1>12. /\ UNCHANGED <<received, tasks, holdQueue, delivered>>
       /\ \A e \in Node, m \in Msg : Fewer(Queued(e, m)', Queued(e, m))
  BY <1>1, <1>9
<1>13. vote.id \in Msg /\ Origin[vote.id] = n
  BY <1>3
<1>m. PICK m \in Msg : m = vote.id
  BY <1>13
<1>14. /\ CountsOrAnnounces(n, m, votes) /\ Origin[m] = n
       /\ waitProposalCounter[n][m] \subseteq votes /\ \A v \in votes : v.id = m /\ Cast(v)
       /\ \A v \in votes \ waitProposalCounter[n][m] :
            /\ votes \ waitProposalCounter[n][m] = {v}
            /\ Queued(v.pid, m) # {} /\ (Single(Queued(v.pid, m)) => Queued(v.pid, m)' = {})
  BY <1>m, <1>6, <1>7, <1>11, <1>13
<1>15. Counting(n, m, votes)
  BY <1>5, <1>8, <1>12, <1>14 DEF Counting
<1>16. QED  BY <1>15

\* The votes announced because of a member update had been counted.
LEMMA RecheckVotesCounts ==
  ASSUME VoteInv, NEW n \in Node, NEW m \in Msg, RecheckVotes(n, m)
  PROVE  Counting(n, m, waitProposalCounter[n][m])
<1>1. PICK votes : votes = waitProposalCounter[n][m]
  OBVIOUS
<1>2. votes \in SUBSET Vote /\ votes # {} /\ IsFiniteSet(votes)
  BY <1>1 DEF RecheckVotes, VoteInv, OnceInv, TypeInv, TOTypeOK, VotesOK
<1>3. /\ CountsOrAnnounces(n, m, votes)
      /\ UNCHANGED <<received, tasks, holdQueue, delivered, waitVotesChannel>>
  BY <1>1 DEF RecheckVotes, CountsOrAnnounces, rvars
<1>4. Origin[m] = n /\ \A v \in votes : v.id = m /\ Cast(v)
  BY <1>1, <1>2 DEF VoteInv, VotesPlaced, Cast
<1>5. \A e \in Node, l \in Msg : Queued(e, l)' = Queued(e, l)
  BY <1>3 DEF Queued, Positions, VotesOf, Vote
<1>6. \A e \in Node, l \in Msg : Fewer(Queued(e, l)', Queued(e, l))
  BY <1>5 DEF Fewer
<1>7. votes \ waitProposalCounter[n][m] = {} /\ waitProposalCounter[n][m] \subseteq votes
  BY <1>1
<1>8. Counting(n, m, votes)
  BY <1>2, <1>3, <1>4, <1>6, <1>7 DEF Counting
<1>9. QED  BY <1>1, <1>8

\* Every step treats the votes as VotesStep says.
LEMMA VoteSteps == VoteInv /\ [Next]_vars => VotesStep
<1> SUFFICES ASSUME VoteInv, [Next]_vars  PROVE VotesStep
  OBVIOUS
<1>1. OnceInv
  BY DEF VoteInv
<1>2. CASE QuietAction
  BY <1>1, <1>2, QuietActions, QuietVotes
<1>3. ASSUME ~QuietAction
      PROVE  \/ \E s, n \in Node : Receive(s, n) \/ ReceiveVote(s, n)
             \/ \E n \in Node : \E t \in tasks[n] : PushAndReply(n, t)
             \/ \E n \in Node : CollectVote(n) \/ \E m \in Msg : RecheckVotes(n, m)
  BY <1>3 DEF QuietAction, Next, HandleConn, CollectVotes
<1>4. CASE ~QuietAction
  BY <1>3, <1>4, ReceiveVotes, ReceiveVoteVotes, PushVotes, CollectVoteCounts, RecheckVotesCounts,
     CountVotes
<1>5. QED  BY <1>2, <1>4

\* Every step keeps the invariant.
LEMMA VoteStep == VoteInv /\ [Next]_vars => VoteInv'
<1>1. VoteInv /\ [Next]_vars => OnceInv'
  BY OnceStep DEF VoteInv
<1>2. QED  BY <1>1, VoteSteps, VotesStepKeeps

\* There are no votes initially.
LEMMA VoteInit == Init => VoteInv
<1> SUFFICES ASSUME Init  PROVE VoteInv
  OBVIOUS
<1>1. OnceInv
  BY OnceInit
<1>2. \A s, d \in Node : net[s][d] = <<>>
  BY DEF Init, BInit
<1>3. /\ \A n \in Node : /\ received[n] = {} /\ tasks[n] = {} /\ waitVotesChannel[n] = <<>>
      /\ \A n \in Node, m \in Msg : waitProposalCounter[n][m] = {}
  BY DEF Init, RInit
<1>4. DOMAIN <<>> = {} /\ Range(<<>>) = {}
  BY DEF Range
<1>5. \A n \in Node, m \in Msg : NoVote(n, m)
  <2>1. \A m \in Msg : Origin[m] \in Node
    BY OriginAssumption
  <2>2. QED  BY <1>2, <1>3, <1>4, <2>1 DEF NoVote, Unsent, Sent, Queued, Counted, Positions
<1>6. \A v \in Vote : ~Announced(v)
  BY <1>2, <1>3, <1>4 DEF Announced
<1>7. VotesPlaced
  BY <1>2, <1>3, <1>4 DEF VotesPlaced
<1>8. QED  BY <1>1, <1>5, <1>6, <1>7 DEF VoteInv, NoVote, OneVote, Single

\* A set with one element at most has cardinality 0 or 1.
LEMMA SingleCardinality ==
  ASSUME NEW S, Single(S)
  PROVE  /\ S = {} => Cardinality(S) = 0
         /\ Cardinality(S) \in {0, 1}
<1>1. S = {} \/ \E x : S = {x}
  BY DEF Single
<1>2. Cardinality({}) = 0 /\ \A x : Cardinality({x}) = 1
  BY FS_EmptySet, FS_Singleton
<1>3. QED  BY <1>1, <1>2

\* The number of votes in transit is the number of places where one is.
LEMMA TransitIsVotes ==
  ASSUME VoteInv, NEW n \in Node, NEW m \in Msg
  PROVE  /\ VotesInTransit(n, m) <= 1
         /\ NoVote(n, m) => VotesInTransit(n, m) = 0
<1>1. /\ OneVote(n, m)
      /\ net \in [Node -> [Node -> Seq(BMsg)]] /\ waitVotesChannel \in [Node -> Seq(Vote)]
      /\ waitProposalCounter \in [Node -> [Msg -> SUBSET Vote]] /\ Origin[m] \in Node
  BY OriginAssumption DEF VoteInv, OnceInv, TypeInv, TOTypeOK, BTypeOK
<1> DEFINE o == Origin[m]
           Of(v) == v.id = m /\ v.pid = n
           sent == {i \in DOMAIN net[n][o] :
                      net[n][o][i].path = WaitProposalSeqPath /\ Of(net[n][o][i].body)}
           queued == {i \in DOMAIN waitVotesChannel[o] : Of(waitVotesChannel[o][i])}
           counted == {v \in waitProposalCounter[o][m] : Of(v)}
<1>2. sent = Sent(n, m)
  <2>1. net[n][o] \in Seq(BMsg)
    BY <1>1
  <2>2. \A i \in DOMAIN net[n][o] : net[n][o][i] \in BMsg
    BY <2>1, LenProperties, ElementOfSeq
  <2>3. ASSUME NEW b \in BMsg
        PROVE  b \in VoteFrames(n, m) <=> b.path = WaitProposalSeqPath /\ Of(b.body)
    <3>1. b.path = WaitProposalSeqPath => b = VoteFrame(b.body) /\ b.body \in Vote
      BY ReadFrame
    <3>2. \A v : VoteFrame(v).path = WaitProposalSeqPath /\ VoteFrame(v).body = v
      BY DEF VoteFrame
    <3>3. QED  BY <3>1, <3>2 DEF VoteFrames, VotesOf
  <2>4. QED  BY <2>2, <2>3 DEF Sent, Positions
<1>3. queued = Queued(n, m)
  <2>1. waitVotesChannel[o] \in Seq(Vote)
    BY <1>1
  <2>2. \A i \in DOMAIN waitVotesChannel[o] : waitVotesChannel[o][i] \in Vote
    BY <2>1, LenProperties, ElementOfSeq
  <2>3. QED  BY <2>2 DEF Queued, Positions, VotesOf
<1>4. counted = Counted(n, m)
  BY <1>1 DEF Counted, VotesOf
<1>5. VotesInTransit(n, m) = Cardinality(Sent(n, m)) + Cardinality(Queued(n, m))
                             + Cardinality(Counted(n, m)) + Cardinality(Unsent(n, m))
  BY <1>2, <1>3, <1>4 DEF VotesInTransit, Unsent
<1>6. Single({})
  BY DEF Single
<1>7. /\ Single(Sent(n, m)) /\ Single(Queued(n, m)) /\ Single(Counted(n, m)) /\ Single(Unsent(n, m))
      /\ \/ Sent(n, m) = {} /\ Queued(n, m) = {} /\ Counted(n, m) = {}
         \/ Sent(n, m) = {} /\ Queued(n, m) = {} /\ Unsent(n, m) = {}
         \/ Sent(n, m) = {} /\ Counted(n, m) = {} /\ Unsent(n, m) = {}
         \/ Queued(n, m) = {} /\ Counted(n, m) = {} /\ Unsent(n, m) = {}
  BY <1>1, <1>6 DEF OneVote
<1> HIDE DEF o, sent, queued, counted
<1>8. PICK i, j, k, l : /\ i = Cardinality(Sent(n, m)) /\ j = Cardinality(Queued(n, m))
                        /\ k = Cardinality(Counted(n, m)) /\ l = Cardinality(Unsent(n, m))
  OBVIOUS
<1>9. /\ i \in {0, 1} /\ (Sent(n, m) = {} => i = 0)
      /\ j \in {0, 1} /\ (Queued(n, m) = {} => j = 0)
      /\ k \in {0, 1} /\ (Counted(n, m) = {} => k = 0)
      /\ l \in {0, 1} /\ (Unsent(n, m) = {} => l = 0)
  BY <1>7, <1>8, SingleCardinality
<1>10. VotesInTransit(n, m) = i + j + k + l
  BY <1>5, <1>8
<1>11. /\ \/ i = 0 /\ j = 0 /\ k = 0
          \/ i = 0 /\ j = 0 /\ l = 0
          \/ i = 0 /\ k = 0 /\ l = 0
          \/ j = 0 /\ k = 0 /\ l = 0
       /\ NoVote(n, m) => i = 0 /\ j = 0 /\ k = 0 /\ l = 0
  BY <1>7, <1>9 DEF NoVote
<1>12. i + j + k + l <= 1 /\ (NoVote(n, m) => i + j + k + l = 0)
  BY <1>9, <1>11
<1>13. QED  BY <1>10, <1>12

\* The announcements recorded are of votes.
LEMMA AnnouncementVote ==
  ASSUME TypeInv, NEW r \in Announcements
  PROVE  \E v \in Vote : /\ r = TOAnnounceAgreementSeqMsg(v) /\ Announced(v)
                        /\ v.id = r.id /\ v.seq = r.seq /\ v.pid = r.pid
<1>1. PICK n \in Node : r \in received[n]
  BY DEF Announcements
<1>2. r \in RMsg /\ r.path = AnnounceAgreementSeqPath
  BY <1>1 DEF Announcements, TypeInv, RTypeOK
<1> DEFINE v == [id |-> r.id, seq |-> r.seq, pid |-> r.pid]
<1>3. v \in Vote /\ r = TOAnnounceAgreementSeqMsg(v)
  BY <1>2 DEF RMsg, AskProposalSeqPath, AnnounceAgreementSeqPath, Vote, TOAnnounceAgreementSeqMsg
<1>4. QED  BY <1>1, <1>3 DEF Announced

\* No vote is ever counted twice, in any group, with any crashes, resets and
\* ejections: a node has one vote for a message on its way or counted, and
\* none once an announcement was made of it (total_ording.go:104-153, 214-216).
THEOREM VotesCountedOnceHolds == Spec => []VotesCountedOnce
<1>1. VoteInv => VotesCountedOnce
  <2> SUFFICES ASSUME VoteInv, NEW n \in Node, NEW m \in Msg
               PROVE  /\ VotesInTransit(n, m) <= 1
                      /\ \A r \in Announcements :
                           r.id = m /\ r.pid = n => VotesInTransit(n, m) = 0
    BY DEF VotesCountedOnce
  <2>1. ASSUME NEW r \in Announcements, r.id = m, r.pid = n  PROVE NoVote(n, m)
    BY <2>1, AnnouncementVote DEF VoteInv, OnceInv
  <2>2. QED  BY <2>1, TransitIsVotes
<1>2. QED  BY <1>1, VoteInit, VoteStep, PTL DEF Spec
-----------------------------------------------------------------------------
(***************************************************************************)
(* AgreedKeysDistinct.  A node uses up a number for every proposal, so no  *)
(* two of its votes have the same one, wherever they are, until they are   *)
(* announced.                                                              *)
(***************************************************************************)
Claimed(v) == Proposing(v) \/ Cast(v) \/ Announced(v)

ClaimInv ==
  /\ VoteInv
  /\ \A v \in Vote : Claimed(v) => v.seq <= maxProposalSeqNumOfSelf[v.pid]
  /\ \A v, w \in Vote :
       Claimed(v) /\ Claimed(w) /\ v.seq = w.seq /\ v.pid = w.pid => v.id = w.id

\* A step that casts vote v, and one that announces it.
PushesVote(v) ==
  \E t \in tasks[v.pid] : PushAndReply(v.pid, t) /\ SendsVote(v.pid, t, v)

Announces(v) ==
  \E n \in Node, m \in Msg : \E votes :
    /\ Counting(n, m, votes)
    /\ AggregateVotesAndMulticast(n, m, votes)
    /\ v = MaxOfArrayProposalItem(votes)

\* A vote that is new was pushed; an announcement that is new is of the
\* largest of some votes.
LEMMA VotesComeFrom ==
  ASSUME VoteInv, [Next]_vars, NEW v \in Vote
  PROVE  /\ Cast(v)' => Cast(v) \/ PushesVote(v)
         /\ Announced(v)' => Announced(v) \/ Announces(v)
<1> DEFINE Goal == /\ Cast(v)' => Cast(v) \/ PushesVote(v)
                   /\ Announced(v)' => Announced(v) \/ Announces(v)
<1>0. /\ OnceInv /\ TypeInv /\ BTypeOK(BMsg)
      /\ waitVotesChannel \in [Node -> Seq(Vote)]
      /\ waitProposalCounter \in [Node -> [Msg -> SUBSET Vote]]
  BY DEF VoteInv, OnceInv, TypeInv, TOTypeOK
<1>1. ASSUME NetQuiet, NEW s \in Node, NEW d \in Node, VoteFrame(v) \in Range(net'[s][d])
      PROVE  Cast(v)
  <2>1. VoteFrame(v) \in Range(net[s][d]) \/ Harmless(VoteFrame(v))
    BY <1>1 DEF NetQuiet
  <2>2. QED  BY <2>1, FramesDiffer DEF Harmless, Cast
<1>2. Cast(v)' => \/ \E s, d \in Node : VoteFrame(v) \in Range(net'[s][d])
                  \/ \E n \in Node : v \in Range(waitVotesChannel'[n])
                  \/ \E n \in Node, m \in Msg : v \in waitProposalCounter'[n][m]
  BY DEF Cast, VoteFrame
<1>3. CASE QuietAction
  <2>1. NetQuiet /\ UNCHANGED <<received, waitVotesChannel, waitProposalCounter>>
    BY <1>0, <1>3, QuietActions
  <2>2. Announced(v)' => Announced(v)
    BY <2>1, QuietAnnounced DEF Announced
  <2>3. QED  BY <1>1, <1>2, <2>1, <2>2 DEF Cast
<1>4. ASSUME NEW s \in Node, NEW n \in Node, Receive(s, n)  PROVE Goal
  <2>1. NetQuiet /\ UNCHANGED <<waitVotesChannel, waitProposalCounter>>
    BY <1>0, <1>4, ReadTakes, TakesVotes DEF Receive, ReceiveR, tovars
  <2>2. QED  BY <1>0, <1>1, <1>2, <1>4, <2>1, ReceiveAnnounced DEF Cast
<1>5. ASSUME NEW n \in Node, NEW t \in tasks[n], PushAndReply(n, t)  PROVE Goal
  <2>1. PICK vote \in Vote : SendsVote(n, t, vote)
    BY <1>0, <1>5, PushVote
  <2>2. UNCHANGED <<received, waitVotesChannel, waitProposalCounter>>
    BY <1>5 DEF PushAndReply
  <2>3. PushesVote(vote)
    <3>1. vote.pid = n
      BY <2>1 DEF SendsVote
    <3>2. QED  BY <1>5, <2>1, <3>1 DEF PushesVote
  <2>4. VoteFrame(v) = VoteFrame(vote) => v = vote
    BY FramesDiffer
  <2>5. VoteFrame(vote) # RBMsg(TOAnnounceAgreementSeqMsg(v))
    BY FramesDiffer
  <2>6. Announced(v)' => \/ \E e \in Node : TOAnnounceAgreementSeqMsg(v) \in received'[e]
                         \/ \E s, d \in Node : RBMsg(TOAnnounceAgreementSeqMsg(v)) \in Range(net'[s][d])
    BY DEF Announced, TOAnnounceAgreementSeqMsg, RBMsg
  <2>7. Announced(v)' => Announced(v)
    BY <2>1, <2>2, <2>5, <2>6 DEF Announced, SendsVote
  <2>8. \A s, d \in Node : VoteFrame(v) \in Range(net'[s][d]) =>
          VoteFrame(v) \in Range(net[s][d]) \/ v = vote
    BY <2>1, <2>4 DEF SendsVote
  <2>9. Cast(v)' => Cast(v) \/ PushesVote(v)
    BY <1>2, <2>2, <2>3, <2>8 DEF Cast
  <2>10. QED  BY <2>7, <2>9
<1>6. ASSUME NEW s \in Node, NEW n \in Node, ReceiveVote(s, n)  PROVE Goal
  <2>1. NetQuiet
    BY <1>0, <1>6, ReadTakes, TakesVotes DEF ReceiveVote
  <2>2. UNCHANGED <<received, waitProposalCounter>>
    BY <1>6 DEF ReceiveVote, rvars
  <2>3. Announced(v)' => Announced(v)
    BY <2>1, <2>2, QuietAnnounced DEF Announced
  <2>4. PICK vote \in Vote : vote = Head(net[s][n]).body /\ VoteFrame(vote) \in Range(net[s][n])
    <3>1. Head(net[s][n]) \in BMsg /\ Head(net[s][n]).path = WaitProposalSeqPath
          /\ Reads(s, n, Head(net[s][n]))
      BY <1>0, <1>6, ReadStep DEF ReceiveVote
    <3>2. QED  BY <3>1, ReadFrame DEF Reads
  <2>5. /\ waitVotesChannel'[n] = Append(waitVotesChannel[n], vote)
        /\ \A e \in Node : e # n => waitVotesChannel'[e] = waitVotesChannel[e]
        /\ waitVotesChannel[n] \in Seq(Vote)
    BY <1>0, <1>6, <2>4 DEF ReceiveVote
  <2>6. Range(waitVotesChannel'[n]) = Range(waitVotesChannel[n]) \cup {vote}
    BY <2>5, RangeAppend
  <2>7. Cast(vote)
    BY <2>4 DEF Cast
  <2>8. \A e \in Node : v \in Range(waitVotesChannel'[e]) => Cast(v)
    BY <2>5, <2>6, <2>7 DEF Cast
  <2>9. QED  BY <1>1, <1>2, <2>1, <2>2, <2>3, <2>8 DEF Cast
<1>7. ASSUME NEW n \in Node, NEW m \in Msg, NEW votes, Counting(n, m, votes)  PROVE Goal
  <2>0. /\ votes \in SUBSET Vote /\ IsFiniteSet(votes) /\ votes # {}
        /\ CountsOrAnnounces(n, m, votes) /\ UNCHANGED received /\ \A w \in votes : Cast(w)
        /\ \A e \in Node : Range(waitVotesChannel'[e]) \subseteq Range(waitVotesChannel[e])
    BY <1>7 DEF Counting
  <2>1. \A e \in Node, l \in Msg :
          waitProposalCounter'[e][l] \subseteq waitProposalCounter[e][l] \cup votes
    BY <1>0, <2>0 DEF CountsOrAnnounces, AggregateVotesAndMulticast
  <2>2. CASE UNCHANGED net
    <3>1. Announced(v)' => Announced(v)
      BY <2>0, <2>2 DEF Announced, TOAnnounceAgreementSeqMsg, RBMsg
    <3>2. Cast(v)' => Cast(v)
      BY <1>2, <2>0, <2>1, <2>2 DEF Cast
    <3>3. QED  BY <3>1, <3>2
  <2>3. CASE AggregateVotesAndMulticast(n, m, votes)
    <3>1. /\ \A s, d \in Node : \A b \in Range(net'[s][d]) :
               b \in Range(net[s][d]) \/ b = RBMsg(TOAnnounceAgreementSeqMsg(MaxOfArrayProposalItem(votes)))
          /\ Announced(v)' => Announced(v) \/ v = MaxOfArrayProposalItem(votes)
      BY <1>0, <2>0, <2>3, AnnounceNet
    <3>2. VoteFrame(v) # RBMsg(TOAnnounceAgreementSeqMsg(MaxOfArrayProposalItem(votes)))
      BY FramesDiffer
    <3>3. Cast(v)' => Cast(v)
      BY <1>2, <2>0, <2>1, <3>1, <3>2 DEF Cast
    <3>4. v = MaxOfArrayProposalItem(votes) => Announces(v)
      BY <1>7, <2>3 DEF Announces
    <3>5. QED  BY <3>1, <3>3, <3>4
  <2>4. QED  BY <2>0, <2>2, <2>3 DEF CountsOrAnnounces
<1>8. ASSUME NEW n \in Node, CollectVote(n) \/ \E m \in Msg : RecheckVotes(n, m)  PROVE Goal
  BY <1>7, <1>8, CollectVoteCounts, RecheckVotesCounts
<1>9. QED
  BY <1>3, <1>4, <1>5, <1>6, <1>8 DEF Next, HandleConn, CollectVotes, QuietAction

\* A vote that is cast was being proposed; one that is announced was cast.
LEMMA VotesWere ==
  ASSUME VoteInv, NEW v \in Vote
  PROVE  /\ PushesVote(v) => Proposing(v)
         /\ Announces(v) => Cast(v)
<1>1. PushesVote(v) => Proposing(v)
  BY DEF PushesVote, Proposing, SendsVote
<1>2. ASSUME NEW n \in Node, NEW m \in Msg, NEW votes, Counting(n, m, votes),
             v = MaxOfArrayProposalItem(votes)
      PROVE  Cast(v)
  <2>1. votes \in SUBSET Vote /\ IsFiniteSet(votes) /\ votes # {} /\ \A w \in votes : Cast(w)
    BY <1>2 DEF Counting
  <2>2. v \in votes
    BY <1>2, <2>1, MaxVote
  <2>3. QED  BY <2>1, <2>2
<1>3. QED  BY <1>1, <1>2 DEF Announces

\* Only Propose lets a task go on to push a message.
LEMMA PushesStay ==
  ASSUME OnceInv, [Next]_vars, ~\E n \in Node : \E t \in tasks[n] : Propose(n, t)
  PROVE  /\ UNCHANGED maxProposalSeqNumOfSelf
         /\ \A n \in Node : \A u \in tasks'[n] : u.pc = "push" => u \in tasks[n]
<1> DEFINE Goal == /\ UNCHANGED maxProposalSeqNumOfSelf
                   /\ \A n \in Node : \A u \in tasks'[n] : u.pc = "push" => u \in tasks[n]
<1>0. tasks \in [Node -> SUBSET Task(RMsg, HandlerPC)]
  BY DEF OnceInv, TypeInv, RTypeOK
<1>1. ASSUME NEW n \in Node, NEW t \in tasks[n],
             RelayTask(n, t) \/ PushAndReply(n, t) \/ Agree(n, t) \/ UpdateItem(n, t)
               \/ Deliver(n, t) \/ Stop(n, t)
      PROVE  Goal
  <2>1. UNCHANGED maxProposalSeqNumOfSelf
    BY <1>1 DEF RelayTask, PushAndReply, Agree, UpdateItem, Deliver, Stop, tovars
  <2>2. \/ UNCHANGED tasks \/ Return(n, t)
        \/ \E pc \in {"route", "update", "drain"} : GoTo(n, t, pc, t.local)
    BY <1>1 DEF RelayTask, Relay, PushAndReply, Agree, UpdateItem, Deliver, Stop, rvars
  <2>3. \A pc : At(t, pc, t.local).pc = pc
    BY <1>0 DEF At, Task
  <2>4. CASE UNCHANGED tasks
    BY <2>1, <2>4
  <2>5. CASE Return(n, t)
    BY <1>0, <2>1, <2>5 DEF Return
  <2>6. ASSUME NEW pc \in {"route", "update", "drain"}, GoTo(n, t, pc, t.local)  PROVE Goal
    BY <1>0, <2>1, <2>3, <2>6 DEF GoTo
  <2>7. QED  BY <2>2, <2>4, <2>5, <2>6
<1>2. ASSUME NEW s \in Node, NEW n \in Node, Receive(s, n)  PROVE Goal
  <2>1. UNCHANGED maxProposalSeqNumOfSelf
    BY <1>2 DEF Receive, tovars
  <2>2. \A r : NewTask(n, s, r).pc # "push"
    BY DEF NewTask, EntryPoint
  <2>3. UNCHANGED tasks \/ \E r : tasks' = [tasks EXCEPT ![n] = @ \cup {NewTask(n, s, r)}]
    BY <1>2 DEF Receive, ReceiveR, rvars
  <2>4. QED  BY <1>0, <2>1, <2>2, <2>3
<1>3. ASSUME NEW n \in Node, Crash(n)  PROVE Goal
  BY <1>0, <1>3 DEF Crash, RCrash, tovars
<1>4. ASSUME \/ \E n \in Node, m \in Msg : AskGroup(n, m) \/ RecheckVotes(n, m)
             \/ \E n \in Node : CollectVote(n) \/ ReceiveMemberUpdate(n)
             \/ \E s, n \in Node : ReceiveVote(s, n) \/ Reset(s, n)
             \/ UNCHANGED vars
      PROVE  Goal
  BY <1>4 DEF AskGroup, RecheckVotes, CollectVote, ReceiveMemberUpdate, ReceiveVote, Reset,
              vars, rvars, tovars
<1>5. QED  BY <1>1, <1>2, <1>3, <1>4 DEF Next, HandleConn, CollectVotes

\* A proposal has a number that its node has not used up.
LEMMA ProposeFresh ==
  ASSUME OnceInv, NEW n \in Node, NEW t \in tasks[n], Propose(n, t)
  PROVE  /\ maxProposalSeqNumOfSelf[n] < NextProposal(n) /\ NextProposal(n) \in Nat
         /\ maxProposalSeqNumOfSelf'[n] = NextProposal(n)
         /\ \A e \in Node : e # n => maxProposalSeqNumOfSelf'[e] = maxProposalSeqNumOfSelf[e]
         /\ t.rmsg = TOAskProposalSeqMsg(t.rmsg.id) /\ t.rmsg.id \in Msg
         /\ \A e \in Node : \A u \in tasks'[e] : u.pc = "push" =>
              \/ u \in tasks[e]
              \/ e = n /\ u.rmsg = t.rmsg /\ u.local = NextProposal(n)
<1>1. /\ maxProposalSeqNumOfSelf \in [Node -> Nat] /\ maxAgreementSeqNumOfGroup \in [Node -> Nat]
      /\ RTypeOK(RMsg, HandlerPC)
  BY DEF OnceInv, TypeInv, TOTypeOK
<1>2. maxProposalSeqNumOfSelf[n] < NextProposal(n) /\ NextProposal(n) \in Nat
  BY <1>1 DEF NextProposal, MaxUint64
<1>3. t.rmsg = TOAskProposalSeqMsg(t.rmsg.id) /\ t.rmsg.id \in Msg /\ t.local \in Nat
  BY <1>1, TaskMessage DEF Propose, IsAt
<1>4. tasks' = [tasks EXCEPT ![n] = (@ \ {t}) \cup {At(t, "push", NextProposal(n))}]
  BY DEF Propose, GoTo
<1>5. At(t, "push", NextProposal(n)).rmsg = t.rmsg /\ At(t, "push", NextProposal(n)).local = NextProposal(n)
  BY <1>1 DEF At, RTypeOK, Task
<1>6. \A e \in Node : \A u \in tasks'[e] :
        u \in tasks[e] \/ (e = n /\ u = At(t, "push", NextProposal(n)))
  BY <1>1, <1>4 DEF RTypeOK
<1>7. maxProposalSeqNumOfSelf' = [maxProposalSeqNumOfSelf EXCEPT ![n] = NextProposal(n)]
  BY DEF Propose
<1>8. QED  BY <1>1, <1>2, <1>3, <1>5, <1>6, <1>7

\* Every step keeps the numbers distinct.
LEMMA ClaimStep == ClaimInv /\ [Next]_vars => ClaimInv'
<1> SUFFICES ASSUME ClaimInv, [Next]_vars  PROVE ClaimInv'
  OBVIOUS
<1>0. /\ VoteInv /\ VoteInv' /\ OnceInv /\ maxProposalSeqNumOfSelf \in [Node -> Nat]
      /\ \A v \in Vote : v.seq \in Nat /\ v.pid \in Node /\ v.id \in Msg
  BY VoteStep DEF ClaimInv, VoteInv, OnceInv, TypeInv, TOTypeOK, Vote
<1>1. \A v \in Vote : Proposing(v)' <=>
        \E u \in tasks'[v.pid] : u.pc = "push" /\ u.rmsg = TOAskProposalSeqMsg(v.id) /\ u.local = v.seq
  BY DEF Proposing, TOAskProposalSeqMsg
<1>2. \A v \in Vote : Claimed(v)' => Claimed(v) \/ (Proposing(v)' /\ ~Proposing(v))
  BY <1>0, VotesComeFrom, VotesWere DEF Claimed
<1>3. CASE ~\E n \in Node : \E t \in tasks[n] : Propose(n, t)
  <2>1. \A v \in Vote : Proposing(v)' => Proposing(v)
    BY <1>0, <1>1, <1>3, PushesStay DEF Proposing
  <2>2. \A v \in Vote : Claimed(v)' => Claimed(v)
    BY <1>2, <2>1
  <2>3. UNCHANGED maxProposalSeqNumOfSelf
    BY <1>0, <1>3, PushesStay
  <2>4. QED  BY <1>0, <2>2, <2>3 DEF ClaimInv
<1>4. ASSUME NEW n \in Node, NEW t \in tasks[n], Propose(n, t)  PROVE ClaimInv'
  <2>1. PICK seq, m : seq = NextProposal(n) /\ m = t.rmsg.id
    OBVIOUS
  <2>2. /\ maxProposalSeqNumOfSelf[n] < seq /\ seq \in Nat
        /\ maxProposalSeqNumOfSelf'[n] = seq
        /\ \A e \in Node : e # n => maxProposalSeqNumOfSelf'[e] = maxProposalSeqNumOfSelf[e]
        /\ t.rmsg = TOAskProposalSeqMsg(m)
        /\ \A e \in Node : \A u \in tasks'[e] : u.pc = "push" =>
             u \in tasks[e] \/ (e = n /\ u.rmsg = t.rmsg /\ u.local = seq)
    BY <1>0, <1>4, <2>1, ProposeFresh
  <2>3. \A v \in Vote : TOAskProposalSeqMsg(v.id) = TOAskProposalSeqMsg(m) => v.id = m
    BY FramesDiffer
  <2>4. \A v \in Vote : Proposing(v)' /\ ~Proposing(v) => v.pid = n /\ v.seq = seq /\ v.id = m
    BY <1>0, <1>1, <2>2, <2>3 DEF Proposing
  <2>5. \A v \in Vote : Claimed(v)' => Claimed(v) \/ (v.pid = n /\ v.seq = seq /\ v.id = m)
    BY <1>2, <2>4
  <2>6. \A v \in Vote : Claimed(v) => v.seq <= maxProposalSeqNumOfSelf[v.pid]
    BY DEF ClaimInv
  <2>7. ASSUME NEW v \in Vote, Claimed(v)'  PROVE v.seq <= maxProposalSeqNumOfSelf'[v.pid]
    BY <1>0, <2>2, <2>5, <2>6, <2>7
  <2>8. ASSUME NEW v \in Vote, NEW w \in Vote, Claimed(v)', Claimed(w)',
               v.seq = w.seq, v.pid = w.pid
        PROVE  v.id = w.id
    <3>1. CASE Claimed(v) /\ Claimed(w)
      BY <2>8, <3>1 DEF ClaimInv
    <3>2. CASE Claimed(v) /\ w.pid = n /\ w.seq = seq
      <4>1. v.seq <= maxProposalSeqNumOfSelf[n] /\ v.seq = seq
        BY <2>6, <2>8, <3>2
      <4>2. QED  BY <1>0, <2>2, <4>1
    <3>3. CASE Claimed(w) /\ v.pid = n /\ v.seq = seq
      <4>1. w.seq <= maxProposalSeqNumOfSelf[n] /\ w.seq = seq
        BY <2>6, <2>8, <3>3
      <4>2. QED  BY <1>0, <2>2, <4>1
    <3>4. QED  BY <2>5, <2>8, <3>1, <3>2, <3>3
  <2>9. QED  BY <1>0, <2>7, <2>8 DEF ClaimInv
<1>5. QED  BY <1>3, <1>4

\* No number is used up initially.
LEMMA ClaimInit == Init => ClaimInv
<1> SUFFICES ASSUME Init  PROVE ClaimInv
  OBVIOUS
<1>1. VoteInv
  BY VoteInit
<1>2. ASSUME NEW v \in Vote  PROVE ~Claimed(v)
  <2>1. v.pid \in Node
    BY DEF Vote
  <2>2. /\ \A s, d \in Node : net[s][d] = <<>>
        /\ \A n \in Node : /\ received[n] = {} /\ tasks[n] = {} /\ waitVotesChannel[n] = <<>>
                           /\ \A m \in Msg : waitProposalCounter[n][m] = {}
    BY DEF Init, BInit, RInit
  <2>3. Range(<<>>) = {}
    BY DEF Range
  <2>4. QED  BY <2>1, <2>2, <2>3 DEF Claimed, Proposing, Cast, Announced
<1>3. QED  BY <1>1, <1>2 DEF ClaimInv

\* Two votes that are announced have different numbers, or different nodes.
LEMMA AnnouncedKeys ==
  ASSUME ClaimInv, NEW v \in Vote, NEW w \in Vote, Announced(v), Announced(w),
         v.seq = w.seq, v.pid = w.pid
  PROVE  v = w
BY DEF ClaimInv, Claimed, Vote

\* Two messages never get the same agreed key, ejections and second
\* announcements included: the order of the hold queue has no ties among
\* agreed items (to_hold_queue_item.go:34-48, total_ording.go:189-196).
THEOREM AgreedKeysDistinctHolds == Spec => []AgreedKeysDistinct
<1>1. ClaimInv => AgreedKeysDistinct
  <2> SUFFICES ASSUME ClaimInv, NEW r \in Announcements, NEW q \in Announcements,
                      KeyOf(r) = KeyOf(q)
               PROVE  r = q
    BY DEF AgreedKeysDistinct
  <2>1. PICK v \in Vote : /\ r = TOAnnounceAgreementSeqMsg(v) /\ Announced(v)
                          /\ v.seq = r.seq /\ v.pid = r.pid
    BY AnnouncementVote DEF ClaimInv, VoteInv, OnceInv
  <2>2. PICK w \in Vote : /\ q = TOAnnounceAgreementSeqMsg(w) /\ Announced(w)
                          /\ w.seq = q.seq /\ w.pid = q.pid
    BY AnnouncementVote DEF ClaimInv, VoteInv, OnceInv
  <2>3. v.seq = w.seq /\ v.pid = w.pid
    BY <2>1, <2>2 DEF KeyOf
  <2>4. v = w
    BY <2>1, <2>2, <2>3, AnnouncedKeys
  <2>5. QED  BY <2>1, <2>2, <2>4
<1>2. QED  BY <1>1, ClaimInit, ClaimStep, PTL DEF Spec

-----------------------------------------------------------------------------
(***************************************************************************)
(* The goroutines of a node.                                               *)
(***************************************************************************)

\* What the layer keeps of node n, but for its tasks, is left alone.
SameRows(n) ==
  /\ holdQueue'[n] = holdQueue[n]
  /\ holdQueueLocker'[n] = holdQueueLocker[n]
  /\ crashNodeTimeout'[n] = crashNodeTimeout[n]
  /\ maxAgreementSeqNumOfGroup'[n] = maxAgreementSeqNumOfGroup[n]
  /\ delivered'[n] = delivered[n]
  /\ overtaken'[n] = overtaken[n]

\* A step that reaches none of the handlers of this layer: tasks are started,
\* relayed or killed.
Idle ==
  \A n \in Node :
    /\ SameRows(n)
    /\ received[n] \subseteq received'[n]
    /\ \A u \in tasks'[n] : u \in tasks[n] \/ u.pc \in {"relay", "route"}

\* One step of a handler of this layer.
Handles(n, t) ==
  \/ Propose(n, t) \/ PushAndReply(n, t) \/ Agree(n, t) \/ UpdateItem(n, t)
  \/ Deliver(n, t) \/ Stop(n, t)

\* Every step is one of the two kinds.
LEMMA StepKinds ==
  ASSUME OnceInv, [Next]_vars
  PROVE  Idle \/ \E n \in Node : \E t \in tasks[n] : Handles(n, t)
<1>0. /\ tasks \in [Node -> SUBSET Task(RMsg, HandlerPC)]
      /\ received \in [Node -> SUBSET RMsg]
  BY DEF OnceInv, TypeInv, RTypeOK
<1>1. ASSUME NEW s \in Node, NEW n \in Node, Receive(s, n)  PROVE Idle
  <2>1. UNCHANGED tovars
    BY <1>1 DEF Receive
  <2>2. \A r : NewTask(n, s, r).pc \in {"relay", "route"}
    BY DEF NewTask, EntryPoint
  <2>3. \/ UNCHANGED rvars
        \/ \E r : /\ received' = [received EXCEPT ![n] = @ \cup {r}]
                  /\ tasks' = [tasks EXCEPT ![n] = @ \cup {NewTask(n, s, r)}]
    BY <1>1 DEF Receive, ReceiveR
  <2>4. CASE UNCHANGED rvars
    BY <2>1, <2>4 DEF Idle, SameRows, tovars, rvars
  <2>5. ASSUME NEW r, received' = [received EXCEPT ![n] = @ \cup {r}],
               tasks' = [tasks EXCEPT ![n] = @ \cup {NewTask(n, s, r)}]
        PROVE  Idle
    <3>1. \A e \in Node : received[e] \subseteq received'[e]
      BY <1>0, <2>5
    <3>2. \A e \in Node : \A u \in tasks'[e] : u \in tasks[e] \/ u = NewTask(n, s, r)
      BY <1>0, <2>5
    <3>3. QED  BY <2>1, <2>2, <3>1, <3>2 DEF Idle, SameRows, tovars
  <2>6. QED  BY <2>3, <2>4, <2>5
<1>2. ASSUME NEW n \in Node, NEW t \in tasks[n], RelayTask(n, t)  PROVE Idle
  <2>1. At(t, "route", t.local).pc = "route"
    BY <1>0 DEF At, Task
  <2>2. tasks' = [tasks EXCEPT ![n] = (@ \ {t}) \cup {At(t, "route", t.local)}]
        /\ UNCHANGED received /\ UNCHANGED tovars
    BY <1>2 DEF RelayTask, Relay, GoTo
  <2>3. \A e \in Node : \A u \in tasks'[e] : u \in tasks[e] \/ u = At(t, "route", t.local)
    BY <1>0, <2>2
  <2>4. QED  BY <2>1, <2>2, <2>3 DEF Idle, SameRows, tovars
<1>3. ASSUME NEW n \in Node, Crash(n)  PROVE Idle
  BY <1>0, <1>3 DEF Crash, RCrash, Idle, SameRows, tovars
<1>4. ASSUME \/ \E n \in Node, m \in Msg : AskGroup(n, m) \/ RecheckVotes(n, m)
             \/ \E n \in Node : CollectVote(n) \/ ReceiveMemberUpdate(n)
             \/ \E s, n \in Node : ReceiveVote(s, n) \/ Reset(s, n)
             \/ UNCHANGED vars
      PROVE  Idle
  BY <1>4 DEF AskGroup, RecheckVotes, CollectVote, ReceiveMemberUpdate, ReceiveVote, Reset,
              vars, rvars, tovars, Idle, SameRows
<1>5. QED  BY <1>1, <1>2, <1>3, <1>4 DEF Next, HandleConn, CollectVotes, Handles

\* What a handler of n does concerns n only.
LEMMA OwnRow ==
  ASSUME OnceInv, NEW n \in Node, NEW t \in tasks[n], Handles(n, t)
  PROVE  /\ UNCHANGED received
         /\ \A e \in Node : e # n => SameRows(e) /\ tasks'[e] = tasks[e]
<1>0. /\ tasks \in [Node -> SUBSET Task(RMsg, HandlerPC)] /\ TOTypeOK
  BY DEF OnceInv, TypeInv, RTypeOK
<1>1. UNCHANGED received
  BY DEF Handles, Propose, PushAndReply, Agree, UpdateItem, Deliver, Stop, rvars
<1>2. \A e \in Node : e # n => tasks'[e] = tasks[e]
  BY <1>0 DEF Handles, Propose, PushAndReply, Agree, UpdateItem, Deliver, Stop, rvars, GoTo, Return
<1>3. \A e \in Node : e # n => maxAgreementSeqNumOfGroup'[e] = maxAgreementSeqNumOfGroup[e]
  BY <1>0 DEF TOTypeOK, Handles, Propose, PushAndReply, Agree, UpdateItem, Deliver, Stop
<1>4. \A e \in Node : e # n => holdQueue'[e] = holdQueue[e]
  BY <1>0 DEF TOTypeOK, Handles, Propose, PushAndReply, Agree, UpdateItem, Deliver, Stop
<1>5. \A e \in Node : e # n => holdQueueLocker'[e] = holdQueueLocker[e]
  BY <1>0 DEF TOTypeOK, Handles, Propose, PushAndReply, Agree, UpdateItem, Deliver, Stop
<1>6. \A e \in Node : e # n => crashNodeTimeout'[e] = crashNodeTimeout[e]
  BY <1>0 DEF TOTypeOK, Handles, Propose, PushAndReply, Agree, UpdateItem, Deliver, Stop
<1>7. \A e \in Node : e # n => delivered'[e] = delivered[e] /\ overtaken'[e] = overtaken[e]
  BY <1>0 DEF TOTypeOK, Handles, Propose, PushAndReply, Agree, UpdateItem, Deliver, Stop
<1>8. QED  BY <1>1, <1>2, <1>3, <1>4, <1>5, <1>6, <1>7 DEF SameRows

\* The task that a handler leaves behind, if any, has the message and the
\* connection of the one it found.
LEMMA OwnTasks ==
  ASSUME OnceInv, NEW n \in Node, NEW t \in tasks[n], Handles(n, t)
  PROVE  \/ tasks'[n] = tasks[n]
         \/ tasks'[n] = tasks[n] \ {t}
         \/ \E u : /\ tasks'[n] = (tasks[n] \ {t}) \cup {u}
                   /\ u.conn = t.conn /\ u.rmsg = t.rmsg
                   /\ \/ Propose(n, t) /\ u.pc = "push" /\ u.local = NextProposal(n)
                      \/ Agree(n, t) /\ u.pc = "update"
                      \/ UpdateItem(n, t) /\ u.pc = "drain"
<1>0. tasks \in [Node -> SUBSET Task(RMsg, HandlerPC)]
  BY DEF OnceInv, TypeInv, RTypeOK
<1>1. \A pc, local : /\ At(t, pc, local).conn = t.conn /\ At(t, pc, local).rmsg = t.rmsg
                     /\ At(t, pc, local).pc = pc /\ At(t, pc, local).local = local
  BY <1>0 DEF At, Task
<1>2. \A pc, local : GoTo(n, t, pc, local) => tasks'[n] = (tasks[n] \ {t}) \cup {At(t, pc, local)}
  BY <1>0 DEF GoTo
<1>3. Return(n, t) => tasks'[n] = tasks[n] \ {t}
  BY <1>0 DEF Return
<1>4. \/ UNCHANGED tasks \/ Return(n, t)
      \/ Propose(n, t) /\ GoTo(n, t, "push", NextProposal(n))
      \/ Agree(n, t) /\ GoTo(n, t, "update", t.local)
      \/ UpdateItem(n, t) /\ GoTo(n, t, "drain", t.local)
  BY DEF Handles, Propose, PushAndReply, Agree, UpdateItem, Deliver, Stop, rvars
<1>5. QED  BY <1>1, <1>2, <1>3, <1>4

\* A connection is handled by one goroutine (handleConn), and while one of them
\* delivers, it holds holdQueueLocker (total_ording.go:250-298).
ConnOnce(n) == \A t, u \in tasks[n] : t.conn = u.conn => t = u

LockHeld(n) == \A t \in tasks[n] : t.pc = "drain" => holdQueueLocker[n] = {t.conn}

\* No goroutine handles two messages at a time.
LEMMA ConnStep ==
  ASSUME OnceInv, [Next]_vars, \A n \in Node : ConnOnce(n)
  PROVE  \A n \in Node : ConnOnce(n)'
<1>0. tasks \in [Node -> SUBSET Task(RMsg, HandlerPC)]
  BY DEF OnceInv, TypeInv, RTypeOK
<1>1. ASSUME NEW n \in Node, NEW t \in tasks[n], NEW u, u.conn = t.conn,
             tasks'[n] = (tasks[n] \ {t}) \cup {u} \/ tasks'[n] = tasks[n] \ {t}
      PROVE  ConnOnce(n)'
  BY <1>1 DEF ConnOnce
<1>2. ASSUME NEW n \in Node, NEW t \in tasks[n], Handles(n, t)
      PROVE  \A e \in Node : ConnOnce(e)'
  <2>1. \A e \in Node : e # n => ConnOnce(e)'
    BY <1>2, OwnRow DEF ConnOnce
  <2>2. ConnOnce(n)'
    <3>1. CASE tasks'[n] = tasks[n]
      BY <3>1 DEF ConnOnce
    <3>2. QED  BY <1>1, <1>2, <3>1, OwnTasks
  <2>3. QED  BY <2>1, <2>2
<1>3. ASSUME NEW s \in Node, NEW n \in Node, Receive(s, n)  PROVE \A e \in Node : ConnOnce(e)'
  <2>1. IsIdle(n, s) /\ \A r : NewTask(n, s, r).conn = s
    BY <1>3 DEF Receive, ReceiveR, NewTask
  <2>2. UNCHANGED tasks \/ \E r : tasks' = [tasks EXCEPT ![n] = @ \cup {NewTask(n, s, r)}]
    BY <1>3 DEF Receive, ReceiveR, rvars
  <2>3. CASE UNCHANGED tasks
    BY <2>3 DEF ConnOnce
  <2>4. ASSUME NEW r, tasks' = [tasks EXCEPT ![n] = @ \cup {NewTask(n, s, r)}]
        PROVE  \A e \in Node : ConnOnce(e)'
    <3>1. \A e \in Node : e # n => tasks'[e] = tasks[e]
      BY <1>0, <2>4
    <3>2. tasks'[n] = tasks[n] \cup {NewTask(n, s, r)}
      BY <1>0, <2>4
    <3>3. ConnOnce(n)'
      BY <2>1, <3>2 DEF ConnOnce, IsIdle
    <3>4. QED  BY <3>1, <3>3 DEF ConnOnce
  <2>5. QED  BY <2>2, <2>3, <2>4
<1>4. ASSUME NEW n \in Node, NEW t \in tasks[n], RelayTask(n, t)
      PROVE  \A e \in Node : ConnOnce(e)'
  <2>1. At(t, "route", t.local).conn = t.conn
    BY <1>0 DEF At, Task
  <2>2. tasks' = [tasks EXCEPT ![n] = (@ \ {t}) \cup {At(t, "route", t.local)}]
    BY <1>4 DEF RelayTask, Relay, GoTo
  <2>3. \A e \in Node : e # n => tasks'[e] = tasks[e]
    BY <1>0, <2>2
  <2>4. tasks'[n] = (tasks[n] \ {t}) \cup {At(t, "route", t.local)}
    BY <1>0, <2>2
  <2>5. ConnOnce(n)'
    BY <1>1, <2>1, <2>4
  <2>6. QED  BY <2>3, <2>5 DEF ConnOnce
<1>5. ASSUME NEW n \in Node, Crash(n)  PROVE \A e \in Node : ConnOnce(e)'
  BY <1>0, <1>5 DEF Crash, RCrash, ConnOnce
<1>6. ASSUME \/ \E n \in Node, m \in Msg : AskGroup(n, m) \/ RecheckVotes(n, m)
             \/ \E n \in Node : CollectVote(n) \/ ReceiveMemberUpdate(n)
             \/ \E s, n \in Node : ReceiveVote(s, n) \/ Reset(s, n)
             \/ UNCHANGED vars
      PROVE  \A e \in Node : ConnOnce(e)'
  <2>1. UNCHANGED tasks
    BY <1>6 DEF AskGroup, RecheckVotes, CollectVote, ReceiveMemberUpdate, ReceiveVote, Reset,
                vars, rvars
  <2>2. QED  BY <2>1 DEF ConnOnce
<1>7. QED  BY <1>2, <1>3, <1>4, <1>5, <1>6 DEF Next, HandleConn, CollectVotes, Handles

\* The lock is held while a goroutine delivers, and by that one.
LEMMA LockStep ==
  ASSUME OnceInv, [Next]_vars, \A n \in Node : ConnOnce(n) /\ LockHeld(n)
  PROVE  \A n \in Node : LockHeld(n)'
<1>1. CASE Idle
  BY <1>1 DEF Idle, SameRows, LockHeld
<1>2. ASSUME NEW n \in Node, NEW t \in tasks[n], Handles(n, t)
      PROVE  \A e \in Node : LockHeld(e)'
  <2>0. holdQueueLocker \in [Node -> SUBSET Node] /\ holdQueue \in [Node -> SUBSET Item]
    BY DEF OnceInv, TypeInv, TOTypeOK
  <2>1. \A e \in Node : e # n => LockHeld(e)'
    BY <1>2, OwnRow DEF LockHeld, SameRows
  <2>2. CASE UNCHANGED holdQueueLocker /\ ~UpdateItem(n, t)
    BY <1>2, <2>1, <2>2, OwnTasks DEF LockHeld
  <2>3. CASE UpdateItem(n, t)
    <3>1. holdQueueLocker[n] = {} /\ \A u \in tasks[n] : u.pc # "drain"
      BY <2>3 DEF UpdateItem, LockHeld
    <3>2. CASE UNCHANGED holdQueueLocker /\ Return(n, t)
      <4>1. tasks'[n] \subseteq tasks[n]
        BY <3>2 DEF Return, OnceInv, TypeInv, RTypeOK
      <4>2. QED  BY <2>1, <3>1, <3>2, <4>1 DEF LockHeld
    <3>3. CASE holdQueueLocker' = [holdQueueLocker EXCEPT ![n] = {t.conn}] /\ GoTo(n, t, "drain", t.local)
      <4>1. holdQueueLocker'[n] = {t.conn}
        BY <2>0, <3>3
      <4>2. \A u \in tasks'[n] : u \in tasks[n] \/ u.conn = t.conn
        BY <1>2, OwnTasks
      <4>3. QED  BY <2>1, <3>1, <4>1, <4>2 DEF LockHeld
    <3>4. QED  BY <2>3, <3>2, <3>3 DEF UpdateItem
  <2>4. CASE Stop(n, t)
    <3>1. holdQueueLocker[n] = {t.conn} /\ Return(n, t)
      BY <2>4 DEF Stop, IsAt, LockHeld
    <3>2. \A u \in tasks[n] : u.pc = "drain" => u = t
      BY <3>1 DEF LockHeld, ConnOnce
    <3>3. tasks'[n] = tasks[n] \ {t}
      BY <3>1 DEF Return, OnceInv, TypeInv, RTypeOK
    <3>4. QED  BY <2>1, <3>2, <3>3 DEF LockHeld
  <2>5. QED
    BY <1>2, <2>2, <2>3, <2>4
    DEF Handles, Propose, PushAndReply, Agree, Deliver
<1>3. QED  BY <1>1, <1>2, StepKinds
-----------------------------------------------------------------------------
(***************************************************************************)
(* NothingDeliverableWaits.                                                *)
(***************************************************************************)
Waiting(n) ==
  \A i \in holdQueue[n] :
    holdQueueLocker[n] = {} /\ crashNodeTimeout[n] = {} /\ IsPeek(n, i) => ~i.agreed

\* Two items that may both be the head of the queue are both agreed, or neither
\* is (Less, to_hold_queue_item.go:34-48).
LEMMA HeadsAlike ==
  ASSUME holdQueue \in [Node -> SUBSET Item], NEW n \in Node,
         NEW i, NEW j, IsPeek(n, i), IsPeek(n, j)
  PROVE  i.agreed = j.agreed
<1>1. /\ i \in holdQueue[n] /\ j \in holdQueue[n] /\ ~Less(i, j) /\ ~Less(j, i)
      /\ i \in Item /\ j \in Item
  BY DEF IsPeek
<1>2. i.seq \in Nat /\ j.seq \in Nat /\ i.agreed \in BOOLEAN /\ j.agreed \in BOOLEAN
  BY <1>1 DEF Item
<1>3. i.seq = j.seq
  BY <1>1, <1>2 DEF Less
<1>4. ~(~i.agreed /\ j.agreed) /\ ~(~j.agreed /\ i.agreed)
  BY <1>1, <1>3 DEF Less
<1>5. QED  BY <1>2, <1>4

\* The loop over the queue ends at an item that is not agreed, and what is
\* pushed later is not agreed either.
LEMMA WaitingStep ==
  ASSUME OnceInv, [Next]_vars, \A n \in Node : LockHeld(n) /\ Waiting(n)
  PROVE  \A n \in Node : Waiting(n)'
<1>0. /\ holdQueue \in [Node -> SUBSET Item] /\ holdQueueLocker \in [Node -> SUBSET Node]
      /\ crashNodeTimeout \in [Node -> SUBSET Node]
  BY DEF OnceInv, TypeInv, TOTypeOK
<1>1. ASSUME NEW n \in Node, holdQueue'[n] = holdQueue[n],
             holdQueueLocker'[n] = {} => holdQueueLocker[n] = {},
             crashNodeTimeout'[n] = crashNodeTimeout[n]
      PROVE  Waiting(n)'
  BY <1>1 DEF Waiting, IsPeek
<1>2. CASE Idle
  BY <1>1, <1>2 DEF Idle, SameRows
<1>3. ASSUME NEW n \in Node, NEW t \in tasks[n], Handles(n, t)  PROVE Waiting(n)'
  <2>1. CASE Propose(n, t) \/ Agree(n, t)
    BY <1>1, <2>1 DEF Propose, Agree
  <2>2. CASE PushAndReply(n, t)
    <3> DEFINE item == [id |-> t.rmsg.id, seq |-> t.local, pid |-> Origin[t.rmsg.id], agreed |-> FALSE]
    <3>1. /\ holdQueueLocker[n] = {} /\ UNCHANGED <<holdQueueLocker, crashNodeTimeout>>
          /\ holdQueue' = [holdQueue EXCEPT ![n] = @ \cup {item}]
      BY <2>2 DEF PushAndReply
    <3>2. ~item.agreed
      OBVIOUS
    <3> HIDE DEF item
    <3>3. holdQueue'[n] = holdQueue[n] \cup {item}
      BY <1>0, <3>1
    <3>4. ASSUME NEW i \in holdQueue'[n], IsPeek(n, i)', i.agreed, crashNodeTimeout[n] = {}
          PROVE  FALSE
      <4>1. i \in holdQueue[n] /\ IsPeek(n, i)
        BY <3>2, <3>3, <3>4 DEF IsPeek
      <4>2. QED  BY <3>1, <3>4, <4>1 DEF Waiting
    <3>5. QED  BY <3>1, <3>4 DEF Waiting
  <2>3. CASE UpdateItem(n, t)
    <3>1. CASE UNCHANGED <<holdQueue, holdQueueLocker>>
      BY <1>1, <2>3, <3>1 DEF UpdateItem
    <3>2. CASE holdQueueLocker' = [holdQueueLocker EXCEPT ![n] = {t.conn}]
      <4>1. holdQueueLocker'[n] # {}
        BY <1>0, <3>2
      <4>2. QED  BY <4>1 DEF Waiting
    <3>3. QED  BY <2>3, <3>1, <3>2 DEF UpdateItem
  <2>4. CASE Deliver(n, t)
    <3>1. holdQueueLocker[n] # {} /\ UNCHANGED holdQueueLocker
      BY <2>4 DEF Deliver, IsAt, LockHeld
    <3>2. QED  BY <3>1 DEF Waiting
  <2>5. CASE Stop(n, t)
    <3>1. CASE holdQueue[n] = {} /\ UNCHANGED holdQueue
      BY <3>1 DEF Waiting
    <3>2. ASSUME NEW i \in holdQueue[n], IsPeek(n, i), ~i.agreed, UNCHANGED holdQueue
          PROVE  Waiting(n)'
      BY <1>0, <3>2, HeadsAlike DEF Waiting, IsPeek
    <3>3. CASE crashNodeTimeout'[n] # {}
      BY <3>3 DEF Waiting
    <3>4. \/ holdQueue[n] = {} /\ UNCHANGED holdQueue
          \/ \E i \in holdQueue[n] : IsPeek(n, i) /\ ~i.agreed /\ UNCHANGED holdQueue
          \/ crashNodeTimeout'[n] # {}
      BY <1>0, <2>5 DEF Stop
    <3>5. QED  BY <3>1, <3>2, <3>3, <3>4
  <2>6. QED  BY <1>3, <2>1, <2>2, <2>3, <2>4, <2>5 DEF Handles
<1>4. ASSUME NEW n \in Node, NEW t \in tasks[n], Handles(n, t), NEW e \in Node, e # n
      PROVE  Waiting(e)'
  BY <1>1, <1>4, OwnRow DEF SameRows
<1>5. QED  BY <1>2, <1>3, <1>4, StepKinds

QueueInv ==
  /\ OnceInv
  /\ \A n \in Node : ConnOnce(n) /\ LockHeld(n) /\ Waiting(n)

\* Nothing that can be delivered is left behind, whatever faults happen: while
\* no handler is delivering, an agreed message waits only behind one that is
\* not (total_ording.go:260-296).
THEOREM NothingDeliverableWaitsHolds == Spec => []NothingDeliverableWaits
<1>1. Init => QueueInv
  <2> SUFFICES ASSUME Init  PROVE QueueInv
    OBVIOUS
  <2>1. \A n \in Node : tasks[n] = {} /\ holdQueue[n] = {}
    BY DEF Init, RInit
  <2>2. QED  BY <2>1, OnceInit DEF QueueInv, ConnOnce, LockHeld, Waiting
<1>2. QueueInv /\ [Next]_vars => QueueInv'
  BY OnceStep, ConnStep, LockStep, WaitingStep DEF QueueInv
<1>3. QueueInv => NothingDeliverableWaits
  BY DEF QueueInv, OnceInv, TypeInv, BTypeOK, Waiting, NothingDeliverableWaits
<1>4. QED  BY <1>1, <1>2, <1>3, PTL DEF Spec
-----------------------------------------------------------------------------
(***************************************************************************)
(* What a node knows of agreed numbers.                                    *)
(***************************************************************************)

\* The vote that an agreed item carries the number of (Update).
VoteOf(i) == ProposalItem(i.pid, i.id, i.seq)

\* Node n has received the announcement of v, and is past its number.
Known(n, v) ==
  TOAnnounceAgreementSeqMsg(v) \in received[n] /\ v.seq <= maxAgreementSeqNumOfGroup[n]

\* What is agreed in the queue, and what was delivered, was announced.
Agreements(n) ==
  /\ \A i \in holdQueue[n] : i.agreed => Known(n, VoteOf(i))
  /\ \A x \in Range(delivered[n]) : Known(n, x)
  /\ \A t \in tasks[n] : t.pc \in {"update", "drain"} =>
       t.rmsg.path = AnnounceAgreementSeqPath /\ t.rmsg.seq <= maxAgreementSeqNumOfGroup[n]

\* A number that is proposed is beyond those delivered, unless a message was
\* delivered between the proposal and the push.
PushesAhead(n) ==
  \A t \in tasks[n], x \in Range(delivered[n]) :
    t.pc = "push" => x.seq < t.local \/ t.rmsg.id \in overtaken[n]

AgreeInv ==
  /\ OnceInv
  /\ \A n \in Node : Agreements(n) /\ PushesAhead(n)

\* What a task announces is a vote that was announced.
LEMMA TaskVote ==
  ASSUME OnceInv, NEW n \in Node, NEW t \in tasks[n], t.rmsg.path = AnnounceAgreementSeqPath
  PROVE  \E v \in Vote : /\ t.rmsg = TOAnnounceAgreementSeqMsg(v) /\ Announced(v)
                         /\ TOAnnounceAgreementSeqMsg(v) \in received[n]
                         /\ v.id = t.rmsg.id /\ v.seq = t.rmsg.seq /\ v.pid = t.rmsg.pid
<1>1. t.rmsg \in received[n] /\ TypeInv
  BY DEF OnceInv, TasksOnce
<1>2. t.rmsg \in Announcements
  BY <1>1 DEF Announcements
<1>3. QED  BY <1>1, <1>2, AnnouncementVote

\* The largest agreed number only grows.
LEMMA AgreementGrows ==
  ASSUME OnceInv, [Next]_vars, NEW n \in Node
  PROVE  /\ maxAgreementSeqNumOfGroup[n] \in Nat /\ maxAgreementSeqNumOfGroup'[n] \in Nat
         /\ maxAgreementSeqNumOfGroup[n] <= maxAgreementSeqNumOfGroup'[n]
         /\ received[n] \subseteq received'[n]
<1>0. /\ maxAgreementSeqNumOfGroup \in [Node -> Nat] /\ maxAgreementSeqNumOfGroup' \in [Node -> Nat]
  BY OnceStep DEF OnceInv, TypeInv, TOTypeOK
<1>1. PICK k, l : k = maxAgreementSeqNumOfGroup[n] /\ l = maxAgreementSeqNumOfGroup'[n]
  OBVIOUS
<1>2. k \in Nat /\ l \in Nat
  BY <1>0, <1>1
<1>3. CASE Idle
  BY <1>1, <1>2, <1>3 DEF Idle, SameRows
<1>4. ASSUME NEW e \in Node, NEW t \in tasks[e], Handles(e, t)
      PROVE  k <= l /\ received[n] \subseteq received'[n]
  <2>1. e # n => k = l
    BY <1>1, <1>4, OwnRow DEF SameRows
  <2>2. Agree(n, t) => l = MaxUint64(k, t.rmsg.seq)
    BY <1>0, <1>1 DEF Agree
  <2>3. Agree(e, t) => t.rmsg.seq \in Nat
    BY TaskMessage DEF Agree, IsAt, OnceInv, TypeInv
  <2>4. ~Agree(e, t) => k = l
    BY <1>1, <1>4 DEF Handles, Propose, PushAndReply, UpdateItem, Deliver, Stop
  <2>5. Agree(e, t) => k <= l
    BY <1>2, <2>1, <2>2, <2>3 DEF MaxUint64
  <2>6. QED  BY <1>2, <1>4, <2>4, <2>5, OwnRow
<1>5. QED  BY <1>1, <1>2, <1>3, <1>4, StepKinds

\* So what is known stays known.
LEMMA KnownKept ==
  ASSUME OnceInv, [Next]_vars, NEW n \in Node, NEW v, v.seq \in Nat, Known(n, v)
  PROVE  Known(n, v)'
<1>1. TOAnnounceAgreementSeqMsg(v) \in received'[n]
  BY AgreementGrows DEF Known
<1>2. v.seq <= maxAgreementSeqNumOfGroup'[n]
  BY AgreementGrows DEF Known
<1>3. QED  BY <1>1, <1>2 DEF Known, TOAnnounceAgreementSeqMsg

\* The items and the deliveries of a node have numbers.
LEMMA ItemTypes ==
  ASSUME OnceInv, NEW n \in Node
  PROVE  /\ holdQueue[n] \subseteq Item /\ Range(delivered[n]) \subseteq Vote
         /\ \A i \in Item : /\ VoteOf(i) \in Vote /\ VoteOf(i).id = i.id
                            /\ VoteOf(i).seq = i.seq /\ VoteOf(i).pid = i.pid
                            /\ i.seq \in Nat /\ i.pid \in Node /\ i.id \in Msg
                            /\ i.agreed \in BOOLEAN
         /\ \A x \in Vote : x.seq \in Nat /\ x.pid \in Node /\ x.id \in Msg
<1>1. holdQueue[n] \subseteq Item /\ delivered[n] \in Seq(Vote)
  BY DEF OnceInv, TypeInv, TOTypeOK
<1>2. Range(delivered[n]) \subseteq Vote
  BY <1>1, LenProperties, ElementOfSeq DEF Range
<1>3. QED  BY <1>1, <1>2 DEF Item, Vote, VoteOf, ProposalItem
-----------------------------------------------------------------------------
(***************************************************************************)
(* Where the items of a hold queue come from, and where they go.           *)
(***************************************************************************)
Pushed(n, i) ==
  \E t \in tasks[n] :
    /\ PushAndReply(n, t)
    /\ i = [id |-> t.rmsg.id, seq |-> t.local, pid |-> Origin[t.rmsg.id], agreed |-> FALSE]
    /\ holdQueue'[n] = holdQueue[n] \cup {i}

Updated(n, j, i) ==
  \E t \in tasks[n] :
    /\ UpdateItem(n, t)
    /\ t.pc = "update" /\ t.rmsg.path = AnnounceAgreementSeqPath /\ j.id = t.rmsg.id
    /\ i = [id |-> t.rmsg.id, seq |-> t.rmsg.seq, pid |-> t.rmsg.pid, agreed |-> TRUE]
    /\ holdQueue'[n] = (holdQueue[n] \ {j}) \cup {i}

Delivers(n, i) ==
  /\ IsPeek(n, i) /\ i.agreed
  /\ holdQueue'[n] = holdQueue[n] \ {i}
  /\ delivered'[n] = Append(delivered[n], VoteOf(i))
  /\ overtaken'[n] = overtaken[n] \cup NotYetPushed(n, i.seq)

Drops(n, i) ==
  ~i.agreed /\ ~IsNodeAlived(n, i.pid) /\ holdQueue'[n] = holdQueue[n] \ {i}

\* Nothing else happens to a hold queue; nothing but the head is delivered.
LEMMA QueueSteps ==
  ASSUME OnceInv, [Next]_vars, NEW n \in Node
  PROVE  /\ \/ holdQueue'[n] = holdQueue[n]
            \/ \E i \in holdQueue'[n] : Pushed(n, i)
            \/ \E j \in holdQueue[n], i \in holdQueue'[n] : Updated(n, j, i)
            \/ \E i \in holdQueue[n] : Delivers(n, i) \/ Drops(n, i)
         /\ \/ delivered'[n] = delivered[n] /\ overtaken'[n] = overtaken[n]
            \/ \E i \in holdQueue[n] : Delivers(n, i)
<1> DEFINE Items == \/ holdQueue'[n] = holdQueue[n]
                    \/ \E i \in holdQueue'[n] : Pushed(n, i)
                    \/ \E j \in holdQueue[n], i \in holdQueue'[n] : Updated(n, j, i)
                    \/ \E i \in holdQueue[n] : Delivers(n, i) \/ Drops(n, i)
           Ends == delivered'[n] = delivered[n] /\ overtaken'[n] = overtaken[n]
<1>0. holdQueue \in [Node -> SUBSET Item]
      /\ delivered \in [Node -> Seq(Vote)] /\ overtaken \in [Node -> SUBSET Msg]
  BY DEF OnceInv, TypeInv, TOTypeOK
<1>1. CASE Idle
  BY <1>1 DEF Idle, SameRows
<1>2. ASSUME NEW e \in Node, NEW t \in tasks[e], Handles(e, t), e # n  PROVE Items /\ Ends
  BY <1>2, OwnRow DEF SameRows
<1>3. ASSUME NEW t \in tasks[n], Propose(n, t) \/ Agree(n, t)  PROVE Items /\ Ends
  BY <1>3 DEF Propose, Agree
<1>4. ASSUME NEW t \in tasks[n], PushAndReply(n, t)  PROVE Items /\ Ends
  <2>1. PICK i : i = [id |-> t.rmsg.id, seq |-> t.local, pid |-> Origin[t.rmsg.id], agreed |-> FALSE]
    OBVIOUS
  <2>2. holdQueue' = [holdQueue EXCEPT ![n] = @ \cup {i}]
    BY <1>4, <2>1 DEF PushAndReply
  <2>3. holdQueue'[n] = holdQueue[n] \cup {i}
    BY <1>0, <2>2
  <2>4. Pushed(n, i)
    BY <1>4, <2>1, <2>3 DEF Pushed
  <2>5. QED  BY <1>4, <2>3, <2>4 DEF PushAndReply
<1>5. ASSUME NEW t \in tasks[n], UpdateItem(n, t)  PROVE Items /\ Ends
  <2>1. ASSUME NEW j \in holdQueue[n], j.id = t.rmsg.id,
               holdQueue' = [holdQueue EXCEPT ![n] = (@ \ {j}) \cup {Update(j, t.rmsg)}]
        PROVE  Items
    <3>1. PICK i : i = [id |-> t.rmsg.id, seq |-> t.rmsg.seq, pid |-> t.rmsg.pid, agreed |-> TRUE]
      OBVIOUS
    <3>2. Update(j, t.rmsg) = i
      <4>1. j \in [id : Msg, seq : Nat, pid : Node, agreed : BOOLEAN]
        BY <1>0 DEF Item
      <4>2. Update(j, t.rmsg) \in [id : {t.rmsg.id}, seq : {t.rmsg.seq}, pid : {t.rmsg.pid}, agreed : {TRUE}]
        BY <2>1, <4>1 DEF Update
      <4>3. QED  BY <3>1, <4>2
    <3>3. holdQueue'[n] = (holdQueue[n] \ {j}) \cup {i}
      BY <1>0, <2>1, <3>2
    <3>4. Updated(n, j, i)
      BY <1>5, <2>1, <3>1, <3>3 DEF Updated, UpdateItem, IsAt
    <3>5. QED  BY <3>3, <3>4
  <2>2. Items
    BY <1>5, <2>1 DEF UpdateItem
  <2>3. QED  BY <1>5, <2>2 DEF UpdateItem
<1>6. ASSUME NEW t \in tasks[n], Deliver(n, t)  PROVE \E i \in holdQueue[n] : Delivers(n, i)
  <2>1. PICK i \in holdQueue[n] :
          /\ IsPeek(n, i) /\ i.agreed
          /\ holdQueue' = [holdQueue EXCEPT ![n] = Pop(n, i)]
          /\ delivered' = [delivered EXCEPT ![n] = Append(@, VoteOf(i))]
          /\ overtaken' = [overtaken EXCEPT ![n] = @ \cup NotYetPushed(n, i.seq)]
    BY <1>6 DEF Deliver, VoteOf
  <2>2. Delivers(n, i)
    BY <1>0, <2>1 DEF Delivers, Pop
  <2>3. QED  BY <2>2
<1>7. ASSUME NEW t \in tasks[n], Stop(n, t)  PROVE Items /\ Ends
  <2>1. \/ UNCHANGED holdQueue
        \/ \E i \in holdQueue[n] :
             /\ ~i.agreed /\ ~IsNodeAlived(n, i.pid)
             /\ holdQueue' = [holdQueue EXCEPT ![n] = Pop(n, i)]
    BY <1>7 DEF Stop
  <2>2. Items
    BY <1>0, <2>1 DEF Pop, Drops
  <2>3. QED  BY <1>7, <2>2 DEF Stop
<1>8. ASSUME NEW t \in tasks[n], Handles(n, t)
      PROVE  Items /\ (Ends \/ \E i \in holdQueue[n] : Delivers(n, i))
  BY <1>3, <1>4, <1>5, <1>6, <1>7, <1>8 DEF Handles
<1>9. QED  BY <1>1, <1>2, <1>8, StepKinds

\* What is delivered was held, or had been delivered.
LEMMA RangeDelivers ==
  ASSUME OnceInv, NEW n \in Node, NEW i \in holdQueue[n], Delivers(n, i)
  PROVE  Range(delivered'[n]) = Range(delivered[n]) \cup {VoteOf(i)}
<1>1. delivered[n] \in Seq(Vote) /\ VoteOf(i) \in Vote
  BY ItemTypes DEF OnceInv, TypeInv, TOTypeOK
<1>2. QED  BY <1>1, RangeAppend DEF Delivers

\* Every step keeps what a node knows of agreed numbers.
LEMMA AgreeStep == AgreeInv /\ [Next]_vars => AgreeInv'
<1> SUFFICES ASSUME AgreeInv, [Next]_vars  PROVE AgreeInv'
  OBVIOUS
<1>0. OnceInv /\ OnceInv'
  BY OnceStep DEF AgreeInv
<1>1. ASSUME NEW n \in Node, NEW i \in holdQueue'[n], i.agreed  PROVE Known(n, VoteOf(i))'
  <2>1. VoteOf(i) \in Vote
    BY <1>0, <1>1, ItemTypes DEF OnceInv, TypeInv, TOTypeOK
  <2>2. ASSUME i \in holdQueue[n]  PROVE Known(n, VoteOf(i))'
    <3>1. Known(n, VoteOf(i))
      BY <1>1, <2>2 DEF AgreeInv, Agreements
    <3>2. VoteOf(i).seq \in Nat
      BY <2>1 DEF Vote
    <3>3. PICK v : v = VoteOf(i)
      OBVIOUS
    <3>4. Known(n, v)'
      BY <1>0, <3>1, <3>2, <3>3, KnownKept
    <3>5. QED  BY <3>3, <3>4
  <2>3. ASSUME NEW j \in holdQueue[n], Updated(n, j, i)  PROVE Known(n, VoteOf(i))'
    <3>1. PICK t \in tasks[n] :
            /\ UpdateItem(n, t) /\ t.pc = "update" /\ t.rmsg.path = AnnounceAgreementSeqPath
            /\ i = [id |-> t.rmsg.id, seq |-> t.rmsg.seq, pid |-> t.rmsg.pid, agreed |-> TRUE]
      BY <2>3 DEF Updated
    <3>2. PICK v \in Vote : /\ v.id = t.rmsg.id /\ v.seq = t.rmsg.seq /\ v.pid = t.rmsg.pid
                            /\ TOAnnounceAgreementSeqMsg(v) \in received[n]
      BY <1>0, <3>1, TaskVote
    <3>3. v = VoteOf(i)
      BY <2>1, <3>1, <3>2 DEF VoteOf, ProposalItem, Vote
    <3>4. v.seq <= maxAgreementSeqNumOfGroup[n] /\ v.seq \in Nat
      BY <3>1, <3>2 DEF AgreeInv, Agreements, Vote
    <3>5. Known(n, v)'
      BY <1>0, <3>2, <3>4, KnownKept DEF Known
    <3>6. QED  BY <3>3, <3>5
  <2>4. CASE i \notin holdQueue[n]
    <3>1. ASSUME NEW k, Pushed(n, k)  PROVE i \in holdQueue[n] \/ ~i.agreed
      BY <3>1 DEF Pushed
    <3>2. ASSUME NEW j, NEW k, Updated(n, j, k)  PROVE i \in holdQueue[n] \/ i = k
      BY <3>2 DEF Updated
    <3>3. ASSUME NEW k, Delivers(n, k) \/ Drops(n, k)  PROVE i \in holdQueue[n]
      BY <3>3 DEF Delivers, Drops
    <3>4. QED  BY <1>0, <1>1, <2>3, <2>4, <3>1, <3>2, <3>3, QueueSteps
  <2>5. QED  BY <2>2, <2>4
<1>2. ASSUME NEW n \in Node, NEW x \in Range(delivered'[n])  PROVE Known(n, x)'
  <2>1. CASE x \in Range(delivered[n])
    <3>1. Known(n, x) /\ x.seq \in Nat
      BY <1>0, <2>1, ItemTypes DEF AgreeInv, Agreements
    <3>2. QED  BY <1>0, <3>1, KnownKept
  <2>2. ASSUME NEW i \in holdQueue[n], Delivers(n, i), x = VoteOf(i)  PROVE Known(n, x)'
    <3>1. Known(n, x) /\ x.seq \in Nat
      BY <1>0, <2>2, ItemTypes DEF AgreeInv, Agreements, Delivers
    <3>2. QED  BY <1>0, <3>1, KnownKept
  <2>3. QED  BY <1>0, <1>2, <2>1, <2>2, QueueSteps, RangeDelivers
<1>3. ASSUME NEW n \in Node, NEW u \in tasks'[n], u.pc \in {"update", "drain"}
      PROVE  u.rmsg.path = AnnounceAgreementSeqPath /\ u.rmsg.seq <= maxAgreementSeqNumOfGroup'[n]
  <2>1. ASSUME NEW t \in tasks[n], t.pc \in {"update", "drain"}, u.rmsg = t.rmsg
        PROVE  u.rmsg.path = AnnounceAgreementSeqPath /\ u.rmsg.seq <= maxAgreementSeqNumOfGroup'[n]
    <3>1. t.rmsg.path = AnnounceAgreementSeqPath /\ t.rmsg.seq <= maxAgreementSeqNumOfGroup[n]
      BY <2>1 DEF AgreeInv, Agreements
    <3>2. t.rmsg.seq \in Nat
      BY <1>0, <3>1, TaskMessage DEF OnceInv, TypeInv
    <3>3. QED  BY <1>0, <2>1, <3>1, <3>2, AgreementGrows
  <2>2. CASE u \in tasks[n]
    BY <1>3, <2>1, <2>2
  <2>3. ASSUME NEW t \in tasks[n], Agree(n, t), u.rmsg = t.rmsg
        PROVE  u.rmsg.path = AnnounceAgreementSeqPath /\ u.rmsg.seq <= maxAgreementSeqNumOfGroup'[n]
    <3>1. t.rmsg.path = AnnounceAgreementSeqPath
      BY <2>3 DEF Agree, IsAt
    <3>2. t.rmsg.seq \in Nat /\ maxAgreementSeqNumOfGroup \in [Node -> Nat]
      BY <1>0, <3>1, TaskMessage DEF OnceInv, TypeInv, TOTypeOK
    <3>3. maxAgreementSeqNumOfGroup'[n] = MaxUint64(maxAgreementSeqNumOfGroup[n], t.rmsg.seq)
      BY <2>3, <3>2 DEF Agree
    <3>4. QED  BY <2>3, <3>1, <3>2, <3>3 DEF MaxUint64
  <2>4. ASSUME NEW t \in tasks[n], UpdateItem(n, t), u.rmsg = t.rmsg
        PROVE  u.rmsg.path = AnnounceAgreementSeqPath /\ u.rmsg.seq <= maxAgreementSeqNumOfGroup'[n]
    BY <2>1, <2>4 DEF UpdateItem, IsAt
  <2>5. CASE Idle
    BY <1>3, <2>2, <2>5 DEF Idle
  <2>6. ASSUME NEW e \in Node, NEW t \in tasks[e], Handles(e, t)
        PROVE  \/ u \in tasks[n]
               \/ \E v \in tasks[n] : u.rmsg = v.rmsg /\ (Agree(n, v) \/ UpdateItem(n, v))
    <3>1. CASE e # n
      BY <1>0, <1>3, <2>6, <3>1, OwnRow
    <3>2. CASE e = n
      BY <1>0, <1>3, <2>6, <3>2, OwnTasks
    <3>3. QED  BY <3>1, <3>2
  <2>7. QED  BY <1>0, <2>2, <2>3, <2>4, <2>5, <2>6, StepKinds
<1>4. ASSUME NEW n \in Node  PROVE PushesAhead(n)'
  <2>1. overtaken[n] \subseteq overtaken'[n]
    BY <1>0, QueueSteps DEF Delivers
  <2>2. ASSUME NEW u \in tasks[n], NEW x \in Range(delivered'[n]), u.pc = "push"
        PROVE  x.seq < u.local \/ u.rmsg.id \in overtaken'[n]
    <3>1. CASE x \in Range(delivered[n])
      BY <2>1, <2>2, <3>1 DEF AgreeInv, PushesAhead
    <3>2. ASSUME NEW i \in holdQueue[n], Delivers(n, i), x = VoteOf(i)
          PROVE  x.seq < u.local \/ u.rmsg.id \in overtaken'[n]
      <4>1. x.seq = i.seq /\ i.seq \in Nat /\ u.local \in Nat
        BY <1>0, <3>2, ItemTypes, TaskMessage DEF OnceInv, TypeInv
      <4>2. u.local <= i.seq => u.rmsg.id \in NotYetPushed(n, i.seq)
        BY <2>2 DEF NotYetPushed
      <4>3. QED  BY <3>2, <4>1, <4>2 DEF Delivers
    <3>3. QED  BY <1>0, <2>2, <3>1, <3>2, QueueSteps, RangeDelivers
  <2>3. CASE \A u \in tasks'[n] : u.pc = "push" => u \in tasks[n]
    BY <2>2, <2>3 DEF PushesAhead
  <2>4. ASSUME NEW t \in tasks[n], Propose(n, t)  PROVE PushesAhead(n)'
    <3>1. PICK seq : seq = NextProposal(n)
      OBVIOUS
    <3>2. \A u \in tasks'[n] : u.pc = "push" => u \in tasks[n] \/ u.local = seq
      BY <1>0, <2>4, <3>1, ProposeFresh
    <3>3. UNCHANGED delivered
      BY <2>4 DEF Propose
    <3>4. /\ maxAgreementSeqNumOfGroup[n] \in Nat /\ maxProposalSeqNumOfSelf[n] \in Nat
          /\ \A x \in Range(delivered[n]) : x.seq \in Nat /\ x.seq <= maxAgreementSeqNumOfGroup[n]
      BY <1>0, ItemTypes DEF AgreeInv, Agreements, Known, OnceInv, TypeInv, TOTypeOK
    <3>5. seq > maxAgreementSeqNumOfGroup[n] /\ seq \in Nat
      BY <3>1, <3>4 DEF NextProposal, MaxUint64
    <3>6. \A x \in Range(delivered[n]) : x.seq < seq
      BY <3>4, <3>5
    <3>7. QED  BY <2>2, <3>2, <3>3, <3>6 DEF PushesAhead
  <2>5. ASSUME NEW e \in Node, NEW t \in tasks[e], Propose(e, t), e # n
        PROVE  \A u \in tasks'[n] : u.pc = "push" => u \in tasks[n]
    BY <1>0, <2>5, OwnRow DEF Handles
  <2>6. QED  BY <1>0, <2>3, <2>4, <2>5, PushesStay
<1>5. QED  BY <1>0, <1>1, <1>2, <1>3, <1>4 DEF AgreeInv, Agreements

\* Nothing is agreed initially.
LEMMA AgreeInit == Init => AgreeInv
<1> SUFFICES ASSUME Init  PROVE AgreeInv
  OBVIOUS
<1>1. OnceInv /\ \A n \in Node : tasks[n] = {} /\ holdQueue[n] = {} /\ delivered[n] = <<>>
  BY OnceInit DEF Init, RInit
<1>2. Range(<<>>) = {}
  BY DEF Range
<1>3. QED  BY <1>1, <1>2 DEF AgreeInv, Agreements, PushesAhead
-----------------------------------------------------------------------------
(***************************************************************************)
(* As long as nobody was ejected.                                          *)
(***************************************************************************)

\* No member count was published, so none is to be looked at.
Stable == \A n \in Node : memberUpdate[n] = <<>> /\ recheck[n] = {}

\* Ejecting nobody publishes nothing; ejecting somebody is for good.
LEMMA NobodyEjected ==
  ASSUME BTypeOK(BMsg), NEW n \in Node, NEW failed \in SUBSET senders[n], Eject(n, failed),
         NoEjection'
  PROVE  /\ NoEjection
         /\ \A e \in Node : memberUpdate[e] = <<>> => memberUpdate'[e] = <<>>
<1>1. /\ senders \in [Node -> SUBSET Node] /\ memberUpdate \in [Node -> Seq(Int)]
      /\ senders' = [senders EXCEPT ![n] = @ \ failed]
      /\ memberUpdate' = [memberUpdate EXCEPT ![n] = @ \o PublishedCounts(n, failed)]
  BY DEF BTypeOK, Eject
<1>2. /\ senders'[n] = senders[n] \ failed
      /\ \A e \in Node : e # n => senders'[e] = senders[e] /\ memberUpdate'[e] = memberUpdate[e]
      /\ memberUpdate'[n] = memberUpdate[n] \o PublishedCounts(n, failed)
  BY <1>1
<1>3. NoEjection
  BY <1>1, <1>2 DEF NoEjection
<1>4. failed = {}
  BY <1>1, <1>2 DEF NoEjection
<1>5. PublishedCounts(n, failed) = <<>>
  <2>1. Cardinality(failed) = 0
    BY <1>4, FS_EmptySet
  <2>2. PICK count : count = MemberCount(n)
    OBVIOUS
  <2>3. PublishedCounts(n, failed) = [i \in 1 .. 0 |-> count - i]
    BY <2>1, <2>2 DEF PublishedCounts
  <2>4. [i \in 1 .. 0 |-> count - i] = <<>>
    OBVIOUS
  <2>5. QED  BY <2>3, <2>4
<1>6. memberUpdate[n] = <<>> => memberUpdate'[n] = <<>>
  <2>1. <<>> \o <<>> = <<>>
    OBVIOUS
  <2>2. QED  BY <1>2, <1>5, <2>1
<1>7. QED  BY <1>2, <1>3, <1>6

\* Every step is the reading of a count, ejects from one group, or leaves the
\* groups alone.
LEMMA GroupSteps ==
  ASSUME OnceInv, [Next]_vars
  PROVE  \/ UNCHANGED <<senders, memberUpdate>>
         \/ \E n \in Node : \E failed \in SUBSET senders[n] : Eject(n, failed)
         \/ \E n \in Node : ReceiveMemberUpdate(n)
<1> DEFINE Goal == \/ UNCHANGED <<senders, memberUpdate>>
                   \/ \E n \in Node : \E failed \in SUBSET senders[n] : Eject(n, failed)
                   \/ \E n \in Node : ReceiveMemberUpdate(n)
<1>1. ASSUME NEW n \in Node, NEW rmsg, MulticastR(n, rmsg)  PROVE Goal
  BY <1>1 DEF MulticastR, Multicast, Unreachable
<1>2. ASSUME NEW n \in Node, NEW d, NEW msg, Unicast(n, d, msg)  PROVE Goal
  BY <1>2 DEF Unicast, Unreachable
<1>3. ASSUME NEW s \in Node, NEW n \in Node, NEW path, Read(s, n, path)  PROVE Goal
  BY <1>3 DEF Read
<1>4. ASSUME NEW n \in Node, NEW m \in Msg, AskGroup(n, m) \/ RecheckVotes(n, m)  PROVE Goal
  BY <1>1, <1>4 DEF AskGroup, RecheckVotes, AggregateVotesAndMulticast
<1>5. ASSUME NEW n \in Node, CollectVote(n)  PROVE Goal
  BY <1>1, <1>5 DEF CollectVote, AggregateVotesAndMulticast, bvars
<1>6. ASSUME NEW s \in Node, NEW n \in Node, Receive(s, n) \/ ReceiveVote(s, n) \/ Reset(s, n) \/ Crash(n)
      PROVE  Goal
  BY <1>3, <1>6 DEF Receive, ReceiveR, ReceiveVote, Reset, ConnReset, Crash, RCrash, NodeCrash
<1>7. ASSUME NEW n \in Node, NEW t \in tasks[n], RelayTask(n, t) \/ PushAndReply(n, t)  PROVE Goal
  BY <1>1, <1>2, <1>7 DEF RelayTask, Relay, PushAndReply
<1>8. ASSUME NEW n \in Node, NEW t \in tasks[n],
             Propose(n, t) \/ Agree(n, t) \/ UpdateItem(n, t) \/ Deliver(n, t) \/ Stop(n, t)
      PROVE  Goal
  BY <1>8 DEF Propose, Agree, UpdateItem, Deliver, Stop, bvars
<1>9. CASE UNCHANGED vars
  BY <1>9 DEF vars, bvars
<1>10. QED
  BY <1>4, <1>5, <1>6, <1>7, <1>8, <1>9 DEF Next, HandleConn, CollectVotes

\* A group from which nobody was ejected has announced nothing because of a
\* member update, and will not.
LEMMA StableStep ==
  ASSUME OnceInv, [Next]_vars, NoEjection'
  PROVE  NoEjection /\ (Stable => Stable')
<1>0. BTypeOK(BMsg) /\ recheck \in [Node -> SUBSET Msg]
  BY DEF OnceInv, TypeInv, TOTypeOK
<1>1. ASSUME NEW n \in Node, ReceiveMemberUpdate(n)  PROVE UNCHANGED senders /\ ~Stable
  BY <1>1 DEF ReceiveMemberUpdate, Stable
<1>2. UNCHANGED recheck \/ ~Stable
  <2>1. \A n \in Node, m \in Msg : RecheckVotes(n, m) => ~Stable
    BY DEF RecheckVotes, Stable
  <2>2. ASSUME NEW s \in Node, NEW n \in Node, Receive(s, n) \/ ReceiveVote(s, n) \/ Reset(s, n)
        PROVE  UNCHANGED recheck
    BY <2>2 DEF Receive, ReceiveVote, Reset, tovars
  <2>3. ASSUME NEW n \in Node, NEW t \in tasks[n], RelayTask(n, t) \/ Handles(n, t)
        PROVE  UNCHANGED recheck
    BY <2>3 DEF RelayTask, Handles, Propose, PushAndReply, Agree, UpdateItem, Deliver, Stop, tovars
  <2>4. ASSUME NEW n \in Node, CollectVote(n) \/ Crash(n) \/ \E m \in Msg : AskGroup(n, m)
        PROVE  UNCHANGED recheck
    BY <2>4 DEF CollectVote, Crash, AskGroup, tovars
  <2>5. CASE UNCHANGED vars
    BY <2>5 DEF vars, tovars
  <2>6. QED
    BY <1>1, <2>1, <2>2, <2>3, <2>4, <2>5 DEF Next, HandleConn, CollectVotes, Handles
<1>3. CASE UNCHANGED <<senders, memberUpdate>>
  BY <1>2, <1>3 DEF NoEjection, Stable
<1>4. ASSUME NEW n \in Node, NEW failed \in SUBSET senders[n], Eject(n, failed)
      PROVE  NoEjection /\ (Stable => Stable')
  BY <1>0, <1>2, <1>4, NobodyEjected DEF Stable
<1>5. ASSUME NEW n \in Node, ReceiveMemberUpdate(n)  PROVE NoEjection /\ (Stable => Stable')
  BY <1>1, <1>5 DEF NoEjection
<1>6. QED  BY <1>3, <1>4, <1>5, GroupSteps

\* A vote that is on its way, or counted, is the number under which its node
\* holds the message.
VotesHeld ==
  \A v \in Vote : Cast(v) =>
    \E i \in holdQueue[v.pid] : i.id = v.id /\ ~i.agreed /\ i.seq = v.seq

\* A message that is announced has been pushed everywhere, no node has a vote
\* for it on its way, and none holds it with a larger number.
Settled(n, r) ==
  /\ NoVote(n, r.id) /\ Asked(n, r.id)
  /\ r.id \in HeldIds(n) \cup DeliveredIds(n)
  /\ \A i \in holdQueue[n] : i.id = r.id => i.seq <= r.seq

AnnouncedHeld == \A r \in Vote : Announced(r) => \A n \in Node : Settled(n, r)

AnnouncedOnce == \A r, q \in Vote : Announced(r) /\ Announced(q) /\ r.id = q.id => r = q

GroupInv ==
  /\ VoteInv /\ AgreeInv /\ NoEjection
  /\ Stable /\ VotesHeld /\ AnnouncedHeld /\ AnnouncedOnce

\* A vote that is on its way, or counted, is at the place of votes of its node.
LEMMA CastHasVote ==
  ASSUME VoteInv, NEW v \in Vote, Cast(v)
  PROVE  ~NoVote(v.pid, v.id)
<1>0. v.pid \in Node /\ v.id \in Msg /\ v \in VotesOf(v.pid, v.id)
  BY DEF Vote, VotesOf
<1>1. ASSUME NEW s \in Node, NEW d \in Node, VoteFrame(v) \in Range(net[s][d])
      PROVE  Sent(v.pid, v.id) # {}
  <2>1. v.pid = s /\ Origin[v.id] = d
    BY <1>1 DEF VoteInv, VotesPlaced
  <2>2. VoteFrame(v) \in VoteFrames(v.pid, v.id)
    BY <1>0 DEF VoteFrames
  <2>3. PICK i \in DOMAIN net[s][d] : net[s][d][i] = VoteFrame(v)
    BY <1>1 DEF Range
  <2>4. i \in Sent(v.pid, v.id)
    BY <2>1, <2>2, <2>3 DEF Sent, Positions
  <2>5. QED  BY <2>4
<1>2. ASSUME NEW n \in Node, v \in Range(waitVotesChannel[n])  PROVE Queued(v.pid, v.id) # {}
  <2>1. Origin[v.id] = n
    BY <1>2 DEF VoteInv, VotesPlaced
  <2>2. PICK i \in DOMAIN waitVotesChannel[n] : waitVotesChannel[n][i] = v
    BY <1>2 DEF Range
  <2>3. i \in Queued(v.pid, v.id)
    BY <1>0, <2>1, <2>2 DEF Queued, Positions
  <2>4. QED  BY <2>3
<1>3. ASSUME NEW n \in Node, NEW m \in Msg, v \in waitProposalCounter[n][m]
      PROVE  Counted(v.pid, v.id) # {}
  <2>1. v.id = m /\ Origin[m] = n
    BY <1>3 DEF VoteInv, VotesPlaced
  <2>2. v \in Counted(v.pid, v.id)
    BY <1>0, <1>3, <2>1 DEF Counted
  <2>3. QED  BY <2>2
<1>4. QED  BY <1>1, <1>2, <1>3 DEF Cast, NoVote

\* The items of a group that is whole: none is dropped, and one that is agreed
\* has the number announced.
LEMMA WholeQueueSteps ==
  ASSUME GroupInv, [Next]_vars, NEW n \in Node
  PROVE  /\ \/ holdQueue'[n] = holdQueue[n]
            \/ \E i \in holdQueue'[n] : Pushed(n, i)
            \/ \E j \in holdQueue[n], i \in holdQueue'[n] :
                 Updated(n, j, i) /\ Announced(VoteOf(i))
            \/ \E i \in holdQueue[n] : Delivers(n, i)
         /\ \/ delivered'[n] = delivered[n] /\ overtaken'[n] = overtaken[n]
            \/ \E i \in holdQueue[n] : Delivers(n, i)
<1>0. OnceInv
  BY DEF GroupInv, VoteInv
<1>1. ASSUME NEW i \in holdQueue[n], Drops(n, i)  PROVE FALSE
  <2>1. i.pid \in Node
    BY <1>0, ItemTypes
  <2>2. QED  BY <1>1, <2>1 DEF Drops, IsNodeAlived, GroupInv, NoEjection
<1>2. ASSUME NEW j \in holdQueue[n], NEW i, Updated(n, j, i)  PROVE Announced(VoteOf(i))
  <2>1. PICK t \in tasks[n] :
          /\ t.rmsg.path = AnnounceAgreementSeqPath
          /\ i = [id |-> t.rmsg.id, seq |-> t.rmsg.seq, pid |-> t.rmsg.pid, agreed |-> TRUE]
    BY <1>2 DEF Updated
  <2>2. PICK v \in Vote : /\ v.id = t.rmsg.id /\ v.seq = t.rmsg.seq /\ v.pid = t.rmsg.pid
                          /\ Announced(v)
    BY <1>0, <2>1, TaskVote
  <2>3. v = VoteOf(i)
    BY <2>1, <2>2 DEF VoteOf, ProposalItem, Vote
  <2>4. QED  BY <2>2, <2>3
<1>3. QED  BY <1>0, <1>1, <1>2, QueueSteps

\* What is agreed in a queue, or was delivered, was announced.
LEMMA KnownAnnounced ==
  ASSUME AgreeInv, NEW n \in Node
  PROVE  /\ \A i \in holdQueue[n] : i.agreed => VoteOf(i) \in Vote /\ Announced(VoteOf(i))
         /\ \A x \in Range(delivered[n]) : x \in Vote /\ Announced(x)
BY ItemTypes DEF AgreeInv, Agreements, Known, Announced

\* A message stays in the queue until it is delivered.
LEMMA HeldKept ==
  ASSUME GroupInv, [Next]_vars, NEW n \in Node, NEW m, m \in HeldIds(n) \cup DeliveredIds(n)
  PROVE  (m \in HeldIds(n) \cup DeliveredIds(n))'
<1>0. OnceInv
  BY DEF GroupInv, VoteInv
<1>1. m \in (HeldIds(n) \cup DeliveredIds(n))' <=>
        (\E i \in holdQueue'[n] : i.id = m) \/ (\E x \in Range(delivered'[n]) : x.id = m)
  BY DEF HeldIds, DeliveredIds
<1>2. (\E i \in holdQueue[n] : i.id = m) \/ (\E x \in Range(delivered[n]) : x.id = m)
  BY DEF HeldIds, DeliveredIds
<1>3. Range(delivered[n]) \subseteq Range(delivered'[n])
  BY <1>0, WholeQueueSteps, RangeDelivers
<1>4. ASSUME NEW i \in holdQueue[n], i.id = m
      PROVE  (\E j \in holdQueue'[n] : j.id = m) \/ (\E x \in Range(delivered'[n]) : x.id = m)
  <2>1. ASSUME NEW k, Pushed(n, k)  PROVE i \in holdQueue'[n]
    BY <2>1 DEF Pushed
  <2>2. ASSUME NEW j \in holdQueue[n], NEW k \in holdQueue'[n], Updated(n, j, k)
        PROVE  i \in holdQueue'[n] \/ k.id = m
    BY <1>4, <2>2 DEF Updated
  <2>3. ASSUME NEW k \in holdQueue[n], Delivers(n, k)
        PROVE  i \in holdQueue'[n] \/ (VoteOf(k) \in Range(delivered'[n]) /\ VoteOf(k).id = k.id /\ k = i)
    BY <1>0, <2>3, RangeDelivers, ItemTypes DEF Delivers
  <2>4. QED  BY <1>4, <2>1, <2>2, <2>3, WholeQueueSteps
<1>5. (m \in HeldIds(n) \cup DeliveredIds(n))' <=> m \in (HeldIds(n) \cup DeliveredIds(n))'
  BY DEF HeldIds, DeliveredIds
<1>6. QED  BY <1>1, <1>2, <1>3, <1>4

\* A vote is cast together with the push of its message, and no announcement
\* reaches the item while the vote is on its way (total_ording.go:208-216).
LEMMA VotesHeldStep ==
  ASSUME GroupInv, [Next]_vars
  PROVE  VotesHeld'
<1>0. VoteInv /\ OnceInv
  BY DEF GroupInv, VoteInv
<1> SUFFICES ASSUME NEW v \in Vote, Cast(v)'
             PROVE  \E i \in holdQueue'[v.pid] : i.id = v.id /\ ~i.agreed /\ i.seq = v.seq
  BY DEF VotesHeld
<1>1. PICK n \in Node : n = v.pid
  BY DEF Vote
<1>2. CASE PushesVote(v)
  <2>1. PICK t \in tasks[n] : PushAndReply(n, t) /\ SendsVote(n, t, v)
    BY <1>1, <1>2 DEF PushesVote
  <2>2. PICK i : i = [id |-> t.rmsg.id, seq |-> t.local, pid |-> Origin[t.rmsg.id], agreed |-> FALSE]
    OBVIOUS
  <2>3. holdQueue' = [holdQueue EXCEPT ![n] = @ \cup {i}] /\ holdQueue \in [Node -> SUBSET Item]
    BY <1>0, <2>1, <2>2 DEF PushAndReply, OnceInv, TypeInv, TOTypeOK
  <2>4. i \in holdQueue'[n] /\ i.id = v.id /\ ~i.agreed /\ i.seq = v.seq
    BY <2>1, <2>2, <2>3 DEF SendsVote
  <2>5. QED  BY <1>1, <2>4
<1>3. CASE Cast(v)
  <2>1. PICK i \in holdQueue[n] : i.id = v.id /\ ~i.agreed /\ i.seq = v.seq
    BY <1>1, <1>3 DEF GroupInv, VotesHeld
  <2>2. ASSUME NEW j \in holdQueue[n], NEW k, Updated(n, j, k), Announced(VoteOf(k))
        PROVE  j # i
    <3>1. k.id = j.id /\ VoteOf(k).id = k.id
      BY <2>2 DEF Updated, VoteOf, ProposalItem
    <3>2. ASSUME j = i  PROVE FALSE
      <4>1. VoteOf(k) \in Vote
        BY <2>2, <1>0, TaskMessage DEF Updated, VoteOf, ProposalItem, Vote, OnceInv, TypeInv
      <4>2. NoVote(n, v.id)
        BY <2>1, <2>2, <3>1, <3>2, <4>1 DEF GroupInv, AnnouncedHeld, Settled
      <4>3. QED  BY <1>0, <1>1, <1>3, <4>2, CastHasVote
    <3>3. QED  BY <3>2
  <2>3. i \in holdQueue'[n]
    <3>1. ASSUME NEW k, Pushed(n, k)  PROVE i \in holdQueue'[n]
      BY <3>1 DEF Pushed
    <3>2. ASSUME NEW j \in holdQueue[n], NEW k, Updated(n, j, k), Announced(VoteOf(k))
          PROVE  i \in holdQueue'[n]
      BY <2>2, <3>2 DEF Updated
    <3>3. ASSUME NEW k \in holdQueue[n], Delivers(n, k)  PROVE i \in holdQueue'[n]
      BY <2>1, <3>3 DEF Delivers
    <3>4. QED  BY <3>1, <3>2, <3>3, WholeQueueSteps
  <2>4. QED  BY <1>1, <2>1, <2>3
<1>4. QED  BY <1>0, <1>2, <1>3, VotesComeFrom

\* An announcement counts a vote of every node: nobody has two
\* (total_ording.go:110-125, 148-152).
LEMMA EveryNodeVotes ==
  ASSUME GroupInv, NEW n \in Node, NEW m \in Msg, NEW votes, Counting(n, m, votes),
         AggregateVotesAndMulticast(n, m, votes)
  PROVE  \A e \in Node : \E w \in votes : w.pid = e
<1>0. /\ OnceInv /\ votes \in SUBSET Vote /\ IsFiniteSet(votes) /\ votes # {}
      /\ \A w \in votes : w.id = m /\ Cast(w) /\ w.pid \in Node /\ w.seq \in Nat
      /\ waitProposalCounter \in [Node -> [Msg -> SUBSET Vote]]
  BY DEF GroupInv, VoteInv, OnceInv, TypeInv, TOTypeOK, Counting, Vote
<1>1. Enough(votes, MemberCount(n))
  <2>1. waitProposalCounter'[n][m] = {}
    BY <1>0 DEF AggregateVotesAndMulticast
  <2>2. ASSUME waitProposalCounter' = [waitProposalCounter EXCEPT ![n][m] = votes]  PROVE FALSE
    BY <1>0, <2>1, <2>2
  <2>3. recheck[n] = {}
    BY DEF GroupInv, Stable
  <2>4. QED  BY <2>2, <2>3 DEF Counting, CountsOrAnnounces
<1>2. Cardinality(votes) >= Cardinality(Node)
  BY <1>1 DEF Enough, MemberCount, GroupInv, NoEjection
<1>3. \A v, w \in votes : v.pid = w.pid => v = w
  <2> SUFFICES ASSUME NEW v \in votes, NEW w \in votes, v.pid = w.pid  PROVE v = w
    OBVIOUS
  <2>1. PICK i \in holdQueue[v.pid] : i.id = m /\ i.seq = v.seq
    BY <1>0 DEF GroupInv, VotesHeld
  <2>2. PICK j \in holdQueue[v.pid] : j.id = m /\ j.seq = w.seq
    BY <1>0 DEF GroupInv, VotesHeld
  <2>3. i = j
    BY <1>0, <2>1, <2>2 DEF OnceInv, HeldOnce
  <2>4. QED  BY <1>0, <2>1, <2>2, <2>3 DEF Vote
<1>4. SUFFICES ASSUME NEW e \in Node, \A w \in votes : w.pid # e  PROVE FALSE
  OBVIOUS
<1> DEFINE others == Node \ {e}
           f == [w \in votes |-> w.pid]
<1>5. IsFiniteSet(others) /\ Cardinality(others) = Cardinality(Node) - 1 /\ IsFiniteSet(Node)
  BY NodeAssumption, FS_RemoveElement
<1>6. Cardinality(Node) \in Nat /\ Cardinality(votes) \in Nat /\ Cardinality(others) \in Nat
  BY <1>0, <1>5, FS_CardinalityType
<1>7. Cardinality(others) < Cardinality(votes)
  BY <1>2, <1>5, <1>6
<1>8. f \in [votes -> others]
  BY <1>0, <1>4
<1>9. \E v, w \in votes : v # w /\ f[v] = f[w]
  <2> HIDE DEF others, f
  <2>1. QED  BY <1>0, <1>5, <1>7, <1>8, FS_PigeonHole
<1>10. QED  BY <1>3, <1>9

\* What is said of an announcement stays true.
LEMMA SettledKept ==
  ASSUME GroupInv, [Next]_vars, NEW r \in Vote, Announced(r), NEW n \in Node
  PROVE  Settled(n, r)'
<1>0. VoteInv /\ OnceInv /\ r.id \in Msg /\ r.seq \in Nat /\ Settled(n, r)
  BY DEF GroupInv, VoteInv, Vote, AnnouncedHeld
<1>1. NoVote(n, r.id)' /\ TOAskProposalSeqMsg(r.id) \in received'[n]
  BY <1>0, VoteSteps DEF VotesStep, VoteKept, Settled, Asked
<1>2. r.id \in (HeldIds(n) \cup DeliveredIds(n))'
  BY <1>0, HeldKept DEF Settled
<1>3. ASSUME NEW i \in holdQueue'[n], i.id = r.id  PROVE i.seq <= r.seq
  <2>1. CASE i \in holdQueue[n]
    BY <1>0, <1>3, <2>1 DEF Settled
  <2>2. ~Pushed(n, i)
    <3> SUFFICES ASSUME NEW t \in tasks[n], PushAndReply(n, t), t.rmsg.id = r.id  PROVE FALSE
      BY <1>3 DEF Pushed
    <3>1. t.rmsg = TOAskProposalSeqMsg(r.id)
      BY <1>0, TaskMessage DEF PushAndReply, IsAt, OnceInv, TypeInv
    <3>2. t \in Unsent(n, r.id)
      BY <3>1 DEF Unsent
    <3>3. QED  BY <1>0, <3>2 DEF Settled, NoVote
  <2>3. ASSUME NEW j \in holdQueue[n], Updated(n, j, i), Announced(VoteOf(i))
        PROVE  i.seq <= r.seq
    <3>1. i \in Item
      BY <1>0, <1>3, OnceStep DEF OnceInv, TypeInv, TOTypeOK
    <3>2. VoteOf(i) \in Vote /\ VoteOf(i).id = i.id /\ VoteOf(i).seq = i.seq
      BY <1>0, <3>1, ItemTypes
    <3>3. VoteOf(i) = r
      BY <1>3, <2>3, <3>2 DEF GroupInv, AnnouncedOnce
    <3>4. QED  BY <1>0, <3>2, <3>3
  <2>4. ASSUME NEW k, Pushed(n, k)  PROVE i \in holdQueue[n] \/ i = k
    BY <1>3, <2>4 DEF Pushed
  <2>5. ASSUME NEW j, NEW k, Updated(n, j, k)  PROVE i \in holdQueue[n] \/ i = k
    BY <1>3, <2>5 DEF Updated
  <2>6. ASSUME NEW k, Delivers(n, k)  PROVE i \in holdQueue[n]
    BY <1>3, <2>6 DEF Delivers
  <2>7. QED  BY <1>3, <2>1, <2>2, <2>3, <2>4, <2>5, <2>6, WholeQueueSteps
<1>4. QED  BY <1>1, <1>2, <1>3 DEF Settled, Asked, TOAskProposalSeqMsg

\* An announcement is made when every node holds the message, with the number
\* of its vote, and the largest of these is announced.
LEMMA SettledNew ==
  ASSUME GroupInv, [Next]_vars, NEW n \in Node, NEW m \in Msg, NEW votes, Counting(n, m, votes),
         AggregateVotesAndMulticast(n, m, votes), NEW r \in Vote,
         r = MaxOfArrayProposalItem(votes), NEW e \in Node
  PROVE  Settled(e, r)'
<1>0. /\ VoteInv /\ OnceInv /\ votes \in SUBSET Vote /\ IsFiniteSet(votes) /\ votes # {}
      /\ \A w \in votes : w.id = m /\ Cast(w) /\ w.seq \in Nat
      /\ UNCHANGED <<holdQueue, delivered>>
  BY DEF GroupInv, VoteInv, Counting, Vote
<1>1. r \in votes /\ \A w \in votes : ~VoteLess(r, w)
  BY <1>0, MaxVote
<1>2. PICK w \in votes : w.pid = e
  BY EveryNodeVotes
<1>3. NoVote(e, m)' /\ Asked(e, m)
  BY <1>0, <1>2, CountedGone
<1>4. TOAskProposalSeqMsg(m) \in received'[e]
  BY <1>0, <1>3, VoteSteps DEF VotesStep, Asked
<1>5. PICK i \in holdQueue[e] : i.id = m /\ i.seq = w.seq
  BY <1>0, <1>2 DEF GroupInv, VotesHeld
<1>6. w.seq <= r.seq
  BY <1>0, <1>1 DEF VoteLess
<1>7. \A j \in holdQueue'[e] : j.id = m => j.seq <= r.seq
  BY <1>0, <1>5, <1>6 DEF OnceInv, HeldOnce
<1>8. m \in (HeldIds(e) \cup DeliveredIds(e))'
  BY <1>0, <1>5 DEF HeldIds
<1>9. r.id = m
  BY <1>0, <1>1
<1>10. QED  BY <1>3, <1>4, <1>7, <1>8, <1>9 DEF Settled, Asked, TOAskProposalSeqMsg

\* So every announcement is settled.
LEMMA AnnouncedHeldStep ==
  ASSUME GroupInv, [Next]_vars
  PROVE  AnnouncedHeld'
<1> SUFFICES ASSUME NEW r \in Vote, Announced(r)', NEW n \in Node  PROVE Settled(n, r)'
  BY DEF AnnouncedHeld
<1>1. Announced(r) \/ Announces(r)
  BY VotesComeFrom DEF GroupInv
<1>2. QED  BY <1>1, SettledKept, SettledNew DEF Announces

\* Nobody votes for a message that is announced, so it is announced once.
LEMMA AnnouncedOnceStep ==
  ASSUME GroupInv, [Next]_vars
  PROVE  AnnouncedOnce'
<1>0. VoteInv
  BY DEF GroupInv
<1>1. ASSUME NEW r \in Vote, NEW q \in Vote, Announced(r), Announces(q)
      PROVE  r.id # q.id
  <2>1. Cast(q) /\ q.pid \in Node
    BY <1>0, <1>1, VotesWere DEF Vote
  <2>2. ~NoVote(q.pid, q.id)
    BY <1>0, <2>1, CastHasVote
  <2>3. QED  BY <1>1, <2>1, <2>2 DEF GroupInv, AnnouncedHeld, Settled
<1>2. ASSUME NEW r \in Vote, Announces(r), NEW q \in Vote, Announced(q)'
      PROVE  Announced(q) \/ q = r
  <2>1. PICK n \in Node, m \in Msg : \E votes :
          /\ Counting(n, m, votes) /\ AggregateVotesAndMulticast(n, m, votes)
          /\ r = MaxOfArrayProposalItem(votes)
    BY <1>2 DEF Announces
  <2>2. PICK votes :
          /\ Counting(n, m, votes) /\ AggregateVotesAndMulticast(n, m, votes)
          /\ r = MaxOfArrayProposalItem(votes)
    BY <2>1
  <2>3. QED
    BY <1>0, <1>2, <2>2, AnnounceNet DEF Counting, VoteInv, OnceInv
<1>3. ASSUME NEW r \in Vote, NEW q \in Vote, Announced(r)', Announced(q)', r.id = q.id
      PROVE  r = q
  <2>1. (Announced(r) \/ Announces(r)) /\ (Announced(q) \/ Announces(q))
    BY <1>0, <1>3, VotesComeFrom
  <2>2. CASE Announced(r) /\ Announced(q)
    BY <1>3, <2>2 DEF GroupInv, AnnouncedOnce
  <2>3. QED  BY <1>1, <1>2, <1>3, <2>1, <2>2
<1>4. QED  BY <1>3 DEF AnnouncedOnce
-----------------------------------------------------------------------------
(***************************************************************************)
(* AgreementUnique and AnnouncementDominates.                              *)
(***************************************************************************)

\* A step that ejects nobody keeps the group whole.
LEMMA GroupStep == GroupInv /\ [Next]_vars /\ NoEjection' => GroupInv'
<1> SUFFICES ASSUME GroupInv, [Next]_vars, NoEjection'  PROVE GroupInv'
  OBVIOUS
<1>1. VoteInv' /\ AgreeInv'
  BY VoteStep, AgreeStep DEF GroupInv
<1>2. Stable'
  BY StableStep DEF GroupInv, AgreeInv
<1>3. QED
  BY <1>1, <1>2, VotesHeldStep, AnnouncedHeldStep, AnnouncedOnceStep DEF GroupInv

\* What holds with ejections, and without.
WholeInv == ClaimInv /\ AgreeInv /\ (NoEjection => GroupInv)

\* A group that is whole was whole before.
LEMMA WholeStep == WholeInv /\ [Next]_vars => WholeInv'
<1> SUFFICES ASSUME WholeInv, [Next]_vars  PROVE WholeInv'
  OBVIOUS
<1>1. ClaimInv' /\ AgreeInv'
  BY ClaimStep, AgreeStep DEF WholeInv
<1>2. NoEjection' => NoEjection
  BY StableStep DEF WholeInv, AgreeInv
<1>3. QED  BY <1>1, <1>2, GroupStep DEF WholeInv

\* There are no votes and no announcements initially.
LEMMA WholeInit == Init => WholeInv
<1> SUFFICES ASSUME Init  PROVE WholeInv
  OBVIOUS
<1>1. ClaimInv /\ AgreeInv /\ VoteInv
  BY ClaimInit, AgreeInit DEF ClaimInv
<1>2. /\ \A s, d \in Node : net[s][d] = <<>>
      /\ \A n \in Node : /\ received[n] = {} /\ waitVotesChannel[n] = <<>>
                         /\ \A m \in Msg : waitProposalCounter[n][m] = {}
                         /\ memberUpdate[n] = <<>> /\ recheck[n] = {}
  BY DEF Init, BInit, RInit
<1>3. Range(<<>>) = {}
  BY DEF Range
<1>4. \A v \in Vote : ~Cast(v) /\ ~Announced(v)
  BY <1>2, <1>3 DEF Cast, Announced
<1>5. Stable
  BY <1>2 DEF Stable
<1>6. QED
  BY <1>1, <1>4, <1>5 DEF WholeInv, GroupInv, VotesHeld, AnnouncedHeld, AnnouncedOnce

\* As long as nobody was ejected, a message is announced with one key only:
\* collectVotes waits for a vote of every node, and deletes the votes it has
\* announced the largest of (total_ording.go:104-153).
THEOREM AgreementUniqueHolds == Spec => []AgreementUnique
<1>1. WholeInv => AgreementUnique
  <2> SUFFICES ASSUME WholeInv, NoEjection, NEW r \in Announcements, NEW q \in Announcements,
                      r.id = q.id
               PROVE  r = q
    BY DEF AgreementUnique
  <2>0. TypeInv /\ AnnouncedOnce
    BY DEF WholeInv, GroupInv, VoteInv, OnceInv
  <2>1. PICK v \in Vote : r = TOAnnounceAgreementSeqMsg(v) /\ Announced(v) /\ v.id = r.id
    BY <2>0, AnnouncementVote
  <2>2. PICK w \in Vote : q = TOAnnounceAgreementSeqMsg(w) /\ Announced(w) /\ w.id = q.id
    BY <2>0, AnnouncementVote
  <2>3. v = w
    BY <2>0, <2>1, <2>2 DEF AnnouncedOnce
  <2>4. QED  BY <2>1, <2>2, <2>3
<1>2. QED  BY <1>1, WholeInit, WholeStep, PTL DEF Spec

\* As long as nobody was ejected, an announcement comes after every node
\* pushed the message, and its number is at least the one any node still
\* holds the message with (total_ording.go:253-259).
THEOREM AnnouncementDominatesHolds == Spec => []AnnouncementDominates
<1>1. WholeInv => AnnouncementDominates
  <2> SUFFICES ASSUME WholeInv, NoEjection, NEW r \in Announcements, NEW n \in Node
               PROVE  /\ r.id \in HeldIds(n) \cup DeliveredIds(n)
                      /\ \A i \in holdQueue[n] : i.id = r.id => i.seq <= r.seq
    BY DEF AnnouncementDominates
  <2>0. TypeInv /\ AnnouncedHeld
    BY DEF WholeInv, GroupInv, VoteInv, OnceInv
  <2>1. PICK v \in Vote : Announced(v) /\ v.id = r.id /\ v.seq = r.seq
    BY <2>0, AnnouncementVote
  <2>2. Settled(n, v)
    BY <2>0, <2>1 DEF AnnouncedHeld
  <2>3. QED  BY <2>1, <2>2 DEF Settled
<1>2. QED  BY <1>1, WholeInit, WholeStep, PTL DEF Spec
-----------------------------------------------------------------------------
(***************************************************************************)
(* DeliveredInOrder.  What a node holds is behind what it has delivered,   *)
(* but for the messages that were overtaken there.                         *)
(***************************************************************************)
Behind(n, x, i) ==
  \/ i.id \in overtaken[n]
  \/ i.agreed /\ VoteLess(x, VoteOf(i))
  \/ ~i.agreed /\ x.seq < i.seq

HeldBehind(n) == \A i \in holdQueue[n], x \in Range(delivered[n]) : Behind(n, x, i)

InOrder(n) ==
  \A k, l \in DOMAIN delivered[n] :
    k < l /\ delivered[n][l].id \notin overtaken[n] =>
      VoteLess(delivered[n][k], delivered[n][l])

\* An announcement does not move an item ahead of what was delivered
\* (TOHoldPriorityQueue.Update).
LEMMA UpdatedBehind ==
  ASSUME GroupInv, NEW n \in Node, NEW j \in holdQueue[n], NEW i \in Item,
         Updated(n, j, i), Announced(VoteOf(i)), NEW x \in Range(delivered[n]), Behind(n, x, j)
  PROVE  i.id \in overtaken[n] \/ VoteLess(x, VoteOf(i))
<1>0. OnceInv /\ AgreeInv
  BY DEF GroupInv, VoteInv
<1>1. i.id = j.id
  BY DEF Updated
<1>2. /\ j \in Item /\ x \in Vote /\ VoteOf(i) \in Vote /\ VoteOf(j) \in Vote
      /\ VoteOf(i).id = i.id /\ VoteOf(j).id = j.id /\ VoteOf(i).seq = i.seq
      /\ i.seq \in Nat /\ j.seq \in Nat /\ x.seq \in Nat
  BY <1>0, ItemTypes
<1>3. CASE j.agreed /\ VoteLess(x, VoteOf(j))
  <2>1. Announced(VoteOf(j))
    BY <1>0, <1>3, KnownAnnounced
  <2>2. VoteOf(j) = VoteOf(i)
    BY <1>1, <1>2, <2>1 DEF GroupInv, AnnouncedOnce
  <2>3. QED  BY <1>3, <2>2
<1>4. CASE x.seq < j.seq
  <2>1. j.seq <= VoteOf(i).seq
    BY <1>1, <1>2 DEF GroupInv, AnnouncedHeld, Settled
  <2>2. x.seq < VoteOf(i).seq
    BY <1>2, <1>4, <2>1
  <2>3. QED  BY <2>2 DEF VoteLess
<1>5. QED  BY <1>1, <1>3, <1>4 DEF Behind

\* The rest of a queue is behind its head, when that is agreed
\* (TOHoldPriorityQueue.Less).
LEMMA PeekFirst ==
  ASSUME ClaimInv, AgreeInv, NEW n \in Node, NEW h \in holdQueue[n], IsPeek(n, h), h.agreed,
         NEW i \in holdQueue[n], i # h
  PROVE  \/ i.agreed /\ VoteLess(VoteOf(h), VoteOf(i))
         \/ ~i.agreed /\ h.seq < i.seq
<1>0. OnceInv
  BY DEF AgreeInv
<1>1. /\ h \in Item /\ i \in Item
      /\ VoteOf(h) \in Vote /\ VoteOf(h).id = h.id /\ VoteOf(h).seq = h.seq /\ VoteOf(h).pid = h.pid
      /\ VoteOf(i) \in Vote /\ VoteOf(i).id = i.id /\ VoteOf(i).seq = i.seq /\ VoteOf(i).pid = i.pid
      /\ h.seq \in Nat /\ i.seq \in Nat /\ h.pid \in Nat /\ i.pid \in Nat
      /\ i.agreed \in BOOLEAN
  BY <1>0, ItemTypes, NodeAssumption
<1>2. ~Less(i, h)
  BY DEF IsPeek
<1>3. CASE ~i.agreed
  <2>1. ~(i.seq < h.seq) /\ i.seq # h.seq
    BY <1>2, <1>3 DEF Less
  <2>2. h.seq < i.seq
    BY <1>1, <2>1
  <2>3. QED  BY <1>3, <2>2
<1>4. CASE i.agreed
  <2>1. i.seq >= h.seq /\ (i.seq = h.seq => i.pid >= h.pid)
    <3>1. ~(i.seq < h.seq)
      BY <1>2 DEF Less
    <3>2. ~(i.seq = h.seq /\ i.pid < h.pid)
      BY <1>2, <1>4 DEF Less
    <3>3. QED  BY <1>1, <3>1, <3>2
  <2>2. i.seq = h.seq /\ i.pid = h.pid => FALSE
    <3> SUFFICES ASSUME i.seq = h.seq, i.pid = h.pid  PROVE FALSE
      OBVIOUS
    <3>1. Announced(VoteOf(h)) /\ Announced(VoteOf(i))
      BY <1>4, KnownAnnounced
    <3>2. VoteOf(h) = VoteOf(i)
      BY <1>1, <3>1, AnnouncedKeys
    <3>3. h.id = i.id
      BY <1>1, <3>2
    <3>4. QED  BY <1>0, <3>3 DEF OnceInv, HeldOnce
  <2>3. VoteLess(VoteOf(h), VoteOf(i))
    BY <1>1, <2>1, <2>2 DEF VoteLess
  <2>4. QED  BY <1>4, <2>3
<1>5. QED  BY <1>3, <1>4

\* A message that is pushed is behind what was delivered, unless it was
\* overtaken; the head is delivered before what it leaves in the queue.
LEMMA BehindStep ==
  ASSUME ClaimInv, GroupInv, [Next]_vars, NEW n \in Node, HeldBehind(n)
  PROVE  HeldBehind(n)'
<1>0. AgreeInv /\ OnceInv /\ OnceInv'
  BY OnceStep DEF GroupInv, VoteInv
<1>1. overtaken[n] \subseteq overtaken'[n]
  BY WholeQueueSteps DEF Delivers
<1> SUFFICES ASSUME NEW i \in holdQueue'[n], NEW x \in Range(delivered'[n])
             PROVE  \/ i.id \in overtaken'[n]
                    \/ i.agreed /\ VoteLess(x, VoteOf(i))
                    \/ ~i.agreed /\ x.seq < i.seq
  BY DEF HeldBehind, Behind, VoteLess, VoteOf, ProposalItem
<1>2. CASE delivered'[n] = delivered[n] /\ i \in holdQueue[n]
  BY <1>1, <1>2 DEF HeldBehind, Behind
<1>3. ASSUME delivered'[n] = delivered[n], Pushed(n, i)  PROVE i.id \in overtaken'[n] \/ (~i.agreed /\ x.seq < i.seq)
  BY <1>0, <1>1, <1>3 DEF Pushed, PushAndReply, IsAt, AgreeInv, PushesAhead
<1>4. ASSUME delivered'[n] = delivered[n], NEW j \in holdQueue[n], Updated(n, j, i), Announced(VoteOf(i))
      PROVE  i.id \in overtaken'[n] \/ (i.agreed /\ VoteLess(x, VoteOf(i)))
  <2>1. i \in Item /\ Behind(n, x, j) /\ x \in Range(delivered[n])
    BY <1>0, <1>4 DEF OnceInv, TypeInv, TOTypeOK, HeldBehind
  <2>2. i.id \in overtaken[n] \/ VoteLess(x, VoteOf(i))
    BY <1>4, <2>1, UpdatedBehind
  <2>3. i.agreed
    BY <1>4 DEF Updated
  <2>4. QED  BY <1>1, <2>2, <2>3
<1>5. ASSUME NEW h \in holdQueue[n], Delivers(n, h)
      PROVE  \/ i.id \in overtaken'[n]
             \/ i.agreed /\ VoteLess(x, VoteOf(i))
             \/ ~i.agreed /\ x.seq < i.seq
  <2>1. i \in holdQueue[n] /\ i # h /\ IsPeek(n, h) /\ h.agreed
    BY <1>5 DEF Delivers
  <2>2. CASE x \in Range(delivered[n])
    BY <1>1, <2>1, <2>2 DEF HeldBehind, Behind
  <2>3. CASE x = VoteOf(h)
    <3>1. x.seq = h.seq
      BY <2>3 DEF VoteOf, ProposalItem
    <3>2. QED  BY <1>0, <2>1, <2>3, <3>1, PeekFirst
  <2>4. QED  BY <1>0, <1>5, <2>2, <2>3, RangeDelivers
<1>6. \/ delivered'[n] = delivered[n]
      \/ \E h \in holdQueue[n] : Delivers(n, h)
  BY WholeQueueSteps
<1>7. \/ i \in holdQueue[n]
      \/ Pushed(n, i)
      \/ \E j \in holdQueue[n] : Updated(n, j, i) /\ Announced(VoteOf(i))
  <2>1. ASSUME NEW k, Pushed(n, k)  PROVE i \in holdQueue[n] \/ i = k
    BY <2>1 DEF Pushed
  <2>2. ASSUME NEW j \in holdQueue[n], NEW k, Updated(n, j, k)  PROVE i \in holdQueue[n] \/ i = k
    BY <2>2 DEF Updated
  <2>3. ASSUME NEW k, Delivers(n, k)  PROVE i \in holdQueue[n]
    BY <2>3 DEF Delivers
  <2>4. QED  BY <2>1, <2>2, <2>3, WholeQueueSteps
<1>8. QED  BY <1>2, <1>3, <1>4, <1>5, <1>6, <1>7

\* So what is delivered next comes after what was delivered.
LEMMA InOrderStep ==
  ASSUME GroupInv, [Next]_vars, NEW n \in Node, HeldBehind(n), InOrder(n)
  PROVE  InOrder(n)'
<1>0. OnceInv /\ delivered[n] \in Seq(Vote)
  BY DEF GroupInv, VoteInv, OnceInv, TypeInv, TOTypeOK
<1>1. CASE delivered'[n] = delivered[n] /\ overtaken'[n] = overtaken[n]
  BY <1>1 DEF InOrder, VoteLess
<1>2. ASSUME NEW h \in holdQueue[n], Delivers(n, h)  PROVE InOrder(n)'
  <2>1. /\ VoteOf(h) \in Vote /\ VoteOf(h).id = h.id /\ h.agreed
        /\ delivered'[n] = Append(delivered[n], VoteOf(h))
        /\ overtaken[n] \subseteq overtaken'[n]
    BY <1>0, <1>2, ItemTypes DEF Delivers
  <2>2. PICK len : len = Len(delivered[n])
    OBVIOUS
  <2>3. /\ len \in Nat /\ DOMAIN delivered[n] = 1 .. len
        /\ DOMAIN delivered'[n] = 1 .. (len + 1)
        /\ \A k \in 1 .. len : delivered'[n][k] = delivered[n][k]
        /\ delivered'[n][len + 1] = VoteOf(h)
    BY <1>0, <2>1, <2>2, AppendProperties, LenProperties
  <2> SUFFICES ASSUME NEW k \in 1 .. (len + 1), NEW l \in 1 .. (len + 1), k < l,
                      delivered'[n][l].id \notin overtaken'[n]
               PROVE  VoteLess(delivered'[n][k], delivered'[n][l])
    BY <2>3 DEF InOrder, VoteLess
  <2>4. k \in 1 .. len
    BY <2>3
  <2>5. CASE l \in 1 .. len
    BY <2>1, <2>3, <2>4, <2>5 DEF InOrder
  <2>6. CASE l = len + 1
    <3>1. delivered[n][k] \in Range(delivered[n])
      BY <2>3, <2>4 DEF Range
    <3>2. h.id \notin overtaken[n]
      BY <2>1, <2>3, <2>6
    <3>3. VoteLess(delivered[n][k], VoteOf(h))
      BY <2>1, <3>1, <3>2 DEF HeldBehind, Behind
    <3>4. QED  BY <2>3, <2>4, <2>6, <3>3
  <2>7. QED  BY <2>3, <2>5, <2>6
<1>3. QED  BY <1>1, <1>2, WholeQueueSteps

\* The invariant of the order of delivery.
OrderInv ==
  /\ WholeInv
  /\ NoEjection => \A n \in Node : HeldBehind(n) /\ InOrder(n)

\* Every step keeps it.
LEMMA OrderStep == OrderInv /\ [Next]_vars => OrderInv'
<1> SUFFICES ASSUME OrderInv, [Next]_vars  PROVE OrderInv'
  OBVIOUS
<1>1. WholeInv' /\ (NoEjection' => NoEjection)
  BY WholeStep, StableStep DEF OrderInv, WholeInv, AgreeInv
<1>2. ASSUME NoEjection', NEW n \in Node  PROVE (HeldBehind(n) /\ InOrder(n))'
  BY <1>1, <1>2, BehindStep, InOrderStep DEF OrderInv, WholeInv
<1>3. QED  BY <1>1, <1>2 DEF OrderInv

\* Nothing is delivered initially.
LEMMA OrderInit == Init => OrderInv
<1> SUFFICES ASSUME Init  PROVE OrderInv
  OBVIOUS
<1>1. \A n \in Node : holdQueue[n] = {} /\ delivered[n] = <<>>
  BY DEF Init
<1>2. QED  BY <1>1, WholeInit DEF OrderInv, HeldBehind, InOrder

\* As long as nobody was ejected, a node delivers in increasing order of the
\* agreed keys, but for the messages that were overtaken there
\* (total_ording.go:189-216, 261-298).
THEOREM DeliveredInOrderHolds == Spec => []DeliveredInOrder
<1>1. OrderInv => DeliveredInOrder
  BY DEF OrderInv, InOrder, DeliveredInOrder
<1>2. QED  BY <1>1, OrderInit, OrderStep, PTL DEF Spec
-----------------------------------------------------------------------------
(***************************************************************************)
(* TotalOrderUnlessOvertaken.                                              *)
(***************************************************************************)

\* A node that has overtaken nothing has delivered all that was announced
\* with a smaller key than something it has delivered.
LEMMA NothingMissed ==
  ASSUME GroupInv, NEW n \in Node, HeldBehind(n), overtaken[n] = {},
         NEW x \in Range(delivered[n]), NEW r \in Vote, Announced(r), VoteLess(r, x)
  PROVE  r \in Range(delivered[n])
<1>0. AgreeInv /\ OnceInv /\ x \in Vote /\ r.seq \in Nat /\ x.seq \in Nat
  BY ItemTypes DEF GroupInv, VoteInv, Vote
<1>1. ~VoteLess(x, r)
  BY <1>0, VoteOrder
<1>2. r.id \in HeldIds(n) \cup DeliveredIds(n)
      /\ \A i \in holdQueue[n] : i.id = r.id => i.seq <= r.seq
  BY DEF GroupInv, AnnouncedHeld, Settled
<1>3. ASSUME NEW i \in holdQueue[n], i.id = r.id  PROVE FALSE
  <2>1. /\ i.seq \in Nat /\ VoteOf(i).id = i.id
        /\ i.agreed => VoteOf(i) \in Vote /\ Announced(VoteOf(i))
    BY <1>0, ItemTypes, KnownAnnounced
  <2>2. (i.agreed /\ VoteLess(x, VoteOf(i))) \/ (~i.agreed /\ x.seq < i.seq)
    BY DEF HeldBehind, Behind
  <2>3. CASE i.agreed /\ VoteLess(x, VoteOf(i))
    <3>1. VoteOf(i) = r
      BY <1>3, <2>1, <2>3 DEF GroupInv, AnnouncedOnce
    <3>2. QED  BY <1>1, <2>3, <3>1
  <2>4. CASE x.seq < i.seq
    <3>1. i.seq <= r.seq
      BY <1>2, <1>3
    <3>2. x.seq < r.seq
      BY <1>0, <2>1, <2>4, <3>1
    <3>3. QED  BY <1>1, <3>2 DEF VoteLess
  <2>5. QED  BY <2>2, <2>3, <2>4
<1>4. PICK y \in Range(delivered[n]) : y.id = r.id
  BY <1>2, <1>3 DEF HeldIds, DeliveredIds
<1>5. y \in Vote /\ Announced(y)
  BY <1>0, KnownAnnounced
<1>6. y = r
  BY <1>4, <1>5 DEF GroupInv, AnnouncedOnce
<1>7. QED  BY <1>4, <1>6

\* Of the messages at the same position of two nodes that agree on what they
\* delivered before, none has the smaller key.
LEMMA SamePosition ==
  ASSUME GroupInv, NEW n \in Node, NEW d \in Node,
         HeldBehind(d), InOrder(d), overtaken[d] = {},
         NEW k \in DOMAIN delivered[n], k \in DOMAIN delivered[d],
         \A l \in DOMAIN delivered[n] \cap DOMAIN delivered[d] :
           l < k => delivered[n][l] = delivered[d][l]
  PROVE  ~VoteLess(delivered[n][k], delivered[d][k])
<1>0. /\ AgreeInv /\ OnceInv
      /\ delivered[n] \in Seq(Vote) /\ delivered[d] \in Seq(Vote)
  BY DEF GroupInv, VoteInv, OnceInv, TypeInv, TOTypeOK
<1>1. PICK x, y : x = delivered[n][k] /\ y = delivered[d][k]
  OBVIOUS
<1>2. /\ x \in Range(delivered[n]) /\ y \in Range(delivered[d])
      /\ x \in Vote /\ y \in Vote /\ Announced(x)
  <2>1. x \in Range(delivered[n]) /\ y \in Range(delivered[d])
    BY <1>1 DEF Range
  <2>2. QED  BY <1>0, <2>1, KnownAnnounced
<1>3. SUFFICES ASSUME VoteLess(x, y)  PROVE FALSE
  BY <1>1
<1>4. x \in Range(delivered[d])
  BY <1>2, <1>3, NothingMissed
<1>5. PICK l \in DOMAIN delivered[d] : delivered[d][l] = x
  BY <1>4 DEF Range
<1>6. /\ DOMAIN delivered[n] = 1 .. Len(delivered[n]) /\ Len(delivered[n]) \in Nat
      /\ DOMAIN delivered[d] = 1 .. Len(delivered[d]) /\ Len(delivered[d]) \in Nat
  BY <1>0, LenProperties
<1>7. k \in Nat /\ l \in Nat
  BY <1>5, <1>6
<1>8. CASE l < k
  <2>1. l \in DOMAIN delivered[n]
    BY <1>5, <1>6, <1>7, <1>8
  <2>2. delivered[n][l] = x
    BY <1>5, <1>8, <2>1
  <2>3. l = k
    BY <1>0, <1>1, <2>1, <2>2 DEF OnceInv, DeliveriesOnce
  <2>4. QED  BY <1>7, <1>8, <2>3
<1>9. CASE l = k
  BY <1>1, <1>2, <1>3, <1>5, <1>9, VoteOrder
<1>10. CASE k < l
  <2>1. VoteLess(y, x)
    BY <1>1, <1>5, <1>10 DEF InOrder
  <2>2. QED  BY <1>2, <1>3, <2>1, VoteOrder
<1>11. QED  BY <1>7, <1>8, <1>9, <1>10

\* Two nodes that have overtaken nothing deliver the same messages, at the
\* first position where they might not, and so everywhere.
LEMMA OrderAgreed ==
  ASSUME OrderInv, NoEjection, NEW n \in Node, NEW d \in Node,
         overtaken[n] = {}, overtaken[d] = {}
  PROVE  SameOrder(n, d)
<1>0. /\ GroupInv /\ ClaimInv /\ AgreeInv /\ OnceInv
      /\ delivered[n] \in Seq(Vote) /\ delivered[d] \in Seq(Vote)
      /\ HeldBehind(n) /\ HeldBehind(d) /\ InOrder(n) /\ InOrder(d)
  BY DEF OrderInv, WholeInv, GroupInv, VoteInv, OnceInv, TypeInv, TOTypeOK
<1> DEFINE both == DOMAIN delivered[n] \cap DOMAIN delivered[d]
           differ == {k \in both : delivered[n][k] # delivered[d][k]}
<1>1. SUFFICES ASSUME differ # {}  PROVE FALSE
  BY DEF SameOrder
<1>2. both \subseteq Nat
  BY <1>0, LenProperties
<1>3. PICK k \in differ : \A l \in differ : ~(l < k)
  <2>1. differ \subseteq Nat
    BY <1>2
  <2> HIDE DEF differ
  <2>2. PICK k \in differ : \A l \in differ : <<l, k>> \notin OpToRel(<, Nat)
    BY <1>1, <2>1, NatLessThanWellFounded, WFMin
  <2>3. \A l \in differ : l < k => <<l, k>> \in OpToRel(<, Nat)
    BY <2>1 DEF OpToRel
  <2>4. QED  BY <2>2, <2>3
<1>4. \A l \in both : l < k => delivered[n][l] = delivered[d][l]
  BY <1>3
<1>5. ~VoteLess(delivered[n][k], delivered[d][k]) /\ ~VoteLess(delivered[d][k], delivered[n][k])
  BY <1>0, <1>3, <1>4, SamePosition
<1>6. PICK x, y : x = delivered[n][k] /\ y = delivered[d][k]
  OBVIOUS
<1>7. x \in Range(delivered[n]) /\ y \in Range(delivered[d])
  BY <1>3, <1>6 DEF Range
<1>8. /\ x \in Vote /\ y \in Vote /\ Announced(x) /\ Announced(y)
      /\ x.seq \in Nat /\ y.seq \in Nat /\ x.pid \in Nat /\ y.pid \in Nat
  BY <1>0, <1>7, KnownAnnounced, NodeAssumption DEF Vote
<1>9. x.seq = y.seq /\ x.pid = y.pid
  BY <1>5, <1>6, <1>8 DEF VoteLess
<1>10. x = y
  BY <1>0, <1>8, <1>9, AnnouncedKeys
<1>11. QED  BY <1>3, <1>6, <1>10

\* As long as nobody was ejected, two nodes that have overtaken no message
\* deliver the same messages in the same order: what ISIS promises, for any
\* number of nodes and messages, with crashes and resets that nobody has
\* noticed yet (total_ording.go:189-216, 250-298).
THEOREM TotalOrderUnlessOvertakenHolds == Spec => []TotalOrderUnlessOvertaken
<1>1. OrderInv => TotalOrderUnlessOvertaken
  BY OrderAgreed DEF TotalOrderUnlessOvertaken
<1>2. QED  BY <1>1, OrderInit, OrderStep, PTL DEF Spec
=============================================================================
