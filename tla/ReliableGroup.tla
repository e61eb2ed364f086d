---------------------------- MODULE ReliableGroup ----------------------------
(***************************************************************************)
(* A group whose application uses RMulticast directly: node Origin[m]      *)
(* multicasts message m once, and the handler the router runs for it does  *)
(* nothing but record the delivery.  This closes RMulticast to a system    *)
(* that can be checked on its own.                                         *)
(***************************************************************************)
EXTENDS RMulticast

CONSTANTS
  Payload,  \* the messages; each is the unique id that NewRMsg gives it
  Origin    \* the node that multicasts each message

ASSUME OriginAssumption == Origin \in [Payload -> Node]

VARIABLES
  sent,       \* messages passed to RMulticast.Multicast
  delivered   \* delivered[n]: messages whose handler ran at n

vars == <<bvars, rvars, sent, delivered>>

Init ==
  /\ BInit
  /\ RInit
  /\ sent = {}
  /\ delivered = [n \in Node |-> <<>>]

\* The application of node n multicasts m.
Send(n, m) ==
  /\ n \in alive
  /\ n = Origin[m]
  /\ m \notin sent
  /\ MulticastR(n, m)
  /\ sent' = sent \cup {m}
  /\ UNCHANGED <<rvars, delivered>>

Receive(s, n) == ReceiveR(s, n) /\ UNCHANGED <<sent, delivered>>

RelayTask(n, t) == Relay(n, t) /\ UNCHANGED <<sent, delivered>>

\* router.Run: the handler bound to the path of the message.
Run(n, t) ==
  /\ n \in alive
  /\ t.pc = "route"
  /\ delivered' = [delivered EXCEPT ![n] = Append(@, t.rmsg)]
  /\ Return(n, t)
  /\ UNCHANGED <<bvars, received, sent>>

Crash(n) == RCrash(n) /\ UNCHANGED <<sent, delivered>>

Reset(s, d) == ConnReset(s, d) /\ UNCHANGED <<rvars, sent, delivered>>

\* One step of the goroutine that handles the connection from s at n.
HandleConn(s, n) ==
  \/ Receive(s, n)
  \/ \E t \in tasks[n] : t.conn = s /\ (RelayTask(n, t) \/ Run(n, t))

Next ==
  \/ \E n \in Node, m \in Payload : Send(n, m)
  \/ \E s, n \in Node : HandleConn(s, n) \/ Reset(s, n)
  \/ \E n \in Node : Crash(n)

Spec == Init /\ [][Next]_vars

\* Every handler goroutine of a running process is scheduled.
FairSpec == Spec /\ \A s, n \in Node : WF_vars(HandleConn(s, n))
-----------------------------------------------------------------------------
DeliveredSet(n) == Range(delivered[n])

\* The messages on their way from n to d.
Bodies(bmsgs) == {bmsg.body : bmsg \in Range(bmsgs)}
InFlight(n, d) == Bodies(net[n][d])

TypeOK ==
  /\ BTypeOK([path : {RMulticastPath}, body : Payload])
  /\ RTypeOK(Payload, {"relay", "route"})
  /\ sent \subseteq Payload
  /\ delivered \in [Node -> Seq(Payload)]

\* No handler runs twice for one message, whichever connections, origin or
\* relays its copies come from, and no message appears that nobody multicast
\* (AddMsgIfNotExist, r_multicast.go:33).
Integrity ==
  \A n \in Node :
    /\ \A i, j \in DOMAIN delivered[n] : delivered[n][i] = delivered[n][j] => i = j
    /\ DeliveredSet(n) \subseteq sent

\* Once the handler of a message ran at n, the message is at, or still on its
\* way to, every member that n has a working connection to: relaying precedes
\* running the handler (r_multicast.go:79-91).
RelayedBeforeDelivered ==
  \A n \in alive : \A m \in DeliveredSet(n) : \A d \in senders[n] :
    <<n, d>> \in conn => m \in received[d] \cup InFlight(n, d)

\* The inductive invariant behind the two properties above: a handler works
\* on a message that is recorded and not delivered yet, no two on the same;
\* and what n has written to itself or past the relay, n has written to all.
Wrote(n) ==
  InFlight(n, n) \cup DeliveredSet(n) \cup {t.rmsg : t \in {u \in tasks[n] : u.pc = "route"}}

TasksConsistent ==
  \A n \in Node :
    /\ \A t \in tasks[n] : t.rmsg \in received[n] \ DeliveredSet(n)
    /\ \A t, u \in tasks[n] : t.rmsg = u.rmsg => t = u
    /\ DeliveredSet(n) \subseteq received[n]
    /\ received[n] \subseteq sent
    /\ \A d \in Node : InFlight(n, d) \subseteq sent

WrittenToAll ==
  \A n \in alive : \A m \in Wrote(n) : \A d \in senders[n] :
    <<n, d>> \in conn => m \in received[d] \cup InFlight(n, d)

IInv ==
  /\ TypeOK
  /\ conn \subseteq alive \X alive
  /\ Integrity
  /\ TasksConsistent
  /\ WrittenToAll

\* A member leaves the group of n only after its connection broke, and then
\* for good; every count that was published is the size of the group at that
\* moment, so collectVotes reads a strictly decreasing sequence that ends in
\* the present member count (b_multicast.go:93-101, 121-130).
EjectionsPublished ==
  \A n \in Node :
    LET counts == memberUpdate[n] \o <<MemberCount(n) - 1>>
    IN  /\ \A i \in 1 .. Len(counts) - 1 : counts[i] > counts[i + 1]
        /\ \A d \in Node \ senders[n] : <<n, d>> \notin conn
        /\ MemberCount(n) < Cardinality(Node) =>
             /\ memberUpdate[n] # <<>>
             /\ memberUpdate[n][Len(memberUpdate[n])] = MemberCount(n)

RM == INSTANCE ReliableMulticast
        WITH RMsg <- Payload, up <- alive

\* Every step of the handlers is a step of the abstract reliable multicast or
\* leaves it unchanged (r_multicast.go:44-96).
ImplementsReliableMulticast == RM!Spec

\* A message handled by a node that stays up is handled by every node that
\* stays up, though its sender, or a relay, crashes in the middle of its
\* writes (r_multicast.go:79-89), when no connection between two nodes that
\* live is reset: a member that is ejected alive gets no relay either.
ReliableAgreement == [](alive \X alive \subseteq conn) => RM!Agreement
=============================================================================
