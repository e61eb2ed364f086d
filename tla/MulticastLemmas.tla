--------------------------- MODULE MulticastLemmas ---------------------------
(***************************************************************************)
(* What the operations of BMulticast do to the connections and the groups, *)
(* for any set BMsg of messages.  The proofs about the protocols built on  *)
(* them cite these facts and need not reason about sequences.              *)
(***************************************************************************)
EXTENDS RMulticast, SequenceTheorems, FiniteSetTheorems, TLAPS

-----------------------------------------------------------------------------
\* Appending an element to a sequence adds it to the elements (the end of the
\* TCP stream that Send writes to, client.go:60).
LEMMA RangeAppend ==
  ASSUME NEW S, NEW s \in Seq(S), NEW e \in S
  PROVE  /\ Append(s, e) \in Seq(S)
         /\ Range(Append(s, e)) = Range(s) \cup {e}
<1>1. /\ Append(s, e) \in Seq(S)
      /\ Len(Append(s, e)) = Len(s) + 1
      /\ \A i \in 1 .. Len(s) : Append(s, e)[i] = s[i]
      /\ Append(s, e)[Len(s) + 1] = e
  BY AppendProperties
<1>2. /\ DOMAIN s = 1 .. Len(s) /\ Len(s) \in Nat
      /\ DOMAIN Append(s, e) = 1 .. (Len(s) + 1)
  BY <1>1, LenProperties
<1>3. QED  BY <1>1, <1>2 DEF Range

\* Reading takes the first element of a sequence and keeps the others.
LEMMA RangeTail ==
  ASSUME NEW S, NEW s \in Seq(S), s # <<>>
  PROVE  /\ Head(s) \in S
         /\ Tail(s) \in Seq(S)
         /\ Range(s) = Range(Tail(s)) \cup {Head(s)}
<1>1. /\ Head(s) \in S
      /\ Tail(s) \in Seq(S)
      /\ Len(Tail(s)) = Len(s) - 1
      /\ \A i \in 1 .. Len(Tail(s)) : Tail(s)[i] = s[i + 1]
  BY HeadTailProperties
<1>2. Head(s) = s[1]
  OBVIOUS
<1>3. Len(s) \in Nat \ {0}
  BY EmptySeq
<1>4. DOMAIN s = 1 .. Len(s) /\ DOMAIN Tail(s) = 1 .. (Len(s) - 1)
  BY <1>1, LenProperties
<1>5. Range(s) \subseteq Range(Tail(s)) \cup {Head(s)}
  <2> SUFFICES ASSUME NEW i \in 1 .. Len(s)  PROVE s[i] \in Range(Tail(s)) \cup {Head(s)}
    BY <1>4 DEF Range
  <2>1. CASE i = 1
    BY <2>1, <1>2
  <2>2. CASE i # 1
    <3>1. i - 1 \in 1 .. (Len(s) - 1) /\ Tail(s)[i - 1] = s[i]
      BY <2>2, <1>1, <1>3
    <3>2. QED  BY <3>1, <1>4 DEF Range
  <2>3. QED  BY <2>1, <2>2
<1>6. Range(Tail(s)) \subseteq Range(s)
  <2> SUFFICES ASSUME NEW i \in 1 .. (Len(s) - 1)  PROVE Tail(s)[i] \in Range(s)
    BY <1>4 DEF Range
  <2>1. i + 1 \in 1 .. Len(s) /\ Tail(s)[i] = s[i + 1]
    BY <1>1, <1>3
  <2>2. QED  BY <2>1, <1>4 DEF Range
<1>7. Head(s) \in Range(s)
  BY <1>2, <1>3, <1>4 DEF Range
<1>8. QED  BY <1>1, <1>5, <1>6, <1>7

\* What survives of a connection that broke is among what was written.
LEMMA RangePrefix ==
  ASSUME NEW S, NEW s \in Seq(S), NEW p \in Prefixes(s)
  PROVE  p \in Seq(S) /\ Range(p) \subseteq Range(s)
<1>1. PICK k \in 0 .. Len(s) : p = SubSeq(s, 1, k)
  BY DEF Prefixes
<1>2. Len(s) \in Nat /\ DOMAIN s = 1 .. Len(s)
  BY LenProperties
<1>3. \A i \in 1 .. k : s[i] \in S
  BY <1>2, ElementOfSeq
<1>4. p \in Seq(S) /\ Len(p) = (IF 1 <= k THEN k - 1 + 1 ELSE 0)
      /\ \A i \in 1 .. k - 1 + 1 : p[i] = s[1 + i - 1]
  BY <1>1, <1>2, <1>3, SubSeqProperties
<1>5. DOMAIN p = 1 .. k /\ \A i \in 1 .. k : p[i] = s[i]
  BY <1>2, <1>4, LenProperties
<1>6. QED  BY <1>2, <1>4, <1>5 DEF Range
-----------------------------------------------------------------------------
\* What a step that writes msg to the members of n in S does to the network
\* and the groups: the connections that carry data get it, no other changes,
\* and members are only ever removed from the group of n.
Writes(n, S, msg) ==
  /\ \A d \in S : <<n, d>> \in conn => Range(net'[n][d]) = Range(net[n][d]) \cup {msg}
  /\ \A s, d \in Node : s # n \/ d \notin S \/ <<n, d>> \notin conn => net'[s][d] = net[s][d]
  /\ senders'[n] \subseteq senders[n]
  /\ \A s \in Node : s # n => senders'[s] = senders[s]
  /\ alive' = alive
  /\ conn' = conn

\* What a step does that takes the first message off the connection <<s, n>>.
Reads(s, n, bmsg) ==
  /\ Range(net[s][n]) = Range(net'[s][n]) \cup {bmsg}
  /\ \A e, d \in Node : <<e, d>> # <<s, n>> => net'[e][d] = net[e][d]
  /\ alive' = alive
  /\ conn' = conn
  /\ senders' = senders

\* What a step does that loses messages: connections break, a node may stop,
\* but messages are lost only on connections that broke.
Loses ==
  /\ \A s, d \in Node : Range(net'[s][d]) \subseteq Range(net[s][d])
  /\ \A s, d \in Node : s \in alive' /\ <<s, d>> \in conn' => net'[s][d] = net[s][d]
  /\ alive' \subseteq alive
  /\ conn' \subseteq conn
  /\ senders' = senders

\* Connections carry data between running processes only.
ConnAlive == conn \subseteq alive \X alive

\* The counts published are as many integers as there are members ejected.
LEMMA PublishedCountsType ==
  ASSUME NEW n \in Node, IsFiniteSet(senders[n]), NEW failed \in SUBSET senders[n]
  PROVE  PublishedCounts(n, failed) \in Seq(Int)
<1>1. Cardinality(failed) \in Nat /\ MemberCount(n) \in Nat
  BY FS_Subset, FS_CardinalityType DEF MemberCount
<1>2. QED  BY <1>1, IsASeq DEF PublishedCounts

\* Ejecting members preserves the types.
LEMMA EjectStep ==
  ASSUME NEW BMsg, BTypeOK(BMsg), NEW n \in Node, NEW failed \in SUBSET senders[n],
         Eject(n, failed)
  PROVE  /\ senders' \in [Node -> SUBSET Node]
         /\ memberUpdate' \in [Node -> Seq(Int)]
         /\ senders'[n] \subseteq senders[n]
         /\ \A s \in Node : s # n => senders'[s] = senders[s]
<1>1. IsFiniteSet(senders[n])
  BY NodeAssumption, FS_Subset DEF BTypeOK
<1>2. memberUpdate[n] \o PublishedCounts(n, failed) \in Seq(Int)
  BY <1>1, PublishedCountsType, ConcatProperties DEF BTypeOK
<1>3. QED  BY <1>2 DEF Eject, BTypeOK

\* A multicast preserves the types and writes to every member.
LEMMA MulticastStep ==
  ASSUME NEW BMsg, BTypeOK(BMsg), NEW n \in Node, NEW msg \in BMsg,
         NEW failed, Multicast(n, msg, failed)
  PROVE  BTypeOK(BMsg)' /\ Writes(n, senders[n], msg)
<1>1. failed \in SUBSET senders[n] /\ senders[n] \in SUBSET Node
  BY DEF Multicast, Unreachable, BTypeOK
<1>2. /\ senders' \in [Node -> SUBSET Node]
      /\ memberUpdate' \in [Node -> Seq(Int)]
      /\ senders'[n] \subseteq senders[n]
      /\ \A s \in Node : s # n => senders'[s] = senders[s]
  BY <1>1, EjectStep DEF Multicast
<1>3. \A d \in Node : /\ Append(net[n][d], msg) \in Seq(BMsg)
                      /\ Range(Append(net[n][d], msg)) = Range(net[n][d]) \cup {msg}
  BY RangeAppend DEF BTypeOK
<1>4. net' \in [Node -> [Node -> Seq(BMsg)]]
  BY <1>3 DEF Multicast, Written, BTypeOK
<1>5. \A d \in senders[n] : <<n, d>> \in conn =>
        Range(net'[n][d]) = Range(net[n][d]) \cup {msg}
  BY <1>1, <1>3 DEF Multicast, Written, BTypeOK
<1>6. \A s, d \in Node : s # n \/ d \notin senders[n] \/ <<n, d>> \notin conn =>
        net'[s][d] = net[s][d]
  BY DEF Multicast, Written, BTypeOK
<1>7. QED  BY <1>2, <1>4, <1>5, <1>6 DEF Multicast, Writes, BTypeOK

\* A unicast preserves the types and writes to one member, or to none.
LEMMA UnicastStep ==
  ASSUME NEW BMsg, BTypeOK(BMsg), NEW n \in Node, NEW d \in Node, NEW msg \in BMsg,
         Unicast(n, d, msg)
  PROVE  BTypeOK(BMsg)' /\ \E S \in SUBSET {d} : Writes(n, S, msg)
<1>1. CASE net' = Written(n, senders[n] \cap {d}, msg) /\ UNCHANGED <<senders, memberUpdate>>
  <2>1. \A e \in Node : /\ Append(net[n][e], msg) \in Seq(BMsg)
                        /\ Range(Append(net[n][e], msg)) = Range(net[n][e]) \cup {msg}
    BY RangeAppend DEF BTypeOK
  <2> DEFINE S == senders[n] \cap {d}
  <2>2. net' \in [Node -> [Node -> Seq(BMsg)]]
    BY <1>1, <2>1 DEF Written, BTypeOK
  <2>3. \A e \in S : <<n, e>> \in conn => Range(net'[n][e]) = Range(net[n][e]) \cup {msg}
    BY <1>1, <2>1 DEF Written, BTypeOK
  <2>4. \A s, e \in Node : s # n \/ e \notin S \/ <<n, e>> \notin conn => net'[s][e] = net[s][e]
    BY <1>1 DEF Written, BTypeOK
  <2>5. Writes(n, S, msg)
    BY <1>1, <2>3, <2>4 DEF Writes, Unicast
  <2>6. QED  BY <1>1, <2>2, <2>5 DEF Unicast, BTypeOK
<1>2. CASE d \in Unreachable(n) /\ Eject(n, {d}) /\ UNCHANGED net
  <2>1. {d} \in SUBSET senders[n]
    BY <1>2 DEF Unreachable
  <2>2. /\ senders' \in [Node -> SUBSET Node]
        /\ memberUpdate' \in [Node -> Seq(Int)]
        /\ senders'[n] \subseteq senders[n]
        /\ \A s \in Node : s # n => senders'[s] = senders[s]
    BY <1>2, <2>1, EjectStep
  <2>3. Writes(n, {}, msg)
    BY <1>2, <2>2 DEF Writes, Unicast
  <2>4. QED  BY <1>2, <2>2, <2>3 DEF Unicast, BTypeOK
<1>3. QED  BY <1>1, <1>2 DEF Unicast

\* Reading preserves the types and takes a message off its connection.
LEMMA ReadStep ==
  ASSUME NEW BMsg, BTypeOK(BMsg), NEW s \in Node, NEW n \in Node, NEW path, Read(s, n, path)
  PROVE  /\ BTypeOK(BMsg)'
         /\ Head(net[s][n]) \in BMsg
         /\ Head(net[s][n]).path = path
         /\ Reads(s, n, Head(net[s][n]))
<1>1. net[s][n] \in Seq(BMsg) /\ net[s][n] # <<>>
  BY DEF Read, BTypeOK
<1>2. /\ Head(net[s][n]) \in BMsg
      /\ Tail(net[s][n]) \in Seq(BMsg)
      /\ Range(net[s][n]) = Range(Tail(net[s][n])) \cup {Head(net[s][n])}
  BY <1>1, RangeTail
<1>3. BTypeOK(BMsg)'
  BY <1>2 DEF Read, BTypeOK
<1>4. Reads(s, n, Head(net[s][n]))
  BY <1>2 DEF Read, Reads, BTypeOK
<1>5. QED  BY <1>2, <1>3, <1>4 DEF Read

\* A crash preserves the types and loses messages of broken connections only.
LEMMA CrashStep ==
  ASSUME NEW BMsg, BTypeOK(BMsg), ConnAlive, NEW n \in Node, NodeCrash(n)
  PROVE  BTypeOK(BMsg)' /\ ConnAlive' /\ Loses /\ alive' = alive \ {n}
<1>1. PICK kept \in [alive' -> UNION {Prefixes(net[n][d]) : d \in Node}] :
        /\ \A d \in alive' : kept[d] \in Prefixes(net[n][d])
        /\ net' = [s \in Node |-> [d \in Node |->
                     IF d \notin alive' THEN <<>>
                     ELSE IF s = n THEN kept[d] ELSE net[s][d]]]
  BY DEF NodeCrash
<1>2. alive' = alive \ {n} /\ alive' \subseteq Node
  BY DEF NodeCrash, BTypeOK
<1>3. \A d \in alive' : kept[d] \in Seq(BMsg) /\ Range(kept[d]) \subseteq Range(net[n][d])
  BY <1>1, <1>2, RangePrefix DEF BTypeOK
<1>4. net' \in [Node -> [Node -> Seq(BMsg)]]
  BY <1>1, <1>3 DEF BTypeOK
<1>5. Range(<<>>) = {}
  BY DEF Range
<1>6. \A s, d \in Node : Range(net'[s][d]) \subseteq Range(net[s][d])
  BY <1>1, <1>3, <1>5
<1>7. conn' = {c \in conn : c[1] # n /\ c[2] # n}
  BY DEF NodeCrash
<1>8. ConnAlive'
  BY <1>2, <1>7 DEF ConnAlive
<1>9. \A s, d \in Node : <<s, d>> \in conn' => s # n /\ d \in alive'
  BY <1>7, <1>8 DEF ConnAlive
<1>10. \A s, d \in Node : s \in alive' /\ <<s, d>> \in conn' => net'[s][d] = net[s][d]
  BY <1>1, <1>9
<1>11. QED  BY <1>2, <1>4, <1>6, <1>7, <1>8, <1>10 DEF NodeCrash, Loses, BTypeOK

\* So does a reset.
LEMMA ResetStep ==
  ASSUME NEW BMsg, BTypeOK(BMsg), NEW s \in Node, NEW d \in Node, ConnAlive, ConnReset(s, d)
  PROVE  BTypeOK(BMsg)' /\ ConnAlive' /\ Loses /\ alive' = alive
<1>1. PICK kept \in Prefixes(net[s][d]) : net' = [net EXCEPT ![s][d] = kept]
  BY DEF ConnReset
<1>2. kept \in Seq(BMsg) /\ Range(kept) \subseteq Range(net[s][d])
  BY <1>1, RangePrefix DEF BTypeOK
<1>3. BTypeOK(BMsg)'
  BY <1>1, <1>2 DEF ConnReset, BTypeOK
<1>4. Loses
  BY <1>1, <1>2 DEF ConnReset, Loses, BTypeOK
<1>5. QED  BY <1>3, <1>4 DEF ConnReset, ConnAlive
-----------------------------------------------------------------------------
(***************************************************************************)
(* The same steps, connection by connection: a multiset of messages is     *)
(* lost on the way from sequences to their ranges, and votes are counted.  *)
(***************************************************************************)
Appends(n, msg) ==
  \A s, d \in Node :
    net'[s][d] = net[s][d] \/ (s = n /\ net'[s][d] = Append(net[s][d], msg))

Takes(s, n) ==
  /\ net[s][n] # <<>> /\ net'[s][n] = Tail(net[s][n])
  /\ \A e, d \in Node : <<e, d>> # <<s, n>> => net'[e][d] = net[e][d]

Cuts == \A s, d \in Node : net'[s][d] \in Prefixes(net[s][d])

\* A multicast, or a unicast, writes at the end of connections of its node
\* (BMulticast.Multicast, Unicast, b_multicast.go).
LEMMA WriteAppends ==
  ASSUME NEW BMsg, BTypeOK(BMsg), NEW n \in Node, NEW msg,
         \/ \E failed : Multicast(n, msg, failed)
         \/ \E d \in Node : Unicast(n, d, msg)
  PROVE  Appends(n, msg)
<1>1. net \in [Node -> [Node -> Seq(BMsg)]]
  BY DEF BTypeOK
<1>2. ASSUME NEW S, net' = Written(n, S, msg)  PROVE Appends(n, msg)
  <2>1. \A s \in Node : s # n => net'[s] = net[s]
    BY <1>1, <1>2 DEF Written
  <2>2. \A d \in Node : net'[n][d] = IF d \in S /\ <<n, d>> \in conn
                                      THEN Append(net[n][d], msg) ELSE net[n][d]
    BY <1>1, <1>2, Zenon DEF Written
  <2>3. QED  BY <2>1, <2>2 DEF Appends
<1>3. CASE UNCHANGED net
  BY <1>3 DEF Appends
<1>4. QED  BY <1>2, <1>3 DEF Multicast, Unicast

\* A handler takes the first message of its connection (handleConn).
LEMMA ReadTakes ==
  ASSUME NEW BMsg, BTypeOK(BMsg), NEW s \in Node, NEW n \in Node, NEW path, Read(s, n, path)
  PROVE  Takes(s, n)
BY DEF Read, Takes, BTypeOK

\* What a crash or a reset leaves on a connection is the beginning of what
\* was on it.
LEMMA FaultCuts ==
  ASSUME NEW BMsg, BTypeOK(BMsg),
         \/ \E n \in Node : NodeCrash(n)
         \/ \E s, d \in Node : ConnReset(s, d)
  PROVE  Cuts
<1>1. ASSUME NEW s \in Node, NEW d \in Node
      PROVE  /\ net[s][d] \in Prefixes(net[s][d])
             /\ <<>> \in Prefixes(net[s][d])
  <2>1. net[s][d] \in Seq(BMsg)
    BY DEF BTypeOK
  <2>2. Len(net[s][d]) \in Nat /\ DOMAIN net[s][d] = 1 .. Len(net[s][d])
    BY <2>1, LenProperties
  <2>3. SubSeq(net[s][d], 1, Len(net[s][d])) = net[s][d] /\ SubSeq(net[s][d], 1, 0) = <<>>
    BY <2>1, <2>2
  <2>4. Len(net[s][d]) \in 0 .. Len(net[s][d]) /\ 0 \in 0 .. Len(net[s][d])
    BY <2>2
  <2>5. QED  BY <2>3, <2>4 DEF Prefixes
<1>2. ASSUME NEW n \in Node, NodeCrash(n)  PROVE Cuts
  <2>1. PICK kept \in [alive' -> UNION {Prefixes(net[n][d]) : d \in Node}] :
          /\ \A d \in alive' : kept[d] \in Prefixes(net[n][d])
          /\ net' = [s \in Node |-> [d \in Node |->
                       IF d \notin alive' THEN <<>>
                       ELSE IF s = n THEN kept[d] ELSE net[s][d]]]
    BY <1>2 DEF NodeCrash
  <2>2. QED  BY <1>1, <2>1 DEF Cuts
<1>3. ASSUME NEW s \in Node, NEW d \in Node, ConnReset(s, d)  PROVE Cuts
  <2>1. PICK kept \in Prefixes(net[s][d]) : net' = [net EXCEPT ![s][d] = kept]
    BY <1>3 DEF ConnReset
  <2>2. QED  BY <1>1, <2>1 DEF Cuts, BTypeOK
<1>4. QED  BY <1>2, <1>3

-----------------------------------------------------------------------------
(***************************************************************************)
(* A group that uses this layer only: a frame carries a message of it.     *)
(***************************************************************************)
Frames(RMsg) == [path : {RMulticastPath}, body : RMsg]

\* A frame of this layer carries its message (message.go:11).
LEMMA FrameOf ==
  ASSUME NEW RMsg, NEW m \in RMsg
  PROVE  RBMsg(m) \in Frames(RMsg) /\ RBMsg(m).body = m
BY DEF RBMsg, Frames

\* The first steps of a handler preserve the types of the layer's variables.
LEMMA FirstStepType ==
  ASSUME NEW RMsg, NEW PCs, {"relay", "route"} \subseteq PCs,
         BTypeOK(Frames(RMsg)), RTypeOK(RMsg, PCs),
         NEW s \in Node, NEW n \in Node, ReceiveR(s, n)
  PROVE  /\ BTypeOK(Frames(RMsg))' /\ RTypeOK(RMsg, PCs)'
         /\ Reads(s, n, Head(net[s][n]))
         /\ Head(net[s][n]).body \in RMsg
<1>1. /\ BTypeOK(Frames(RMsg))'
      /\ Head(net[s][n]) \in Frames(RMsg)
      /\ Reads(s, n, Head(net[s][n]))
  BY ReadStep DEF ReceiveR
<1>2. Head(net[s][n]).body \in RMsg
  BY <1>1 DEF Frames
<1>3. NewTask(n, s, Head(net[s][n]).body) \in Task(RMsg, PCs)
  BY <1>2 DEF NewTask, EntryPoint, Task
<1>4. RTypeOK(RMsg, PCs)'
  BY <1>2, <1>3 DEF RTypeOK, ReceiveR, rvars
<1>5. QED  BY <1>1, <1>2, <1>4

\* Moving a task to another point of its handler keeps it a task.
LEMMA MovedType ==
  ASSUME NEW RMsg, NEW PCs, RTypeOK(RMsg, PCs), NEW n \in Node, NEW t \in tasks[n],
         NEW pc \in PCs, GoTo(n, t, pc, t.local)
  PROVE  tasks' \in [Node -> SUBSET Task(RMsg, PCs)]
<1>1. t \in Task(RMsg, PCs)
  BY DEF RTypeOK
<1>2. At(t, pc, t.local) \in Task(RMsg, PCs)
  BY <1>1 DEF Task, At
<1>3. QED  BY <1>2 DEF GoTo, RTypeOK
=============================================================================
