------------------------- MODULE ReliableGroupProofs -------------------------
(***************************************************************************)
(* Proofs about ReliableGroup, for every finite set of nodes and every set *)
(* of messages, crashes and resets.  The argument: IInv is inductive; it   *)
(* says which messages are where, not in which order, so every step is     *)
(* described by the lemmas of MulticastLemmas through Writes, Reads, Loses.*)
(*                                                                         *)
(* The second part is about BackPressure, for every capacity of the        *)
(* buffers.  The argument is the same, with one case more: what a node has *)
(* begun to write to all, it wrote or still holds the lock for.            *)
(***************************************************************************)
EXTENDS BackPressure, MulticastLemmas

PC == {"relay", "route"}

-----------------------------------------------------------------------------
\* Type correctness is inductive.

\* Every step keeps the types, and connections join running processes only.
LEMMA TypeStep == TypeOK /\ ConnAlive /\ [Next]_vars => TypeOK' /\ ConnAlive'
<1> SUFFICES ASSUME TypeOK, ConnAlive, [Next]_vars  PROVE TypeOK' /\ ConnAlive'
  OBVIOUS
<1>0. BTypeOK(Frames(Payload)) /\ RTypeOK(Payload, PC) /\ sent \subseteq Payload
      /\ delivered \in [Node -> Seq(Payload)]
  BY DEF TypeOK, Frames, PC
<1>1. ASSUME NEW n \in Node, NEW m \in Payload, Send(n, m)
      PROVE  TypeOK' /\ ConnAlive'
  <2>1. PICK failed : Multicast(n, RBMsg(m), failed)
    BY <1>1 DEF Send, MulticastR
  <2>2. BTypeOK(Frames(Payload))' /\ Writes(n, senders[n], RBMsg(m))
    BY <1>0, <2>1, FrameOf, MulticastStep
  <2>3. QED  BY <1>0, <1>1, <2>2 DEF Send, Writes, TypeOK, RTypeOK, rvars, ConnAlive, Frames, PC
<1>2. ASSUME NEW s \in Node, NEW n \in Node, Receive(s, n)
      PROVE  TypeOK' /\ ConnAlive'
  BY <1>0, <1>2, FirstStepType DEF Receive, Reads, TypeOK, ConnAlive, Frames, PC
<1>3. ASSUME NEW n \in Node, NEW t \in tasks[n], RelayTask(n, t)
      PROVE  TypeOK' /\ ConnAlive'
  <2>1. PICK failed : Multicast(n, RBMsg(t.rmsg), failed)
    BY <1>3 DEF RelayTask, Relay, MulticastR
  <2>2. t.rmsg \in Payload
    BY <1>0 DEF RTypeOK, Task
  <2>3. BTypeOK(Frames(Payload))' /\ Writes(n, senders[n], RBMsg(t.rmsg))
    BY <1>0, <2>1, <2>2, FrameOf, MulticastStep
  <2>4. tasks' \in [Node -> SUBSET Task(Payload, PC)]
    BY <1>0, <1>3, MovedType DEF RelayTask, Relay, PC
  <2>5. QED  BY <1>0, <1>3, <2>3, <2>4
             DEF RelayTask, Relay, Writes, TypeOK, RTypeOK, ConnAlive, Frames, PC
<1>4. ASSUME NEW n \in Node, NEW t \in tasks[n], Run(n, t)
      PROVE  TypeOK' /\ ConnAlive'
  <2>1. t.rmsg \in Payload
    BY <1>0 DEF RTypeOK, Task
  <2>2. Append(delivered[n], t.rmsg) \in Seq(Payload)
    BY <1>0, <2>1, RangeAppend
  <2>3. BTypeOK(Frames(Payload))' /\ ConnAlive'
    BY <1>0, <1>4 DEF Run, bvars, BTypeOK, ConnAlive
  <2>4. QED  BY <1>0, <1>4, <2>2, <2>3 DEF Run, Return, TypeOK, RTypeOK, Frames, PC
<1>5. ASSUME NEW n \in Node, Crash(n)
      PROVE  TypeOK' /\ ConnAlive'
  <2>1. BTypeOK(Frames(Payload))' /\ ConnAlive'
    BY <1>0, <1>5, CrashStep DEF Crash, RCrash
  <2>2. QED  BY <1>0, <1>5, <2>1 DEF Crash, RCrash, TypeOK, RTypeOK, Frames, PC
<1>6. ASSUME NEW s \in Node, NEW d \in Node, Reset(s, d)
      PROVE  TypeOK' /\ ConnAlive'
  <2>1. BTypeOK(Frames(Payload))' /\ ConnAlive'
    BY <1>0, <1>6, ResetStep DEF Reset
  <2>2. QED  BY <1>0, <1>6, <2>1 DEF Reset, TypeOK, RTypeOK, rvars, Frames, PC
<1>7. CASE UNCHANGED vars
  BY <1>0, <1>7 DEF vars, bvars, rvars, TypeOK, BTypeOK, RTypeOK, ConnAlive
<1>8. QED  BY <1>1, <1>2, <1>3, <1>4, <1>5, <1>6, <1>7 DEF Next, HandleConn

\* The initial state has the types.
LEMMA TypeInit == Init => TypeOK /\ ConnAlive
BY DEF Init, BInit, RInit, TypeOK, BTypeOK, RTypeOK, ConnAlive

\* Every reachable state of the group has the types that the structures of
\* BMulticast and RMulticast give it (b_multicast.go:20-29, r_multicast.go:15-20).
THEOREM TypeCorrect == Spec => []TypeOK
<1>1. TypeOK /\ ConnAlive /\ [Next]_vars => TypeOK' /\ ConnAlive'
  BY TypeStep
<1>2. Init => TypeOK /\ ConnAlive
  BY TypeInit
<1>3. QED  BY <1>1, <1>2, PTL DEF Spec

-----------------------------------------------------------------------------
\* What the steps of the layer below do to the messages in flight.
USE DEF InFlight, DeliveredSet

\* A multicast puts m in flight to the members it reaches; nothing is lost.
PutsInFlight(n, m) ==
  /\ \A d \in senders[n] : <<n, d>> \in conn => m \in InFlight(n, d)'
  /\ \A s, d \in Node : InFlight(s, d) \subseteq InFlight(s, d)'
  /\ \A s, d \in Node : InFlight(s, d)' \subseteq InFlight(s, d) \cup {m}
  /\ \A s, d \in Node : s # n => InFlight(s, d)' = InFlight(s, d)
  /\ \A s \in Node : senders'[s] \subseteq senders[s]
  /\ conn' = conn
  /\ alive' = alive

\* After a multicast of m, m is in flight on every working connection of n to
\* a member, and nothing else joined the messages in flight.
LEMMA MulticastInFlight ==
  ASSUME TypeOK, NEW n \in Node, NEW m \in Payload, MulticastR(n, m)
  PROVE  PutsInFlight(n, m)
<1>1. PICK failed : Multicast(n, RBMsg(m), failed)
  BY DEF MulticastR
<1>2. BTypeOK(Frames(Payload)) /\ senders[n] \subseteq Node
  BY DEF TypeOK, BTypeOK, Frames
<1>3. Writes(n, senders[n], RBMsg(m))
  BY <1>1, <1>2, FrameOf, MulticastStep
<1>4. ASSUME NEW s \in Node, NEW d \in Node, s = n, d \in senders[n], <<n, d>> \in conn
      PROVE  InFlight(s, d)' = InFlight(s, d) \cup {m}
  BY <1>3, <1>4, FrameOf DEF Writes, Bodies
<1>5. ASSUME NEW s \in Node, NEW d \in Node, ~(s = n /\ d \in senders[n] /\ <<n, d>> \in conn)
      PROVE  InFlight(s, d)' = InFlight(s, d)
  BY <1>3, <1>5 DEF Writes
<1>6. /\ \A s \in Node : senders'[s] \subseteq senders[s]
      /\ conn' = conn
      /\ alive' = alive
  BY <1>3 DEF Writes
<1>7. \A d \in senders[n] : <<n, d>> \in conn => m \in InFlight(n, d)'
  BY <1>2, <1>4
<1>8. \A s, d \in Node : InFlight(s, d) \subseteq InFlight(s, d)'
  BY <1>4, <1>5
<1>9. \A s, d \in Node : InFlight(s, d)' \subseteq InFlight(s, d) \cup {m}
  BY <1>4, <1>5
<1>10. QED  BY <1>5, <1>6, <1>7, <1>8, <1>9 DEF PutsInFlight

\* A read takes a message out of flight on one connection only.
LEMMA ReadsInFlight ==
  ASSUME NEW s \in Node, NEW n \in Node, NEW bmsg, Reads(s, n, bmsg)
  PROVE  /\ bmsg.body \in InFlight(s, n)
         /\ \A e, d \in Node : InFlight(e, d)' \subseteq InFlight(e, d)
         /\ \A e, d \in Node : <<e, d>> # <<s, n>> => InFlight(e, d)' = InFlight(e, d)
         /\ InFlight(s, n) \subseteq InFlight(s, n)' \cup {bmsg.body}
<1>1. /\ InFlight(s, n) = InFlight(s, n)' \cup {bmsg.body}
      /\ \A e, d \in Node : <<e, d>> # <<s, n>> => InFlight(e, d)' = InFlight(e, d)
  BY DEF Reads, Bodies
<1>2. QED  BY <1>1

\* Faults lose messages in flight, but none on a connection that still works.
LEMMA LosesInFlight ==
  ASSUME Loses
  PROVE  /\ \A s, d \in Node : InFlight(s, d)' \subseteq InFlight(s, d)
         /\ \A s, d \in Node : s \in alive' /\ <<s, d>> \in conn' =>
              InFlight(s, d)' = InFlight(s, d)
BY DEF Loses, Bodies

-----------------------------------------------------------------------------
\* The inductive step, one lemma per action.
Safe == Integrity /\ TasksConsistent /\ WrittenToAll

\* What n multicasts may join what n has written.
LEMMA PutsWritten ==
  ASSUME TypeOK, WrittenToAll, NEW n \in Node, NEW m, PutsInFlight(n, m), received' = received,
         \A s \in Node : \A x \in Wrote(s)' : x \in Wrote(s) \/ (s = n /\ x = m)
  PROVE  WrittenToAll'
<1> SUFFICES ASSUME NEW s \in alive, NEW x \in Wrote(s)', NEW d \in senders'[s], <<s, d>> \in conn
             PROVE  x \in received[d] \cup InFlight(s, d)'
  BY DEF WrittenToAll, PutsInFlight
<1>1. s \in Node /\ d \in Node /\ d \in senders[s]
  BY DEF TypeOK, BTypeOK, PutsInFlight
<1>2. CASE x \in Wrote(s)
  BY <1>1, <1>2 DEF WrittenToAll, PutsInFlight
<1>3. CASE s = n /\ x = m
  BY <1>1, <1>3 DEF PutsInFlight
<1>4. QED  BY <1>1, <1>2, <1>3

\* Multicasting a message of the application keeps the invariant.
LEMMA SendSafe ==
  ASSUME TypeOK, Safe, NEW n \in Node, NEW m \in Payload, Send(n, m)
  PROVE  Safe'
<1>1. PutsInFlight(n, m)
  BY MulticastInFlight DEF Send
<1>2. UNCHANGED <<received, tasks, delivered>> /\ sent' = sent \cup {m}
  BY DEF Send, rvars
<1>3. Integrity'
  BY <1>2 DEF Safe, Integrity
<1>4. TasksConsistent'
  BY <1>1, <1>2 DEF Safe, TasksConsistent, PutsInFlight
<1>5. WrittenToAll'
  <2>1. ASSUME NEW s \in Node, NEW x \in Wrote(s)'
        PROVE  x \in Wrote(s) \/ (s = n /\ x = m)
    BY <1>1, <1>2 DEF Wrote, PutsInFlight
  <2>2. QED  BY <1>1, <1>2, <2>1, PutsWritten DEF Safe
<1>6. QED  BY <1>3, <1>4, <1>5 DEF Safe

\* So does relaying: what the task passes on, n has then written to everyone.
LEMMA RelaySafe ==
  ASSUME TypeOK, Safe, NEW n \in Node, NEW t \in tasks[n], RelayTask(n, t)
  PROVE  Safe'
<1>1. PICK m, moved : m \in Payload /\ m = t.rmsg /\ moved = At(t, "route", t.local)
  BY DEF TypeOK, RTypeOK, Task
<1>2. moved.rmsg = m /\ moved.pc = "route"
  BY <1>1 DEF TypeOK, RTypeOK, Task, PC, At
<1>3. PutsInFlight(n, m)
  BY <1>1, MulticastInFlight DEF RelayTask, Relay
<1>4. /\ UNCHANGED <<received, delivered, sent>>
      /\ tasks'[n] = (tasks[n] \ {t}) \cup {moved}
      /\ \A s \in Node : s # n => tasks'[s] = tasks[s]
  BY <1>1 DEF RelayTask, Relay, GoTo, TypeOK, RTypeOK
<1>5. Integrity'
  BY <1>4 DEF Safe, Integrity
<1>6. TasksConsistent'
  <2>1. m \in received[n] \ DeliveredSet(n) /\ m \in sent
    BY <1>1 DEF Safe, TasksConsistent
  <2>2. ASSUME NEW s \in Node
        PROVE  /\ \A v \in tasks'[s] : v.rmsg \in received[s] \ DeliveredSet(s)
               /\ \A v, w \in tasks'[s] : v.rmsg = w.rmsg => v = w
    <3>1. CASE s = n
      BY <1>1, <1>2, <1>4, <2>1, <3>1 DEF Safe, TasksConsistent
    <3>2. CASE s # n
      BY <1>4, <3>2 DEF Safe, TasksConsistent
    <3>3. QED  BY <3>1, <3>2
  <2>3. ASSUME NEW s \in Node, NEW d \in Node  PROVE InFlight(s, d)' \subseteq sent
    BY <1>3, <2>1 DEF Safe, TasksConsistent, PutsInFlight
  <2>4. QED  BY <1>4, <2>2, <2>3 DEF Safe, TasksConsistent
<1>7. WrittenToAll'
  <2>1. ASSUME NEW s \in Node, NEW x \in Wrote(s)'
        PROVE  x \in Wrote(s) \/ (s = n /\ x = m)
    <3>1. CASE s = n
      BY <1>2, <1>3, <1>4, <3>1 DEF Wrote, PutsInFlight
    <3>2. CASE s # n
      BY <1>3, <1>4, <3>2 DEF Wrote, PutsInFlight
    <3>3. QED  BY <3>1, <3>2
  <2>2. QED  BY <1>3, <1>4, <2>1, PutsWritten DEF Safe
<1>8. QED  BY <1>5, <1>6, <1>7 DEF Safe

\* So does receiving: a copy that was recorded before starts no second task.
LEMMA ReceiveSafe ==
  ASSUME TypeOK, Safe, NEW s \in Node, NEW n \in Node, Receive(s, n)
  PROVE  Safe'
<1>1. PICK m : m = Head(net[s][n]).body
  OBVIOUS
<1>2. Reads(s, n, Head(net[s][n])) /\ m \in Payload
  BY <1>1, FirstStepType DEF Receive, TypeOK, Frames, PC
<1>3. /\ m \in InFlight(s, n)
      /\ \A e, d \in Node : InFlight(e, d)' \subseteq InFlight(e, d)
      /\ \A e, d \in Node : <<e, d>> # <<s, n>> => InFlight(e, d)' = InFlight(e, d)
      /\ InFlight(s, n) \subseteq InFlight(s, n)' \cup {m}
  BY <1>1, <1>2, ReadsInFlight
<1>4. UNCHANGED <<alive, conn, senders, sent, delivered>>
  BY <1>2 DEF Reads, Receive
<1>5. PICK new : new = NewTask(n, s, m)
  OBVIOUS
<1>6. \/ /\ m \notin received[n]
         /\ received'[n] = received[n] \cup {m}
         /\ tasks'[n] = tasks[n] \cup {new}
      \/ /\ m \in received[n]
         /\ UNCHANGED <<received, tasks>>
  BY <1>1, <1>5 DEF Receive, ReceiveR, IsNew, rvars, TypeOK, RTypeOK
<1>7. \A e \in Node : e # n => received'[e] = received[e] /\ tasks'[e] = tasks[e]
  BY DEF Receive, ReceiveR, rvars, TypeOK, RTypeOK
<1>8. new.rmsg = m /\ (new.pc = "route" => s = n)
  BY <1>5 DEF NewTask, EntryPoint
<1>9. m \in sent
  BY <1>3 DEF Safe, TasksConsistent
<1>10. Integrity'
  BY <1>4 DEF Safe, Integrity
<1>11. TasksConsistent'
  <2>1. ASSUME NEW e \in Node
        PROVE  /\ \A t \in tasks'[e] : t.rmsg \in received'[e] \ DeliveredSet(e)
               /\ \A t, u \in tasks'[e] : t.rmsg = u.rmsg => t = u
               /\ DeliveredSet(e) \subseteq received'[e]
               /\ received'[e] \subseteq sent
    <3>1. CASE e = n
      BY <1>6, <1>8, <1>9, <3>1 DEF Safe, TasksConsistent
    <3>2. CASE e # n
      BY <1>7, <3>2 DEF Safe, TasksConsistent
    <3>3. QED  BY <3>1, <3>2
  <2>2. QED  BY <1>3, <1>4, <2>1 DEF Safe, TasksConsistent
<1>12. WrittenToAll'
  <2> SUFFICES ASSUME NEW e \in alive, NEW x \in Wrote(e)', NEW d \in senders[e], <<e, d>> \in conn
               PROVE  x \in received'[d] \cup InFlight(e, d)'
    BY <1>4 DEF WrittenToAll
  <2>1. e \in Node /\ d \in Node
    BY DEF TypeOK, BTypeOK
  <2>2. x \in Wrote(e)
    <3>1. CASE e = n
      BY <1>3, <1>4, <1>6, <1>8, <2>1, <3>1 DEF Wrote
    <3>2. CASE e # n
      BY <1>3, <1>4, <1>7, <2>1, <3>2 DEF Wrote
    <3>3. QED  BY <3>1, <3>2
  <2>3. x \in received[d] \cup InFlight(e, d)
    BY <2>2 DEF Safe, WrittenToAll
  <2>4. received[d] \subseteq received'[d]
    BY <1>6, <1>7, <2>1
  <2>5. CASE e = s /\ d = n
    BY <1>3, <1>6, <2>3, <2>4, <2>5
  <2>6. CASE <<e, d>> # <<s, n>>
    BY <1>3, <2>1, <2>3, <2>4, <2>6
  <2>7. QED  BY <2>5, <2>6
<1>13. QED  BY <1>10, <1>11, <1>12 DEF Safe

\* So does running the handler: the task it ends was the only one for its
\* message, which nobody had delivered at n.
LEMMA RunSafe ==
  ASSUME TypeOK, Safe, NEW n \in Node, NEW t \in tasks[n], Run(n, t)
  PROVE  Safe'
<1>1. PICK m \in Payload : m = t.rmsg
  BY DEF TypeOK, RTypeOK, Task
<1>2. /\ UNCHANGED <<alive, conn, net, senders, received, sent>>
      /\ tasks'[n] = tasks[n] \ {t}
      /\ delivered'[n] = Append(delivered[n], m)
      /\ \A s \in Node : s # n => tasks'[s] = tasks[s] /\ delivered'[s] = delivered[s]
  BY <1>1 DEF Run, Return, bvars, TypeOK, RTypeOK
<1>3. m \in received[n] \ DeliveredSet(n) /\ m \in sent
  BY <1>1 DEF Safe, TasksConsistent
<1>4. DeliveredSet(n)' = DeliveredSet(n) \cup {m}
  BY <1>2, RangeAppend DEF TypeOK
<1>5. Integrity'
  <2>1. ASSUME NEW s \in Node
        PROVE  /\ \A i, j \in DOMAIN delivered'[s] : delivered'[s][i] = delivered'[s][j] => i = j
               /\ DeliveredSet(s)' \subseteq sent
    <3>1. CASE s = n
      <4>1. /\ Len(delivered'[n]) = Len(delivered[n]) + 1
            /\ \A i \in 1 .. Len(delivered[n]) : delivered'[n][i] = delivered[n][i]
            /\ delivered'[n][Len(delivered[n]) + 1] = m
            /\ delivered'[n] \in Seq(Payload)
        BY <1>2, AppendProperties DEF TypeOK
      <4>2. /\ DOMAIN delivered[n] = 1 .. Len(delivered[n])
            /\ DOMAIN delivered'[n] = 1 .. Len(delivered[n]) + 1
            /\ Len(delivered[n]) \in Nat
        BY <4>1, LenProperties DEF TypeOK
      <4>3. \A i \in 1 .. Len(delivered[n]) : delivered[n][i] # m
        BY <1>3, <4>2 DEF Range
      <4>4. \A i, j \in 1 .. Len(delivered[n]) : delivered[n][i] = delivered[n][j] => i = j
        BY <4>2 DEF Safe, Integrity
      <4>5. QED  BY <1>3, <1>4, <3>1, <4>1, <4>2, <4>3, <4>4 DEF Safe, Integrity
    <3>2. CASE s # n
      BY <1>2, <3>2 DEF Safe, Integrity
    <3>3. QED  BY <3>1, <3>2
  <2>2. QED  BY <1>2, <2>1 DEF Integrity
<1>6. TasksConsistent'
  <2>1. ASSUME NEW s \in Node
        PROVE  /\ \A u \in tasks'[s] : u.rmsg \in received[s] \ DeliveredSet(s)'
               /\ DeliveredSet(s)' \subseteq received[s]
    <3>1. CASE s = n
      BY <1>1, <1>2, <1>3, <1>4, <3>1 DEF Safe, TasksConsistent
    <3>2. CASE s # n
      BY <1>2, <3>2 DEF Safe, TasksConsistent
    <3>3. QED  BY <3>1, <3>2
  <2>2. \A s \in Node : tasks'[s] \subseteq tasks[s]
    BY <1>2
  <2>3. QED  BY <1>2, <2>1, <2>2 DEF Safe, TasksConsistent
<1>7. WrittenToAll'
  <2>1. m \in Wrote(n)
    BY <1>1 DEF Run, Wrote
  <2>2. ASSUME NEW s \in Node  PROVE Wrote(s)' \subseteq Wrote(s)
    <3>1. CASE s = n
      BY <1>2, <1>4, <2>1, <3>1 DEF Wrote
    <3>2. CASE s # n
      BY <1>2, <3>2 DEF Wrote
    <3>3. QED  BY <3>1, <3>2
  <2>3. alive \subseteq Node
    BY DEF TypeOK, BTypeOK
  <2>4. QED  BY <1>2, <2>2, <2>3 DEF Safe, WrittenToAll
<1>8. QED  BY <1>5, <1>6, <1>7 DEF Safe

\* A fault keeps the invariant: what is lost was on a connection that broke.
LEMMA LoseSafe ==
  ASSUME TypeOK, Safe, Loses, UNCHANGED <<received, sent, delivered>>,
         tasks' \in [Node -> SUBSET Task(Payload, PC)],
         \A s \in Node : tasks'[s] \subseteq tasks[s]
  PROVE  Safe'
<1>1. Integrity'
  BY DEF Safe, Integrity
<1>2. \A s, d \in Node : InFlight(s, d)' \subseteq InFlight(s, d)
  BY LosesInFlight
<1>3. TasksConsistent'
  BY <1>2 DEF Safe, TasksConsistent
<1>4. WrittenToAll'
  <2> SUFFICES ASSUME NEW s \in alive', NEW x \in Wrote(s)', NEW d \in senders[s], <<s, d>> \in conn'
               PROVE  x \in received[d] \cup InFlight(s, d)'
    BY DEF WrittenToAll, Loses
  <2>1. s \in alive /\ s \in Node /\ d \in Node /\ <<s, d>> \in conn
    BY DEF Loses, TypeOK, BTypeOK
  <2>2. x \in Wrote(s)
    BY <1>2, <2>1 DEF Wrote
  <2>3. x \in received[d] \cup InFlight(s, d)
    BY <2>1, <2>2 DEF Safe, WrittenToAll
  <2>4. InFlight(s, d)' = InFlight(s, d)
    BY <2>1, LosesInFlight
  <2>5. QED  BY <2>3, <2>4
<1>5. QED  BY <1>1, <1>3, <1>4 DEF Safe

-----------------------------------------------------------------------------
\* The invariant holds initially, when nothing was multicast.
LEMMA InitIInv == Init => IInv
<1> SUFFICES ASSUME Init  PROVE IInv
  OBVIOUS
<1>1. TypeOK /\ ConnAlive
  BY TypeInit
<1>2. \A n, d \in Node : Bodies(net[n][d]) = {} /\ Range(delivered[n]) = {}
  BY DEF Init, BInit, Bodies, Range
<1>3. Integrity
  <2>1. \A n \in Node : DOMAIN delivered[n] = {}
    BY DEF Init
  <2>2. QED  BY <1>2, <2>1 DEF Integrity
<1>4. TasksConsistent
  <2>1. \A n \in Node : tasks[n] = {} /\ received[n] = {}
    BY DEF Init, RInit
  <2>2. QED  BY <1>2, <2>1 DEF TasksConsistent
<1>5. WrittenToAll
  BY <1>1, <1>2 DEF Init, BInit, RInit, WrittenToAll, Wrote, TypeOK, BTypeOK
<1>6. QED  BY <1>1, <1>3, <1>4, <1>5 DEF IInv, ConnAlive

\* Every step keeps the invariant.
LEMMA NextIInv == IInv /\ [Next]_vars => IInv'
<1> SUFFICES ASSUME IInv, [Next]_vars  PROVE IInv'
  OBVIOUS
<1>1. TypeOK /\ ConnAlive /\ Safe
  BY DEF IInv, ConnAlive, Safe
<1>2. TypeOK' /\ ConnAlive'
  BY <1>1, TypeStep
<1>3. Safe'
  <2>1. ASSUME NEW n \in Node, NEW m \in Payload, Send(n, m)  PROVE Safe'
    BY <1>1, <2>1, SendSafe
  <2>2. ASSUME NEW s \in Node, NEW n \in Node, Receive(s, n)  PROVE Safe'
    BY <1>1, <2>2, ReceiveSafe
  <2>3. ASSUME NEW n \in Node, NEW t \in tasks[n], RelayTask(n, t)  PROVE Safe'
    BY <1>1, <2>3, RelaySafe
  <2>4. ASSUME NEW n \in Node, NEW t \in tasks[n], Run(n, t)  PROVE Safe'
    BY <1>1, <2>4, RunSafe
  <2>5. ASSUME NEW n \in Node, Crash(n)  PROVE Safe'
    <3>1. BTypeOK(Frames(Payload)) /\ tasks \in [Node -> SUBSET Task(Payload, PC)]
      BY <1>1 DEF TypeOK, RTypeOK, Frames, PC
    <3>2. Loses
      BY <1>1, <2>5, <3>1, CrashStep DEF Crash, RCrash
    <3>3. UNCHANGED <<received, sent, delivered>> /\ tasks' = [tasks EXCEPT ![n] = {}]
      BY <2>5 DEF Crash, RCrash
    <3>4. QED  BY <1>1, <3>1, <3>2, <3>3, LoseSafe
  <2>6. ASSUME NEW s \in Node, NEW d \in Node, Reset(s, d)  PROVE Safe'
    <3>1. BTypeOK(Frames(Payload)) /\ tasks \in [Node -> SUBSET Task(Payload, PC)]
      BY <1>1 DEF TypeOK, RTypeOK, Frames, PC
    <3>2. Loses
      BY <1>1, <2>6, <3>1, ResetStep DEF Reset
    <3>3. UNCHANGED <<received, sent, delivered, tasks>>
      BY <2>6 DEF Reset, rvars
    <3>4. QED  BY <1>1, <3>1, <3>2, <3>3, LoseSafe
  <2>7. CASE UNCHANGED vars
    BY <1>1, <2>7 DEF vars, bvars, rvars, Safe, Integrity, TasksConsistent, WrittenToAll, Wrote
  <2>8. QED  BY <2>1, <2>2, <2>3, <2>4, <2>5, <2>6, <2>7 DEF Next, HandleConn
<1>4. QED  BY <1>2, <1>3 DEF IInv, ConnAlive, Safe

\* No handler runs twice for a message, and none for a message nobody
\* multicast, in any group, with any crashes and resets (r_multicast.go:33-42).
THEOREM IntegrityHolds == Spec => []Integrity
<1>1. IInv => Integrity
  BY DEF IInv
<1>2. QED  BY <1>1, InitIInv, NextIInv, PTL DEF Spec

\* A message whose handler ran at n has been written to every member that n
\* has a working connection to: this is what makes the multicast reliable when
\* n or the sender crashes afterwards (r_multicast.go:79-91).
THEOREM RelayedBeforeDeliveredHolds == Spec => []RelayedBeforeDelivered
<1>1. IInv => RelayedBeforeDelivered
  BY DEF IInv, WrittenToAll, RelayedBeforeDelivered, Wrote
<1>2. QED  BY <1>1, InitIInv, NextIInv, PTL DEF Spec

-----------------------------------------------------------------------------
\* The steps of the handlers are steps of the abstract reliable multicast:
\* Send is its Multicast, Run its Deliver, Crash its Crash, and receiving,
\* relaying and resets are invisible (r_multicast.go:44-96).
THEOREM Refinement == Spec => ImplementsReliableMulticast
<1>1. Init => RM!Init
  BY DEF Init, BInit, RM!Init
<1>2. IInv /\ [Next]_vars => [RM!Next]_(RM!vars)
  <2> SUFFICES ASSUME IInv, [Next]_vars  PROVE [RM!Next]_(RM!vars)
    OBVIOUS
  <2>1. TypeOK /\ TasksConsistent
    BY DEF IInv
  <2>2. ASSUME NEW n \in Node, NEW m \in Payload, Send(n, m)  PROVE RM!Multicast(m)
    BY <2>2 DEF Send, MulticastR, Multicast, RM!Multicast
  <2>3. ASSUME NEW s \in Node, NEW n \in Node, Receive(s, n)  PROVE UNCHANGED RM!vars
    BY <2>3 DEF Receive, ReceiveR, Read, RM!vars
  <2>4. ASSUME NEW n \in Node, NEW t \in tasks[n], RelayTask(n, t)  PROVE UNCHANGED RM!vars
    BY <2>4 DEF RelayTask, Relay, MulticastR, Multicast, RM!vars
  <2>5. ASSUME NEW n \in Node, NEW t \in tasks[n], Run(n, t)
        PROVE  t.rmsg \in Payload /\ RM!Deliver(n, t.rmsg)
    <3>1. t.rmsg \in Payload
      BY <2>1 DEF TypeOK, RTypeOK, Task
    <3>2. t.rmsg \in sent \ Range(delivered[n])
      BY <2>1 DEF TasksConsistent
    <3>3. n \in alive /\ UNCHANGED <<alive, sent>>
          /\ delivered' = [delivered EXCEPT ![n] = Append(@, t.rmsg)]
      BY <2>5 DEF Run, bvars
    <3>4. t.rmsg \in sent \ RM!DeliveredSet(n)
      BY <3>2 DEF RM!DeliveredSet, RM!Range, Range
    <3>5. QED  BY <3>1, <3>3, <3>4 DEF RM!Deliver
  <2>6. ASSUME NEW n \in Node, Crash(n)  PROVE RM!Crash(n)
    BY <2>6 DEF Crash, RCrash, NodeCrash, RM!Crash
  <2>7. ASSUME NEW s \in Node, NEW d \in Node, Reset(s, d)  PROVE UNCHANGED RM!vars
    BY <2>7 DEF Reset, ConnReset, RM!vars
  <2>8. CASE UNCHANGED vars
    BY <2>8 DEF vars, bvars, RM!vars
  <2>9. QED
    BY <2>2, <2>3, <2>4, <2>5, <2>6, <2>7, <2>8 DEF Next, HandleConn, RM!Next
<1>3. QED  BY <1>1, <1>2, InitIInv, NextIInv, PTL DEF Spec, ImplementsReliableMulticast, RM!Spec

-----------------------------------------------------------------------------
\* The counts that were published strictly decrease, to the present count k.
Descends(mu, k) ==
  /\ \A i \in 1 .. Len(mu) - 1 : mu[i] > mu[i + 1]
  /\ mu # <<>> => mu[Len(mu)] = k

\* Publishing the counts of c ejections keeps a sequence descending
\* (b_multicast.go:93-101, 121-130).
LEMMA PublishingDescends ==
  ASSUME NEW mu \in Seq(Int), NEW k \in Int, Descends(mu, k), NEW c \in Nat,
         NEW counts \in Seq(Int), counts = [i \in 1 .. c |-> k - i]
  PROVE  Descends(mu \o counts, k - c) /\ (mu \o counts = <<>> => mu = <<>> /\ c = 0)
<1>1. Len(counts) = c /\ \A i \in 1 .. c : counts[i] = k - i
  BY LenProperties
<1>2. PICK all : all = mu \o counts
  OBVIOUS
<1>3. /\ all \in Seq(Int)
      /\ Len(all) = Len(mu) + c
      /\ \A i \in 1 .. Len(mu) + c : all[i] = IF i <= Len(mu) THEN mu[i] ELSE counts[i - Len(mu)]
  BY <1>1, <1>2, ConcatProperties
<1>4. Len(mu) \in Nat /\ (mu = <<>> <=> Len(mu) = 0) /\ (all = <<>> <=> Len(all) = 0)
  BY <1>3, LenProperties, EmptySeq
<1>5. \A i \in 1 .. Len(mu) : all[i] = mu[i]
  BY <1>3, <1>4
<1>6. ASSUME NEW i \in 1 .. c  PROVE all[Len(mu) + i] = k - i
  <2>1. /\ Len(mu) + i \in 1 .. Len(mu) + c
        /\ ~(Len(mu) + i <= Len(mu))
        /\ (Len(mu) + i) - Len(mu) = i
    BY <1>4
  <2>2. all[Len(mu) + i] = counts[(Len(mu) + i) - Len(mu)]
    BY <1>3, <2>1
  <2>3. QED  BY <1>1, <2>1, <2>2
<1>7. ASSUME NEW i \in 1 .. Len(all) - 1  PROVE all[i] > all[i + 1]
  <2>1. CASE i < Len(mu)
    <3>1. i \in 1 .. Len(mu) - 1 /\ i \in 1 .. Len(mu) /\ i + 1 \in 1 .. Len(mu)
      BY <1>3, <1>4, <2>1
    <3>2. mu[i] > mu[i + 1] /\ all[i] = mu[i] /\ all[i + 1] = mu[i + 1]
      BY <1>5, <3>1 DEF Descends
    <3>3. QED  BY <3>2
  <2>2. CASE i = Len(mu)
    <3>1. c >= 1 /\ Len(mu) >= 1
      BY <1>3, <1>4, <2>2
    <3>2. all[i] = k
      BY <1>4, <1>5, <2>2, <3>1 DEF Descends
    <3>3. all[i + 1] = k - 1
      BY <1>6, <2>2, <3>1
    <3>4. QED  BY <3>2, <3>3
  <2>3. CASE i > Len(mu)
    <3>1. PICK j \in 1 .. c - 1 : i = Len(mu) + j
      <4>1. i - Len(mu) \in 1 .. c - 1 /\ i = Len(mu) + (i - Len(mu))
        BY <1>3, <1>4, <2>3
      <4>2. QED  BY <4>1
    <3>2. all[i] = k - j /\ all[i + 1] = k - (j + 1)
      <4>1. j \in 1 .. c /\ j + 1 \in 1 .. c /\ i + 1 = Len(mu) + (j + 1)
        BY <1>4, <3>1
      <4>2. QED  BY <1>6, <3>1, <4>1
    <3>3. QED  BY <3>2
  <2>4. QED  BY <1>3, <1>4, <2>1, <2>2, <2>3
<1>8. all # <<>> => all[Len(all)] = k - c
  <2>1. CASE c = 0
    BY <1>3, <1>4, <1>5, <2>1 DEF Descends
  <2>2. CASE c > 0
    BY <1>3, <1>6, <2>2
  <2>3. QED  BY <2>1, <2>2
<1>9. all = <<>> => mu = <<>> /\ c = 0
  BY <1>3, <1>4
<1>10. QED  BY <1>2, <1>7, <1>8, <1>9 DEF Descends

\* The inductive invariant behind EjectionsPublished: the last count that
\* was published is the present one, none was if nobody was ejected, and who
\* was ejected was ejected for a broken connection.
Published(n) ==
  /\ Descends(memberUpdate[n], MemberCount(n))
  /\ memberUpdate[n] = <<>> => senders[n] = Node
  /\ \A d \in Node \ senders[n] : <<n, d>> \notin conn

AllPublished == \A n \in Node : Published(n)

\* Ejecting unreachable members and publishing the counts keeps it.
LEMMA EjectPublished ==
  ASSUME TypeOK, NEW n \in Node, Published(n), NEW failed \in SUBSET Unreachable(n),
         Eject(n, failed), conn' = conn
  PROVE  Published(n)'
<1>1. /\ senders[n] \subseteq Node /\ IsFiniteSet(senders[n])
      /\ memberUpdate[n] \in Seq(Int)
      /\ failed \subseteq senders[n]
      /\ \A d \in failed : <<n, d>> \notin conn
  BY NodeAssumption, FS_Subset DEF TypeOK, BTypeOK, Unreachable
<1>2. senders'[n] = senders[n] \ failed
  BY DEF Eject, TypeOK, BTypeOK
<1>3. memberUpdate'[n] = memberUpdate[n] \o PublishedCounts(n, failed)
  BY DEF Eject, TypeOK, BTypeOK
<1>4. PICK k, c : k = MemberCount(n) /\ c = Cardinality(failed)
  OBVIOUS
<1>5. IsFiniteSet(failed) /\ k \in Nat /\ c \in Nat
  BY <1>1, <1>4, FS_Subset, FS_CardinalityType DEF MemberCount
<1>6. MemberCount(n)' = k - c
  <2>1. Cardinality(senders[n] \ failed) = Cardinality(senders[n]) - Cardinality(senders[n] \cap failed)
    BY <1>1, FS_Difference
  <2>2. senders[n] \cap failed = failed
    BY <1>1
  <2>3. QED  BY <1>2, <1>4, <2>1, <2>2 DEF MemberCount
<1>7. PublishedCounts(n, failed) \in Seq(Int) /\ PublishedCounts(n, failed) = [i \in 1 .. c |-> k - i]
  BY <1>1, <1>4, PublishedCountsType DEF PublishedCounts
<1>8. /\ Descends(memberUpdate'[n], k - c)
      /\ memberUpdate'[n] = <<>> => memberUpdate[n] = <<>> /\ c = 0
  <2>1. PICK mu \in Seq(Int), counts \in Seq(Int) :
          mu = memberUpdate[n] /\ counts = PublishedCounts(n, failed)
    BY <1>1, <1>7
  <2>2. Descends(mu, k) /\ counts = [i \in 1 .. c |-> k - i] /\ k \in Int
    BY <1>4, <1>5, <1>7, <2>1 DEF Published
  <2>3. Descends(mu \o counts, k - c) /\ (mu \o counts = <<>> => mu = <<>> /\ c = 0)
    BY <1>5, <2>2, PublishingDescends
  <2>4. QED  BY <1>3, <2>1, <2>3
<1>9. memberUpdate'[n] = <<>> => senders'[n] = Node
  <2>1. c = 0 => failed = {}
    BY <1>4, <1>5, FS_EmptySet
  <2>2. QED  BY <1>2, <1>8, <2>1 DEF Published
<1>10. \A d \in Node \ senders'[n] : <<n, d>> \notin conn'
  BY <1>1, <1>2 DEF Published
<1>11. QED  BY <1>6, <1>8, <1>9, <1>10 DEF Published

\* A step that ejects nobody keeps it, whichever connections break.
LEMMA StillPublished ==
  ASSUME NEW n \in Node, Published(n), senders'[n] = senders[n],
         memberUpdate'[n] = memberUpdate[n], conn' \subseteq conn
  PROVE  Published(n)'
BY DEF Published, MemberCount

\* So a multicast keeps it, at every node.
LEMMA MulticastPublished ==
  ASSUME TypeOK, \A e \in Node : Published(e), NEW n \in Node, NEW m, MulticastR(n, m)
  PROVE  \A e \in Node : Published(e)'
<1>1. PICK failed : Multicast(n, RBMsg(m), failed)
  BY DEF MulticastR
<1>2. Published(n)'
  BY <1>1, EjectPublished DEF Multicast
<1>3. ASSUME NEW e \in Node, e # n  PROVE Published(e)'
  <2>1. senders'[e] = senders[e] /\ memberUpdate'[e] = memberUpdate[e] /\ conn' = conn
    BY <1>1, <1>3 DEF Multicast, Eject, TypeOK, BTypeOK
  <2>2. QED  BY <2>1, StillPublished
<1>4. QED  BY <1>2, <1>3

\* No other step ejects anybody.
LEMMA NextPublished ==
  TypeOK /\ AllPublished /\ [Next]_vars => AllPublished'
<1> SUFFICES ASSUME TypeOK, \A n \in Node : Published(n), [Next]_vars
             PROVE  \A n \in Node : Published(n)'
  BY DEF AllPublished
<1>1. ASSUME UNCHANGED <<senders, memberUpdate>>, conn' \subseteq conn
      PROVE  \A n \in Node : Published(n)'
  BY <1>1, StillPublished
<1>2. ASSUME NEW n \in Node, NEW m \in Payload, Send(n, m)
      PROVE  \A e \in Node : Published(e)'
  BY <1>2, MulticastPublished DEF Send
<1>3. ASSUME NEW s \in Node, NEW n \in Node, Receive(s, n)
      PROVE  \A e \in Node : Published(e)'
  BY <1>1, <1>3 DEF Receive, ReceiveR, Read
<1>4. ASSUME NEW n \in Node, NEW t \in tasks[n], RelayTask(n, t)
      PROVE  \A e \in Node : Published(e)'
  BY <1>4, MulticastPublished DEF RelayTask, Relay
<1>5. ASSUME NEW n \in Node, NEW t \in tasks[n], Run(n, t)
      PROVE  \A e \in Node : Published(e)'
  BY <1>1, <1>5 DEF Run, bvars
<1>6. ASSUME NEW n \in Node, Crash(n)
      PROVE  \A e \in Node : Published(e)'
  BY <1>1, <1>6 DEF Crash, RCrash, NodeCrash
<1>7. ASSUME NEW s \in Node, NEW d \in Node, Reset(s, d)
      PROVE  \A e \in Node : Published(e)'
  BY <1>1, <1>7 DEF Reset, ConnReset
<1>8. CASE UNCHANGED vars
  BY <1>1, <1>8 DEF vars, bvars
<1>9. QED  BY <1>2, <1>3, <1>4, <1>5, <1>6, <1>7, <1>8 DEF Next, HandleConn

\* At the start the group is complete and no count was published.
LEMMA InitPublished == Init => AllPublished
<1> SUFFICES ASSUME Init, NEW n \in Node  PROVE Published(n)
  BY DEF AllPublished
<1>1. memberUpdate[n] = <<>> /\ senders[n] = Node
  BY DEF Init, BInit
<1>2. Len(memberUpdate[n]) = 0
  BY <1>1
<1>3. Descends(memberUpdate[n], MemberCount(n))
  BY <1>1, <1>2 DEF Descends
<1>4. QED  BY <1>1, <1>3 DEF Published

\* The invariant says what EjectionsPublished says.
LEMMA PublishedSuffices ==
  TypeOK /\ AllPublished => EjectionsPublished
<1> SUFFICES ASSUME TypeOK, NEW n \in Node, Published(n)
             PROVE  LET counts == memberUpdate[n] \o <<MemberCount(n) - 1>>
                    IN  /\ \A i \in 1 .. Len(counts) - 1 : counts[i] > counts[i + 1]
                        /\ \A d \in Node \ senders[n] : <<n, d>> \notin conn
                        /\ MemberCount(n) < Cardinality(Node) =>
                             /\ memberUpdate[n] # <<>>
                             /\ memberUpdate[n][Len(memberUpdate[n])] = MemberCount(n)
  BY DEF EjectionsPublished, AllPublished
<1>1. memberUpdate[n] \in Seq(Int) /\ MemberCount(n) \in Nat
  BY NodeAssumption, FS_Subset, FS_CardinalityType DEF TypeOK, BTypeOK, MemberCount
<1>2. PICK k \in Nat : k = MemberCount(n)
  BY <1>1
<1>3. PICK one : one = [i \in 1 .. 1 |-> k - i]
  OBVIOUS
<1>4. one = <<k - 1>>
  BY <1>2, <1>3
<1>5. one \in Seq(Int)
  BY <1>2, <1>4
<1>6. Descends(memberUpdate[n] \o one, k - 1)
  <2>1. Descends(memberUpdate[n], k) /\ k \in Int /\ 1 \in Nat
    BY <1>2 DEF Published
  <2>2. PICK mu \in Seq(Int) : mu = memberUpdate[n]
    BY <1>1
  <2>3. Descends(mu \o one, k - 1)
    BY <1>2, <1>3, <1>5, <2>1, <2>2, PublishingDescends
  <2>4. QED  BY <2>2, <2>3
<1>7. MemberCount(n) < Cardinality(Node) => memberUpdate[n] # <<>>
  <2>1. Cardinality(Node) \in Nat
    BY NodeAssumption, FS_CardinalityType
  <2>2. QED  BY <1>1, <2>1 DEF Published, MemberCount
<1>8. QED  BY <1>2, <1>4, <1>6, <1>7 DEF Published, Descends

\* In any group, with any crashes and resets: the counts a node published
\* strictly decrease to its present member count, and it ejected only members
\* whose connection broke (b_multicast.go:93-101, 121-130).
THEOREM EjectionsPublishedHolds == Spec => []EjectionsPublished
<1>1. IInv /\ AllPublished /\ [Next]_vars => AllPublished'
  BY NextPublished DEF IInv
<1>2. IInv /\ AllPublished => EjectionsPublished
  BY PublishedSuffices DEF IInv
<1>3. QED  BY <1>1, <1>2, InitIInv, NextIInv, InitPublished, PTL DEF Spec
-----------------------------------------------------------------------------
(***************************************************************************)
(* BackPressure: who holds the lock, and what it has begun to write.       *)
(***************************************************************************)

\* A goroutine that may hold the lock, and what it holds it for.
Held == [by : {App} \cup Task(Payload, PC), rmsg : Payload, dst : Node, rest : SUBSET Node]

Holds == {<<>>} \cup {<<w>> : w \in Held}

\* The holder of the lock of n, if any.
Holder(n) == Range(writing[n])

PTypeInv ==
  /\ BTypeOK(Frames(Payload))
  /\ RTypeOK(Payload, PC)
  /\ sent \subseteq Payload
  /\ delivered \in [Node -> Seq(Payload)]
  /\ writing \in [Node -> Holds]
  /\ ConnAlive

\* The holder of the lock is a handler that relays its message, or the
\* application; it writes to members of the group only.
Relaying(n, w) == w.by \in tasks[n] /\ w.by.pc = "relay" /\ w.by.rmsg = w.rmsg

HoldersConsistent ==
  \A n \in Node : \A w \in Holder(n) :
    /\ w.rmsg \in sent
    /\ w.dst \in senders[n] \ w.rest /\ w.rest \subseteq senders[n]
    /\ w.by = App \/ Relaying(n, w)

\* What n has written to itself, passed on to its router, or begun to write
\* to all, is at, on its way to, or about to be written to every member.
Begun(n) == Wrote(n) \cup {w.rmsg : w \in Holder(n)}

Reaches(n, m, d) == m \in received[d] \cup InFlight(n, d) \cup Pending(n, d)

WrittenOrPending ==
  \A n \in alive : \A m \in Begun(n) : \A d \in senders[n] : <<n, d>> \in conn => Reaches(n, m, d)

PSafe == TasksConsistent /\ HoldersConsistent /\ WrittenOrPending

-----------------------------------------------------------------------------
(***************************************************************************)
(* The lock.                                                               *)
(***************************************************************************)

\* At most one goroutine holds it.
LEMMA HolderOne ==
  /\ Range(<<>>) = {}
  /\ \A w : Range(<<w>>) = {w}
  /\ \A v \in Holds : \A w \in Range(v) : w \in Held /\ Range(v) = {w}
<1>1. Range(<<>>) = {}
  BY DEF Range
<1>2. ASSUME NEW w  PROVE Range(<<w>>) = {w}
  BY DEF Range
<1>3. QED  BY <1>1, <1>2 DEF Holds

\* What a step does that changes the holder of the lock of n to those in S.
HolderIs(n, S) ==
  /\ Holder(n)' = S
  /\ \A e \in Node : e # n => Holder(e)' = Holder(e)
  /\ writing' \in [Node -> Holds]

\* Going on to a member, the holder keeps the others to write to.
Ahead(by, m, members, w) ==
  /\ w.by = by
  /\ w.rmsg = m
  /\ w.dst \in members
  /\ w.rest = members \ {w.dst}

\* The holder of the lock goes on to a member that is left.
LEMMA NextWriteHolder ==
  ASSUME PTypeInv, NEW n \in Node, NEW by \in {App} \cup Task(Payload, PC), NEW m \in Payload,
         NEW members \in SUBSET Node, NextWrite(n, by, m, members)
  PROVE  \E w \in Held : HolderIs(n, {w}) /\ Ahead(by, m, members, w)
<1>1. PICK d \in members : writing' = [writing EXCEPT ![n] =
        <<[by |-> by, rmsg |-> m, dst |-> d, rest |-> members \ {d}]>>]
  BY DEF NextWrite
<1>2. PICK w : w = [by |-> by, rmsg |-> m, dst |-> d, rest |-> members \ {d}]
  OBVIOUS
<1>3. w \in Held /\ Ahead(by, m, members, w)
  BY <1>2 DEF Held, Ahead
<1>4. writing' = [writing EXCEPT ![n] = <<w>>] /\ writing \in [Node -> Holds]
  BY <1>1, <1>2 DEF PTypeInv
<1>5. <<w>> \in Holds
  BY <1>3 DEF Holds
<1>6. HolderIs(n, {w})
  BY <1>4, <1>5, HolderOne DEF HolderIs, Holder
<1>7. QED  BY <1>3, <1>6

\* A released lock has no holder.
LEMMA ReleaseHolder ==
  ASSUME PTypeInv, NEW n \in Node, writing' = [writing EXCEPT ![n] = <<>>]
  PROVE  HolderIs(n, {})
<1>1. writing \in [Node -> Holds] /\ <<>> \in Holds
  BY DEF PTypeInv, Holds
<1>2. QED  BY <1>1, HolderOne DEF HolderIs, Holder

\* The lock is free when nobody holds it.
LEMMA LockFreeHolder ==
  ASSUME PTypeInv, NEW n \in Node, LockFree(n)
  PROVE  Holder(n) = {}
BY HolderOne DEF LockFree, Holder

-----------------------------------------------------------------------------
(***************************************************************************)
(* Messages in flight.                                                     *)
(***************************************************************************)

\* A write of m to d puts it in flight, unless the connection broke; then
\* nothing is lost, and d may be ejected.
WroteTo(n, d, m) ==
  /\ <<n, d>> \in conn => m \in InFlight(n, d)'
  /\ \A s, e \in Node : InFlight(s, e) \subseteq InFlight(s, e)'
  /\ \A s, e \in Node : InFlight(s, e)' \subseteq InFlight(s, e) \cup {m}
  /\ \A s, e \in Node : s # n => InFlight(s, e)' = InFlight(s, e)
  /\ \A s \in Node : s # n => senders'[s] = senders[s]
  /\ senders[n] \ {d} \subseteq senders'[n] /\ senders'[n] \subseteq senders[n]
  /\ conn' = conn /\ alive' = alive
  /\ BTypeOK(Frames(Payload))'

\* A write of the loop that succeeds.
LEMMA WriteInFlight ==
  ASSUME PTypeInv, NEW n \in Node, NEW d \in Node, NEW m \in Payload,
         net' = Written(n, {d}, RBMsg(m)), UNCHANGED <<alive, conn, senders, memberUpdate>>
  PROVE  WroteTo(n, d, m)
<1>1. PICK msg \in Frames(Payload) : msg = RBMsg(m) /\ msg.body = m
  BY FrameOf
<1>2. \A s, e \in Node : net[s][e] \in Seq(Frames(Payload))
  BY DEF PTypeInv, BTypeOK
<1>3. /\ Append(net[n][d], msg) \in Seq(Frames(Payload))
      /\ Range(Append(net[n][d], msg)) = Range(net[n][d]) \cup {msg}
  BY <1>2, RangeAppend
<1>4. /\ <<n, d>> \in conn => net'[n][d] = Append(net[n][d], msg)
      /\ <<n, d>> \notin conn => net'[n][d] = net[n][d]
      /\ \A s, e \in Node : s # n \/ e # d => net'[s][e] = net[s][e]
  BY <1>1 DEF Written, PTypeInv, BTypeOK
<1>5. BTypeOK(Frames(Payload))'
  <2>1. \A e \in Node : e = d => Append(net[n][e], msg) \in Seq(Frames(Payload))
    BY <1>3
  <2>2. net' \in [Node -> [Node -> Seq(Frames(Payload))]]
    BY <1>1, <2>1 DEF Written, PTypeInv, BTypeOK
  <2>3. QED  BY <2>2 DEF PTypeInv, BTypeOK
<1>6. ASSUME <<n, d>> \in conn  PROVE InFlight(n, d)' = InFlight(n, d) \cup {m}
  <2>1. Range(net'[n][d]) = Range(net[n][d]) \cup {msg}
    BY <1>3, <1>4, <1>6
  <2>2. QED  BY <1>1, <2>1 DEF InFlight, Bodies
<1>7. \A s, e \in Node : s # n \/ e # d \/ <<n, d>> \notin conn => InFlight(s, e)' = InFlight(s, e)
  BY <1>4 DEF InFlight, Bodies
<1>8. QED  BY <1>5, <1>6, <1>7 DEF WroteTo

\* A write of the loop that fails: the member leaves the group.
LEMMA EjectInFlight ==
  ASSUME PTypeInv, NEW n \in Node, NEW d \in Unreachable(n), NEW m,
         Eject(n, {d}), UNCHANGED <<alive, conn, net>>
  PROVE  d \in senders[n] /\ WroteTo(n, d, m)
<1>1. d \in senders[n] /\ <<n, d>> \notin conn
  BY DEF Unreachable
<1>2. /\ senders' \in [Node -> SUBSET Node]
      /\ memberUpdate' \in [Node -> Seq(Int)]
      /\ \A s \in Node : s # n => senders'[s] = senders[s]
  BY <1>1, EjectStep DEF PTypeInv
<1>3. senders'[n] = senders[n] \ {d}
  BY DEF Eject, PTypeInv, BTypeOK
<1>4. BTypeOK(Frames(Payload))'
  BY <1>2 DEF PTypeInv, BTypeOK
<1>5. QED  BY <1>1, <1>2, <1>3, <1>4 DEF WroteTo, InFlight, Bodies

\* A read takes a message out of flight on one connection only.
LEMMA ReadInFlight ==
  ASSUME NEW s \in Node, NEW n \in Node, NEW bmsg, Reads(s, n, bmsg)
  PROVE  /\ InFlight(s, n) = InFlight(s, n)' \cup {bmsg.body}
         /\ \A e, d \in Node : <<e, d>> # <<s, n>> => InFlight(e, d)' = InFlight(e, d)
BY DEF Reads, InFlight, Bodies

\* Faults lose messages in flight, but none on a connection that still works.
LEMMA LoseInFlight ==
  ASSUME Loses
  PROVE  /\ \A s, d \in Node : InFlight(s, d)' \subseteq InFlight(s, d)
         /\ \A s, d \in Node : s \in alive' /\ <<s, d>> \in conn' =>
              InFlight(s, d)' = InFlight(s, d)
BY DEF Loses, InFlight, Bodies

-----------------------------------------------------------------------------
(***************************************************************************)
(* One lemma per action.                                                   *)
(***************************************************************************)
Kept == PTypeInv' /\ PSafe'

\* Taking the lock for a message puts it on the way to every member.
LEMMA LockKeeps ==
  ASSUME PTypeInv, PSafe, NEW n \in Node, NEW by \in {App} \cup Task(Payload, PC), NEW m \in Payload,
         Lock(n, by, m), UNCHANGED <<bvars, rvars, delivered>>,
         m \in sent', sent \subseteq sent', sent' \subseteq Payload,
         by = App \/ (by \in tasks[n] /\ by.pc = "relay" /\ by.rmsg = m)
  PROVE  Kept
<1>1. PICK w \in Held : HolderIs(n, {w}) /\ Ahead(by, m, senders[n], w)
  BY NextWriteHolder DEF Lock, PTypeInv, BTypeOK
<1>2. Holder(n) = {}
  BY LockFreeHolder DEF Lock
<1>3. UNCHANGED <<alive, conn, net, senders, received, tasks, delivered>>
  BY DEF bvars, rvars
<1>4. \A s, d \in Node : InFlight(s, d)' = InFlight(s, d)
  BY <1>3 DEF InFlight, Bodies
<1>5. PTypeInv'
  BY <1>1, <1>3 DEF PTypeInv, BTypeOK, RTypeOK, bvars, HolderIs, ConnAlive
<1>6. TasksConsistent'
  BY <1>3, <1>4 DEF PSafe, TasksConsistent, DeliveredSet
<1>7. HoldersConsistent'
  <2>1. ASSUME NEW s \in Node, NEW v \in Holder(s)'
        PROVE  /\ v.rmsg \in sent'
               /\ v.dst \in senders[s] \ v.rest /\ v.rest \subseteq senders[s]
               /\ v.by = App \/ (v.by \in tasks[s] /\ v.by.pc = "relay" /\ v.by.rmsg = v.rmsg)
    <3>1. CASE s = n
      <4>1. v = w
        BY <1>1, <2>1, <3>1 DEF HolderIs
      <4>2. QED  BY <1>1, <3>1, <4>1 DEF Ahead
    <3>2. CASE s # n
      <4>1. v \in Holder(s)
        BY <1>1, <2>1, <3>2 DEF HolderIs
      <4>2. QED  BY <4>1 DEF PSafe, HoldersConsistent, Relaying
    <3>3. QED  BY <3>1, <3>2
  <2>2. QED  BY <1>3, <2>1 DEF HoldersConsistent, Relaying
<1>8. WrittenOrPending'
  <2> SUFFICES ASSUME NEW s \in alive, NEW x \in Begun(s)', NEW d \in senders[s], <<s, d>> \in conn
               PROVE  Reaches(s, x, d)'
    BY <1>3 DEF WrittenOrPending
  <2>1. s \in Node /\ d \in Node
    BY DEF PTypeInv, BTypeOK
  <2>2. CASE s # n
    <3>1. Holder(s)' = Holder(s)
      BY <1>1, <2>1, <2>2 DEF HolderIs
    <3>2. x \in Begun(s)
      BY <1>3, <1>4, <2>1, <3>1 DEF Begun, Wrote, DeliveredSet
    <3>3. Reaches(s, x, d)
      BY <3>2 DEF PSafe, WrittenOrPending
    <3>4. QED  BY <1>3, <1>4, <2>1, <3>1, <3>3 DEF Reaches, Pending, Holder
  <2>3. CASE s = n /\ x = m
    <3>1. w \in Holder(n)' /\ w.rmsg = m /\ d \in w.rest \cup {w.dst}
      BY <1>1, <2>3 DEF HolderIs, Ahead
    <3>2. m \in Pending(n, d)'
      BY <3>1 DEF Pending, Holder
    <3>3. QED  BY <2>3, <3>2 DEF Reaches
  <2>4. CASE s = n /\ x # m
    <3>1. x \in Begun(n)
      BY <1>1, <1>3, <1>4, <2>1, <2>4 DEF Begun, Wrote, DeliveredSet, HolderIs, Ahead
    <3>2. Reaches(n, x, d)
      BY <2>4, <3>1 DEF PSafe, WrittenOrPending
    <3>3. Pending(n, d) = {}
      BY <1>2 DEF Pending, Holder
    <3>4. QED  BY <1>3, <1>4, <2>1, <2>4, <3>2, <3>3 DEF Reaches
  <2>5. QED  BY <2>2, <2>3, <2>4
<1>9. QED  BY <1>5, <1>6, <1>7, <1>8 DEF Kept, PSafe

\* Handing the lock on within the loop, or releasing it.
GoesOn(n, w) ==
  \/ /\ w.rest # {}
     /\ \E v \in Held : HolderIs(n, {v}) /\ Ahead(w.by, w.rmsg, w.rest, v)
     /\ tasks' = tasks
  \/ /\ w.rest = {}
     /\ HolderIs(n, {})
     /\ \/ w.by = App /\ tasks' = tasks
        \/ w.by # App /\ GoTo(n, w.by, "route", w.by.local)

\* After a write, the loop goes on or the lock is released.
LEMMA GoOnGoesOn ==
  ASSUME PTypeInv, NEW n \in Node, NEW w \in Held, GoOn(n, w)
  PROVE  GoesOn(n, w)
<1>1. w.by \in {App} \cup Task(Payload, PC) /\ w.rmsg \in Payload /\ w.rest \in SUBSET Node
  BY DEF Held
<1>2. CASE w.rest # {}
  <2>1. NextWrite(n, w.by, w.rmsg, w.rest) /\ tasks' = tasks
    BY <1>2 DEF GoOn
  <2>2. QED  BY <1>1, <1>2, <2>1, NextWriteHolder DEF GoesOn
<1>3. CASE w.rest = {}
  <2>1. HolderIs(n, {})
    BY <1>3, ReleaseHolder DEF GoOn
  <2>2. IF w.by = App THEN tasks' = tasks ELSE GoTo(n, w.by, "route", w.by.local)
    BY <1>3 DEF GoOn
  <2>3. QED  BY <1>3, <2>1, <2>2 DEF GoesOn
<1>4. QED  BY <1>2, <1>3

\* What a write does: it is the whole of what the proof below needs to know.
LEMMA WriteEffect ==
  ASSUME PTypeInv, PSafe, NEW n \in Node, NEW w \in Holder(n), Write(n, w)
  PROVE  /\ w \in Held /\ Holder(n) = {w} /\ w.rmsg \in Payload /\ w.rmsg \in sent
         /\ WroteTo(n, w.dst, w.rmsg)
         /\ GoesOn(n, w)
         /\ n \in alive
         /\ UNCHANGED <<received, sent, delivered>>
<1>1. w \in Held /\ Holder(n) = {w}
  BY HolderOne DEF PTypeInv, Holder
<1>2. w.dst \in Node /\ w.rmsg \in Payload
  BY <1>1 DEF Held
<1>3. WroteTo(n, w.dst, w.rmsg)
  BY <1>2, WriteInFlight, EjectInFlight DEF Write
<1>4. GoOn(n, w)
  BY DEF Write
<1>5. GoesOn(n, w)
  BY <1>1, <1>4, GoOnGoesOn
<1>6. QED  BY <1>1, <1>2, <1>3, <1>5 DEF Write, PSafe, HoldersConsistent

\* How the handler tasks change when the loop of w goes on: a handler that
\* finished goes on to the router with its message.
TasksGoOn(n, w) ==
  /\ tasks' \in [Node -> SUBSET Task(Payload, PC)]
  /\ \A s \in Node : s # n => tasks'[s] = tasks[s]
  /\ \/ tasks'[n] = tasks[n]
     \/ \E t \in tasks[n], moved \in Task(Payload, PC) :
          /\ t.rmsg = w.rmsg /\ moved.rmsg = w.rmsg
          /\ tasks'[n] = (tasks[n] \ {t}) \cup {moved}
          /\ w.rest = {}

\* Going on moves at most the task of the holder, and only at the end of its loop.
LEMMA GoesOnTasks ==
  ASSUME PTypeInv, PSafe, NEW n \in Node, NEW w \in Holder(n), GoesOn(n, w)
  PROVE  TasksGoOn(n, w)
<1>1. CASE tasks' = tasks
  BY <1>1 DEF TasksGoOn, PTypeInv, RTypeOK
<1>2. CASE w.rest = {} /\ w.by # App /\ GoTo(n, w.by, "route", w.by.local)
  <2>1. Relaying(n, w)
    BY <1>2 DEF PSafe, HoldersConsistent
  <2>2. PICK t \in tasks[n] : t = w.by /\ t.rmsg = w.rmsg
    BY <2>1 DEF Relaying
  <2>3. t \in Task(Payload, PC)
    BY DEF PTypeInv, RTypeOK
  <2>4. PICK moved : moved = At(t, "route", t.local)
    OBVIOUS
  <2>5. moved \in Task(Payload, PC) /\ moved.rmsg = w.rmsg
    BY <2>2, <2>3, <2>4 DEF Task, PC, At
  <2>6. tasks' = [tasks EXCEPT ![n] = (tasks[n] \ {t}) \cup {moved}]
    BY <1>2, <2>2, <2>4 DEF GoTo
  <2>7. /\ tasks'[n] = (tasks[n] \ {t}) \cup {moved}
        /\ \A s \in Node : s # n => tasks'[s] = tasks[s]
        /\ tasks' \in [Node -> SUBSET Task(Payload, PC)]
    BY <2>3, <2>5, <2>6 DEF PTypeInv, RTypeOK
  <2>8. QED  BY <1>2, <2>2, <2>5, <2>7 DEF TasksGoOn
<1>3. QED  BY <1>1, <1>2 DEF GoesOn

\* A write keeps the invariant: what it does not put in flight is for a
\* member that is ejected, or on a connection that broke.
LEMMA WriteKeeps ==
  ASSUME PTypeInv, PSafe, NEW n \in Node, NEW w \in Holder(n), Write(n, w)
  PROVE  Kept
<1>1. PICK m \in Payload : m = w.rmsg
  BY WriteEffect
<1>2. /\ w \in Held /\ Holder(n) = {w} /\ m \in sent
      /\ WroteTo(n, w.dst, m)
      /\ GoesOn(n, w)
      /\ UNCHANGED <<received, sent, delivered>>
  BY <1>1, WriteEffect
<1>3. TasksGoOn(n, w)
  BY <1>2, GoesOnTasks
<1>4. \/ w.rest = {} /\ HolderIs(n, {})
      \/ \E v \in Held : HolderIs(n, {v}) /\ Ahead(w.by, m, w.rest, v) /\ tasks' = tasks
  BY <1>1, <1>2 DEF GoesOn
<1>5. PTypeInv'
  <2>1. RTypeOK(Payload, PC)'
    BY <1>2, <1>3 DEF PTypeInv, RTypeOK, TasksGoOn
  <2>2. writing' \in [Node -> Holds]
    BY <1>4 DEF HolderIs
  <2>3. QED  BY <1>2, <2>1, <2>2 DEF PTypeInv, WroteTo, ConnAlive
<1>6. TasksConsistent'
  <2>1. ASSUME NEW s \in Node
        PROVE  /\ \A t \in tasks'[s] : t.rmsg \in received[s] \ DeliveredSet(s)
               /\ \A t, u \in tasks'[s] : t.rmsg = u.rmsg => t = u
    <3>1. CASE tasks'[s] = tasks[s]
      BY <3>1 DEF PSafe, TasksConsistent
    <3>2. ASSUME s = n, NEW t \in tasks[n], NEW moved, t.rmsg = m, moved.rmsg = m,
                 tasks'[n] = (tasks[n] \ {t}) \cup {moved}
          PROVE  /\ \A v \in tasks'[s] : v.rmsg \in received[s] \ DeliveredSet(s)
                 /\ \A v, u \in tasks'[s] : v.rmsg = u.rmsg => v = u
      <4>1. m \in received[n] \ DeliveredSet(n)
        BY <3>2 DEF PSafe, TasksConsistent
      <4>2. \A v \in tasks[n] \ {t} : v.rmsg # m
        BY <3>2 DEF PSafe, TasksConsistent
      <4>3. QED  BY <3>2, <4>1, <4>2 DEF PSafe, TasksConsistent
    <3>3. QED  BY <1>1, <1>3, <3>1, <3>2 DEF TasksGoOn
  <2>2. ASSUME NEW s \in Node, NEW d \in Node  PROVE InFlight(s, d)' \subseteq sent
    BY <1>2 DEF WroteTo, PSafe, TasksConsistent
  <2>3. QED  BY <1>2, <2>1, <2>2 DEF PSafe, TasksConsistent, DeliveredSet
<1>7. HoldersConsistent'
  <2>1. ASSUME NEW s \in Node, NEW v \in Holder(s)'
        PROVE  /\ v.rmsg \in sent
               /\ v.dst \in senders'[s] \ v.rest /\ v.rest \subseteq senders'[s]
               /\ v.by = App \/ Relaying(s, v)'
    <3>1. CASE s # n
      <4>1. v \in Holder(s) /\ tasks'[s] = tasks[s] /\ senders'[s] = senders[s]
        BY <1>2, <1>3, <1>4, <2>1, <3>1 DEF HolderIs, TasksGoOn, WroteTo
      <4>2. QED  BY <4>1 DEF PSafe, HoldersConsistent, Relaying
    <3>2. CASE s = n
      <4>1. Ahead(w.by, m, w.rest, v) /\ tasks' = tasks
        BY <1>4, <2>1, <3>2 DEF HolderIs
      <4>2. v.by = App \/ Relaying(n, v)'
        BY <1>1, <4>1 DEF PSafe, HoldersConsistent, Relaying, Ahead
      <4>3. w.rest \subseteq senders[n] /\ w.dst \notin w.rest
        BY DEF PSafe, HoldersConsistent
      <4>4. v.dst \in senders'[n] \ v.rest /\ v.rest \subseteq senders'[n]
        BY <1>2, <4>1, <4>3 DEF Ahead, WroteTo
      <4>5. QED  BY <1>2, <3>2, <4>1, <4>2, <4>4 DEF Ahead
    <3>3. QED  BY <3>1, <3>2
  <2>2. QED  BY <1>2, <2>1 DEF HoldersConsistent
<1>8. WrittenOrPending'
  <2> SUFFICES ASSUME NEW s \in alive, NEW x \in Begun(s)', NEW d \in senders'[s], <<s, d>> \in conn
               PROVE  Reaches(s, x, d)'
    BY <1>2 DEF WrittenOrPending, WroteTo
  <2>1. s \in Node /\ d \in Node /\ d \in senders[s]
    BY <1>2 DEF PTypeInv, BTypeOK, WroteTo
  <2>2. CASE s # n
    <3>1. Holder(s)' = Holder(s) /\ tasks'[s] = tasks[s]
      BY <1>3, <1>4, <2>1, <2>2 DEF HolderIs, TasksGoOn
    <3>2. x \in Begun(s)
      BY <1>2, <2>1, <2>2, <3>1 DEF Begun, Wrote, DeliveredSet, WroteTo
    <3>3. Reaches(s, x, d)
      BY <2>1, <3>2 DEF PSafe, WrittenOrPending
    <3>4. QED  BY <1>2, <2>1, <2>2, <3>1, <3>3 DEF Reaches, Pending, Holder, WroteTo
  <2>3. CASE s = n
    <3>1. x \in Begun(n)
      <4>1. m \in Begun(n)
        BY <1>1 DEF Begun, Wrote
      <4>2. InFlight(n, n)' \subseteq InFlight(n, n) \cup {m} /\ DeliveredSet(n)' = DeliveredSet(n)
        BY <1>2 DEF WroteTo, DeliveredSet
      <4>3. \A v \in Holder(n)' : v.rmsg = m
        BY <1>4 DEF HolderIs, Ahead
      <4>4. \A t \in tasks'[n] : t \in tasks[n] \/ t.rmsg = m
        BY <1>1, <1>3 DEF TasksGoOn
      <4>5. QED  BY <2>3, <4>1, <4>2, <4>3, <4>4 DEF Begun, Wrote
    <3>2. Reaches(n, x, d)
      BY <2>1, <2>3, <3>1 DEF PSafe, WrittenOrPending
    <3>3. InFlight(n, d) \subseteq InFlight(n, d)' /\ received'[d] = received[d]
      BY <1>2, <2>1 DEF WroteTo
    <3>4. CASE x \in received[d] \cup InFlight(n, d)
      BY <2>3, <3>3, <3>4 DEF Reaches
    <3>5. CASE x \in Pending(n, d)
      <4>1. x = m /\ d \in w.rest \cup {w.dst}
        BY <1>1, <1>2, <3>5 DEF Pending, Holder
      <4>2. CASE d = w.dst
        BY <1>2, <2>3, <4>1, <4>2 DEF WroteTo, Reaches
      <4>3. CASE d \in w.rest
        <5>1. PICK v \in Held : HolderIs(n, {v}) /\ Ahead(w.by, m, w.rest, v)
          BY <1>4, <4>3
        <5>2. v \in Holder(n)' /\ v.rmsg = m /\ d \in v.rest \cup {v.dst}
          BY <4>3, <5>1 DEF HolderIs, Ahead
        <5>3. m \in Pending(n, d)'
          BY <5>2 DEF Pending, Holder
        <5>4. QED  BY <2>3, <4>1, <5>3 DEF Reaches
      <4>4. QED  BY <4>1, <4>2, <4>3
    <3>6. QED  BY <3>2, <3>4, <3>5 DEF Reaches
  <2>4. QED  BY <2>2, <2>3
<1>9. QED  BY <1>5, <1>6, <1>7, <1>8 DEF Kept, PSafe

\* So does receiving: what is read is recorded.
LEMMA ReceiveKeeps ==
  ASSUME PTypeInv, PSafe, NEW s \in Node, NEW n \in Node, PReceive(s, n)
  PROVE  Kept
<1>1. PICK m : m = Head(net[s][n]).body
  OBVIOUS
<1>2. /\ BTypeOK(Frames(Payload))' /\ RTypeOK(Payload, PC)'
      /\ Reads(s, n, Head(net[s][n])) /\ m \in Payload
  BY <1>1, FirstStepType DEF PReceive, Receive, PTypeInv, PC
<1>3. /\ InFlight(s, n) = InFlight(s, n)' \cup {m}
      /\ \A e, d \in Node : <<e, d>> # <<s, n>> => InFlight(e, d)' = InFlight(e, d)
  BY <1>1, <1>2, ReadInFlight
<1>4. UNCHANGED <<alive, conn, senders, sent, delivered, writing>>
  BY <1>2 DEF Reads, PReceive, Receive
<1>5. PICK new : new = NewTask(n, s, m)
  OBVIOUS
<1>6. \/ /\ m \notin received[n]
         /\ received'[n] = received[n] \cup {m}
         /\ tasks'[n] = tasks[n] \cup {new}
      \/ /\ m \in received[n]
         /\ UNCHANGED <<received, tasks>>
  BY <1>1, <1>5 DEF PReceive, Receive, ReceiveR, IsNew, rvars, PTypeInv, RTypeOK
<1>7. \A e \in Node : e # n => received'[e] = received[e] /\ tasks'[e] = tasks[e]
  BY DEF PReceive, Receive, ReceiveR, rvars, PTypeInv, RTypeOK
<1>8. new.rmsg = m /\ (new.pc = "route" => s = n)
  BY <1>5 DEF NewTask, EntryPoint
<1>9. m \in sent
  BY <1>3 DEF PSafe, TasksConsistent
<1>10. PTypeInv'
  BY <1>2, <1>4 DEF PTypeInv, ConnAlive
<1>11. TasksConsistent'
  <2>1. ASSUME NEW e \in Node
        PROVE  /\ \A t \in tasks'[e] : t.rmsg \in received'[e] \ DeliveredSet(e)
               /\ \A t, u \in tasks'[e] : t.rmsg = u.rmsg => t = u
               /\ DeliveredSet(e) \subseteq received'[e]
               /\ received'[e] \subseteq sent
    <3>1. CASE e = n
      BY <1>6, <1>8, <1>9, <3>1 DEF PSafe, TasksConsistent
    <3>2. CASE e # n
      BY <1>7, <3>2 DEF PSafe, TasksConsistent
    <3>3. QED  BY <3>1, <3>2
  <2>2. \A e, d \in Node : InFlight(e, d)' \subseteq sent
    BY <1>3 DEF PSafe, TasksConsistent
  <2>3. QED  BY <1>4, <2>1, <2>2 DEF TasksConsistent, DeliveredSet
<1>12. HoldersConsistent'
  <2>1. \A e \in Node : tasks[e] \subseteq tasks'[e]
    BY <1>6, <1>7
  <2>2. QED  BY <1>4, <2>1 DEF PSafe, HoldersConsistent, Holder, Relaying
<1>13. WrittenOrPending'
  <2> SUFFICES ASSUME NEW e \in alive, NEW x \in Begun(e)', NEW d \in senders[e], <<e, d>> \in conn
               PROVE  Reaches(e, x, d)'
    BY <1>4 DEF WrittenOrPending
  <2>1. e \in Node /\ d \in Node
    BY DEF PTypeInv, BTypeOK
  <2>2. x \in Begun(e)
    <3>1. Holder(e)' = Holder(e) /\ DeliveredSet(e)' = DeliveredSet(e)
      BY <1>4 DEF Holder, DeliveredSet
    <3>2. InFlight(e, e)' \subseteq InFlight(e, e)
      BY <1>3, <2>1
    <3>3. \A t \in tasks'[e] : t.pc = "route" => t \in tasks[e] \/ t.rmsg \in InFlight(e, e)
      BY <1>3, <1>6, <1>7, <1>8, <2>1
    <3>4. QED  BY <3>1, <3>2, <3>3 DEF Begun, Wrote
  <2>3. Reaches(e, x, d)
    BY <2>2 DEF PSafe, WrittenOrPending
  <2>4. received[d] \subseteq received'[d] /\ Pending(e, d)' = Pending(e, d)
    BY <1>4, <1>6, <1>7, <2>1 DEF Pending
  <2>5. CASE e = s /\ d = n
    BY <1>3, <1>6, <2>3, <2>4, <2>5 DEF Reaches
  <2>6. CASE <<e, d>> # <<s, n>>
    BY <1>3, <2>1, <2>3, <2>4, <2>6 DEF Reaches
  <2>7. QED  BY <2>5, <2>6
<1>14. QED  BY <1>10, <1>11, <1>12, <1>13 DEF Kept, PSafe

\* So does running the handler: its task had written the message to all.
LEMMA RunKeeps ==
  ASSUME PTypeInv, PSafe, NEW n \in Node, NEW t \in tasks[n], PRun(n, t)
  PROVE  Kept
<1>1. PICK m \in Payload : m = t.rmsg
  BY DEF PTypeInv, RTypeOK, Task
<1>2. /\ UNCHANGED <<alive, conn, net, senders, memberUpdate, received, sent, writing>>
      /\ tasks'[n] = tasks[n] \ {t}
      /\ delivered'[n] = Append(delivered[n], m)
      /\ \A s \in Node : s # n => tasks'[s] = tasks[s] /\ delivered'[s] = delivered[s]
  BY <1>1 DEF PRun, Run, Return, bvars, PTypeInv, RTypeOK
<1>3. m \in received[n] \ DeliveredSet(n) /\ m \in sent
  BY <1>1 DEF PSafe, TasksConsistent
<1>4. DeliveredSet(n)' = DeliveredSet(n) \cup {m} /\ delivered'[n] \in Seq(Payload)
  BY <1>2, RangeAppend DEF PTypeInv, DeliveredSet
<1>5. \A s \in Node : s # n => DeliveredSet(s)' = DeliveredSet(s)
  BY <1>2 DEF DeliveredSet
<1>6. \A s, d \in Node : InFlight(s, d)' = InFlight(s, d) /\ Pending(s, d)' = Pending(s, d)
  BY <1>2 DEF InFlight, Bodies, Pending
<1>7. PTypeInv'
  <2>1. delivered' \in [Node -> Seq(Payload)]
    BY <1>1, <1>4 DEF PRun, Run, PTypeInv
  <2>2. tasks' \in [Node -> SUBSET Task(Payload, PC)]
    BY DEF PRun, Run, Return, PTypeInv, RTypeOK
  <2>3. QED  BY <1>2, <2>1, <2>2 DEF PTypeInv, BTypeOK, RTypeOK, ConnAlive
<1>8. TasksConsistent'
  <2>1. ASSUME NEW s \in Node
        PROVE  /\ \A u \in tasks'[s] : u.rmsg \in received[s] \ DeliveredSet(s)'
               /\ DeliveredSet(s)' \subseteq received[s]
    <3>1. CASE s = n
      BY <1>1, <1>2, <1>3, <1>4, <3>1 DEF PSafe, TasksConsistent
    <3>2. CASE s # n
      BY <1>2, <1>5, <3>2 DEF PSafe, TasksConsistent
    <3>3. QED  BY <3>1, <3>2
  <2>2. \A s \in Node : tasks'[s] \subseteq tasks[s]
    BY <1>2
  <2>3. QED  BY <1>2, <1>6, <2>1, <2>2 DEF PSafe, TasksConsistent
<1>9. HoldersConsistent'
  <2>1. ASSUME NEW s \in Node, NEW w \in Holder(s), Relaying(s, w)  PROVE Relaying(s, w)'
    <3>1. CASE s = n
      <4>1. w.by \in tasks[n] /\ w.by # t
        BY <2>1, <3>1 DEF Relaying, PRun, Run
      <4>2. QED  BY <1>2, <2>1, <3>1, <4>1 DEF Relaying
    <3>2. CASE s # n
      BY <1>2, <2>1, <3>2 DEF Relaying
    <3>3. QED  BY <3>1, <3>2
  <2>2. QED  BY <1>2, <2>1 DEF PSafe, HoldersConsistent, Holder
<1>10. WrittenOrPending'
  <2>1. m \in Begun(n)
    BY <1>1 DEF PRun, Run, Begun, Wrote
  <2>2. ASSUME NEW s \in Node  PROVE Begun(s)' \subseteq Begun(s)
    <3>1. InFlight(s, s)' = InFlight(s, s) /\ Holder(s)' = Holder(s)
      BY <1>2, <1>6 DEF Holder
    <3>2. CASE s = n
      BY <1>2, <1>4, <2>1, <3>1, <3>2 DEF Begun, Wrote
    <3>3. CASE s # n
      BY <1>2, <1>5, <3>1, <3>3 DEF Begun, Wrote
    <3>4. QED  BY <3>2, <3>3
  <2>3. alive \subseteq Node /\ \A s \in Node : senders[s] \subseteq Node
    BY DEF PTypeInv, BTypeOK
  <2>4. \A s, d \in Node : \A x : Reaches(s, x, d) => Reaches(s, x, d)'
    BY <1>2, <1>6 DEF Reaches
  <2>5. QED  BY <1>2, <2>2, <2>3, <2>4 DEF PSafe, WrittenOrPending
<1>11. QED  BY <1>7, <1>8, <1>9, <1>10 DEF Kept, PSafe

\* So does a crash, whether or not the node was in the middle of a loop.
LEMMA CrashKeeps ==
  ASSUME PTypeInv, PSafe, NEW n \in Node, PCrash(n)
  PROVE  Kept
<1>1. BTypeOK(Frames(Payload))' /\ ConnAlive' /\ Loses /\ alive' = alive \ {n}
  BY CrashStep DEF PCrash, Crash, RCrash, PTypeInv
<1>2. /\ UNCHANGED <<received, sent, delivered>>
      /\ tasks' \in [Node -> SUBSET Task(Payload, PC)]
      /\ tasks'[n] = {} /\ \A s \in Node : s # n => tasks'[s] = tasks[s]
  BY DEF PCrash, Crash, RCrash, PTypeInv, RTypeOK
<1>3. HolderIs(n, {})
  BY ReleaseHolder DEF PCrash, Crash
<1>4. PTypeInv'
  BY <1>1, <1>2, <1>3 DEF PTypeInv, RTypeOK, HolderIs
<1>5. \A s, d \in Node : InFlight(s, d)' \subseteq InFlight(s, d)
  BY <1>1, LoseInFlight
<1>6. senders' = senders
  BY <1>1 DEF Loses
<1>7. TasksConsistent'
  BY <1>2, <1>5 DEF PSafe, TasksConsistent, DeliveredSet
<1>8. HoldersConsistent'
  BY <1>2, <1>3, <1>6 DEF PSafe, HoldersConsistent, HolderIs, Relaying
<1>9. WrittenOrPending'
  <2> SUFFICES ASSUME NEW s \in alive', NEW x \in Begun(s)', NEW d \in senders[s], <<s, d>> \in conn'
               PROVE  Reaches(s, x, d)'
    BY <1>6 DEF WrittenOrPending
  <2>1. s \in alive /\ s # n /\ s \in Node /\ d \in Node /\ <<s, d>> \in conn
    BY <1>1 DEF Loses, PTypeInv, BTypeOK
  <2>2. Holder(s)' = Holder(s) /\ tasks'[s] = tasks[s]
    BY <1>2, <1>3, <2>1 DEF HolderIs
  <2>3. x \in Begun(s)
    BY <1>2, <1>5, <2>1, <2>2 DEF Begun, Wrote, DeliveredSet
  <2>4. Reaches(s, x, d)
    BY <2>1, <2>3 DEF PSafe, WrittenOrPending
  <2>5. InFlight(s, d)' = InFlight(s, d)
    BY <1>1, <2>1, LoseInFlight
  <2>6. QED  BY <1>2, <2>2, <2>4, <2>5 DEF Reaches, Pending, Holder
<1>10. QED  BY <1>4, <1>7, <1>8, <1>9 DEF Kept, PSafe

-----------------------------------------------------------------------------
\* Nothing is written, held or handled at the start.
LEMMA PInitInv == PInit => PTypeInv /\ PSafe
<1> SUFFICES ASSUME PInit  PROVE PTypeInv /\ PSafe
  OBVIOUS
<1>1. PTypeInv
  BY DEF PInit, Init, BInit, RInit, PTypeInv, BTypeOK, RTypeOK, Holds, ConnAlive
<1>2. Range(<<>>) = {}
  BY HolderOne
<1>3. \A n \in Node : Holder(n) = {} /\ DeliveredSet(n) = {} /\ \A d \in Node : InFlight(n, d) = {}
  BY <1>2 DEF PInit, Init, BInit, Holder, DeliveredSet, InFlight, Bodies
<1>4. \A n \in Node : tasks[n] = {} /\ received[n] = {}
  BY DEF PInit, Init, RInit
<1>5. TasksConsistent /\ HoldersConsistent
  BY <1>3, <1>4 DEF TasksConsistent, HoldersConsistent
<1>6. \A n \in Node : Begun(n) = {}
  BY <1>3, <1>4 DEF Begun, Wrote
<1>7. WrittenOrPending
  BY <1>1, <1>6 DEF WrittenOrPending, PTypeInv, BTypeOK
<1>8. QED  BY <1>1, <1>5, <1>7 DEF PSafe

\* The application, or a handler that relays, takes the lock for its message.
LEMMA SendKeeps ==
  ASSUME PTypeInv, PSafe, NEW n \in Node, NEW m \in Payload, PSend(n, m)
  PROVE  Kept
<1>1. Lock(n, App, m) /\ UNCHANGED <<bvars, rvars, delivered>> /\ sent' = sent \cup {m}
  BY DEF PSend
<1>2. m \in sent' /\ sent \subseteq sent' /\ sent' \subseteq Payload
  BY <1>1 DEF PTypeInv
<1>3. QED  BY <1>1, <1>2, LockKeeps

\* A handler that relays takes the lock for a message that it recorded.
LEMMA StartRelayKeeps ==
  ASSUME PTypeInv, PSafe, NEW n \in Node, NEW t \in tasks[n], StartRelay(n, t)
  PROVE  Kept
<1>1. PICK m \in Payload : m = t.rmsg /\ t \in Task(Payload, PC)
  BY DEF PTypeInv, RTypeOK, Task
<1>2. Lock(n, t, m) /\ UNCHANGED <<bvars, rvars, sent, delivered>> /\ t.pc = "relay"
  BY <1>1 DEF StartRelay
<1>3. m \in sent' /\ sent \subseteq sent' /\ sent' \subseteq Payload
  BY <1>1, <1>2 DEF PTypeInv, PSafe, TasksConsistent
<1>4. QED  BY <1>1, <1>2, <1>3, LockKeeps

\* Every step keeps the invariant.
LEMMA PNextInv == PTypeInv /\ PSafe /\ [PNext]_pvars => PTypeInv' /\ PSafe'
<1> SUFFICES ASSUME PTypeInv, PSafe, [PNext]_pvars  PROVE Kept
  BY DEF Kept
<1>1. ASSUME NEW n \in Node, NEW m \in Payload, PSend(n, m)  PROVE Kept
  BY <1>1, SendKeeps
<1>2. ASSUME NEW s \in Node, NEW n \in Node, PHandleConn(s, n)  PROVE Kept
  BY <1>2, ReceiveKeeps, StartRelayKeeps, RunKeeps DEF PHandleConn
<1>3. ASSUME NEW n \in Node, Hold(n)  PROVE Kept
  BY <1>3, WriteKeeps DEF Hold, Holder
<1>4. ASSUME NEW n \in Node, PCrash(n)  PROVE Kept
  BY <1>4, CrashKeeps
<1>5. CASE UNCHANGED pvars
  <2>1. UNCHANGED <<alive, conn, net, senders, memberUpdate, received, tasks, sent, delivered, writing>>
    BY <1>5 DEF pvars, vars, bvars, rvars
  <2>2. PTypeInv'
    BY <2>1 DEF PTypeInv, BTypeOK, RTypeOK, ConnAlive
  <2>3. TasksConsistent'
    BY <2>1 DEF PSafe, TasksConsistent, DeliveredSet, InFlight, Bodies
  <2>4. HoldersConsistent'
    BY <2>1 DEF PSafe, HoldersConsistent, Holder, Relaying
  <2>5. WrittenOrPending'
    <3>1. \A n : Begun(n)' = Begun(n)
      BY <2>1 DEF Begun, Wrote, Holder, InFlight, Bodies, DeliveredSet
    <3>2. \A n, x, d : Reaches(n, x, d)' <=> Reaches(n, x, d)
      BY <2>1 DEF Reaches, Pending, InFlight, Bodies
    <3>3. QED  BY <2>1, <3>1, <3>2 DEF PSafe, WrittenOrPending
  <2>6. QED  BY <2>2, <2>3, <2>4, <2>5 DEF Kept, PSafe
<1>6. QED  BY <1>1, <1>2, <1>3, <1>4, <1>5 DEF PNext

\* With writes that wait for room and crashes between two writes of a loop, a
\* message whose handler ran at n is at every member that n has a working
\* connection to, on its way, or about to be written by the goroutine that
\* holds senderLock of n (b_multicast.go:105-132, r_multicast.go:79-91).
THEOREM HandledReachesAllHolds == PSpec => []HandledReachesAll
<1>1. PTypeInv /\ PSafe => HandledReachesAll
  BY DEF PSafe, WrittenOrPending, HandledReachesAll, Begun, Wrote, Reaches
<1>2. QED  BY <1>1, PInitInv, PNextInv, PTL DEF PSpec

-----------------------------------------------------------------------------
\* The loop of writes is invisible to the abstract reliable multicast: PSend is
\* its Multicast, PRun its Deliver, PCrash its Crash (r_multicast.go:44-96).
THEOREM WritesRefinement == PSpec => ImplementsReliableMulticast
<1>1. PInit => RM!Init
  BY DEF PInit, Init, BInit, RM!Init
<1>2. PTypeInv /\ PSafe /\ [PNext]_pvars => [RM!Next]_(RM!vars)
  <2> SUFFICES ASSUME PTypeInv, PSafe, [PNext]_pvars  PROVE [RM!Next]_(RM!vars)
    OBVIOUS
  <2>1. ASSUME NEW n \in Node, NEW m \in Payload, PSend(n, m)  PROVE RM!Multicast(m)
    BY <2>1 DEF PSend, bvars, RM!Multicast
  <2>2. ASSUME NEW s \in Node, NEW n \in Node, PReceive(s, n)  PROVE UNCHANGED RM!vars
    BY <2>2 DEF PReceive, Receive, ReceiveR, Read, RM!vars
  <2>3. ASSUME NEW n \in Node, NEW t \in tasks[n], StartRelay(n, t)  PROVE UNCHANGED RM!vars
    BY <2>3 DEF StartRelay, bvars, RM!vars
  <2>4. ASSUME NEW n \in Node, NEW t \in tasks[n], PRun(n, t)
        PROVE  t.rmsg \in Payload /\ RM!Deliver(n, t.rmsg)
    <3>1. t.rmsg \in Payload
      BY DEF PTypeInv, RTypeOK, Task
    <3>2. t.rmsg \in sent \ DeliveredSet(n)
      BY DEF PSafe, TasksConsistent
    <3>3. n \in alive /\ UNCHANGED <<alive, sent>>
          /\ delivered' = [delivered EXCEPT ![n] = Append(@, t.rmsg)]
      BY <2>4 DEF PRun, Run, bvars
    <3>4. t.rmsg \in sent \ RM!DeliveredSet(n)
      BY <3>2 DEF DeliveredSet, RM!DeliveredSet, RM!Range, Range
    <3>5. QED  BY <3>1, <3>3, <3>4 DEF RM!Deliver
  <2>5. ASSUME NEW n \in Node, Hold(n)  PROVE UNCHANGED RM!vars
    BY <2>5 DEF Hold, Write, RM!vars
  <2>6. ASSUME NEW n \in Node, PCrash(n)  PROVE RM!Crash(n)
    BY <2>6 DEF PCrash, Crash, RCrash, NodeCrash, RM!Crash
  <2>7. CASE UNCHANGED pvars
    BY <2>7 DEF pvars, vars, bvars, RM!vars
  <2>8. QED
    BY <2>1, <2>2, <2>3, <2>4, <2>5, <2>6, <2>7 DEF PNext, PHandleConn, RM!Next
<1>3. QED  BY <1>1, <1>2, PInitInv, PNextInv, PTL DEF PSpec, ImplementsReliableMulticast, RM!Spec
=============================================================================
