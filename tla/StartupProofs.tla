--------------------------- MODULE StartupProofs ----------------------------
(***************************************************************************)
(* Proofs about Startup, for every set of nodes and all configuration      *)
(* files.                                                                  *)
(***************************************************************************)
EXTENDS Startup, SequenceTheorems, FiniteSetTheorems, WellFoundedInduction, TLAPS

-----------------------------------------------------------------------------
(***************************************************************************)
(* What ConfigItems returns.                                               *)
(***************************************************************************)

\* Induction over the naturals, for a set of numbers.
LEMMA NatSetInduction ==
  ASSUME NEW S, 0 \in S, \A k \in S \cap Nat : k + 1 \in S
  PROVE  Nat \subseteq S
<1> SUFFICES ASSUME Nat \ S # {}  PROVE FALSE
  OBVIOUS
<1>1. PICK k \in Nat \ S : \A l \in Nat \ S : <<l, k>> \notin OpToRel(<, Nat)
  BY NatLessThanWellFounded, WFMin
<1>2. \A l \in Nat : l < k => l \in S
  BY <1>1 DEF OpToRel
<1>3. k # 0 /\ k \in Nat /\ k \notin S
  BY <1>1
<1>4. k - 1 \in Nat /\ k - 1 < k /\ (k - 1) + 1 = k
  BY <1>3
<1>5. k - 1 \in S
  BY <1>2, <1>4
<1>6. QED  BY <1>3, <1>4, <1>5

\* The variable configItem of the loop after i lines, for i up to k.
Loop(line, k, configItem) ==
  configItem = [i \in 0 .. k |->
                  IF i = 0 THEN <<>>
                  ELSE IF line[i] = blank THEN configItem[i - 1]
                  ELSE Append(configItem[i - 1], line[i])]

\* The loop can be run for any number of iterations.
LEMMA LoopExists ==
  ASSUME NEW line
  PROVE  \A k \in Nat : \E configItem : Loop(line, k, configItem)
<1> DEFINE S == {k \in Nat : \E configItem : Loop(line, k, configItem)}
<1>1. 0 \in S
  <2>1. PICK first : first = [i \in 0 .. 0 |-> <<>>]
    OBVIOUS
  <2>2. Loop(line, 0, first)
    BY <2>1 DEF Loop
  <2>3. QED  BY <2>2
<1>2. ASSUME NEW k \in S \cap Nat  PROVE k + 1 \in S
  <2>1. PICK items : Loop(line, k, items)
    OBVIOUS
  <2>2. PICK more : more = [i \in 0 .. k + 1 |->
                              IF i = k + 1
                                THEN IF line[i] = blank THEN items[k] ELSE Append(items[k], line[i])
                                ELSE items[i]]
    OBVIOUS
  <2>3. \A i \in 0 .. k : items[i] = IF i = 0 THEN <<>>
                                     ELSE IF line[i] = blank THEN items[i - 1]
                                     ELSE Append(items[i - 1], line[i])
    BY <2>1 DEF Loop
  <2>4. \A i \in 0 .. k : more[i] = items[i]
    BY <2>2
  <2>5. ASSUME NEW i \in 0 .. k + 1
        PROVE  more[i] = IF i = 0 THEN <<>>
                         ELSE IF line[i] = blank THEN more[i - 1]
                         ELSE Append(more[i - 1], line[i])
    <3>1. CASE i = k + 1
      <4>1. i - 1 = k /\ k \in 0 .. k /\ i # 0
        BY <3>1
      <4>2. more[i] = IF line[i] = blank THEN items[k] ELSE Append(items[k], line[i])
        BY <2>2, <3>1
      <4>3. more[i - 1] = items[k]
        BY <2>4, <4>1
      <4>4. QED  BY <4>1, <4>2, <4>3
    <3>2. CASE i # k + 1
      <4>1. i \in 0 .. k /\ (i # 0 => i - 1 \in 0 .. k)
        BY <3>2
      <4>2. QED  BY <2>3, <2>4, <4>1
    <3>3. QED  BY <3>1, <3>2
  <2>6. more = [i \in 0 .. k + 1 |-> IF i = 0 THEN <<>>
                                     ELSE IF line[i] = blank THEN more[i - 1]
                                     ELSE Append(more[i - 1], line[i])]
    BY <2>2, <2>5
  <2>7. Loop(line, k + 1, more)
    BY <2>6 DEF Loop
  <2>8. k + 1 \in Nat
    OBVIOUS
  <2>9. QED  BY <2>7, <2>8
<1> HIDE DEF S
<1>3. Nat \subseteq S
  BY <1>1, <1>2, NatSetInduction
<1>4. QED  BY <1>3 DEF S

\* Appending adds one element.
LEMMA AppendRange ==
  ASSUME NEW T, NEW s \in Seq(T), NEW x \in T
  PROVE  /\ Append(s, x) \in Seq(T)
         /\ Range(Append(s, x)) = Range(s) \cup {x}
<1>1. /\ Append(s, x) \in Seq(T) /\ Len(Append(s, x)) = Len(s) + 1 /\ Len(s) \in Nat
      /\ \A i \in 1 .. Len(s) : Append(s, x)[i] = s[i]
      /\ Append(s, x)[Len(s) + 1] = x
  BY AppendProperties, LenProperties
<1>2. DOMAIN s = 1 .. Len(s) /\ DOMAIN Append(s, x) = (1 .. Len(s)) \cup {Len(s) + 1}
  BY <1>1, LenProperties
<1>3. QED  BY <1>1, <1>2 DEF Range

\* After i lines the loop has collected those of them that are no blank lines.
LEMMA LoopCollects ==
  ASSUME NEW T, NEW line \in Seq(T), NEW items, Loop(line, Len(line), items)
  PROVE  \A i \in 0 .. Len(line) :
           /\ items[i] \in Seq(T)
           /\ Range(items[i]) = {line[j] : j \in 1 .. i} \ {blank}
<1> DEFINE Good(i) == i \in 0 .. Len(line) =>
                        /\ items[i] \in Seq(T)
                        /\ Range(items[i]) = {line[j] : j \in 1 .. i} \ {blank}
           S == {i \in Nat : Good(i)}
<1>0. Len(line) \in Nat /\ \A j \in 1 .. Len(line) : line[j] \in T
  BY LenProperties, ElementOfSeq
<1>1. \A i \in 0 .. Len(line) : items[i] = IF i = 0 THEN <<>>
                                           ELSE IF line[i] = blank THEN items[i - 1]
                                           ELSE Append(items[i - 1], line[i])
  BY DEF Loop
<1>2. 0 \in S
  <2>1. items[0] = <<>>
    BY <1>0, <1>1
  <2>2. <<>> \in Seq(T) /\ Range(<<>>) = {}
    BY EmptySeq DEF Range
  <2>3. {line[j] : j \in 1 .. 0} = {}
    OBVIOUS
  <2>4. QED  BY <2>1, <2>2, <2>3
<1>3. ASSUME NEW k \in S \cap Nat  PROVE k + 1 \in S
  <2> SUFFICES ASSUME k + 1 \in 0 .. Len(line)  PROVE Good(k + 1)
    OBVIOUS
  <2>1. /\ k \in 0 .. Len(line) /\ k + 1 \in 1 .. Len(line) /\ k + 1 # 0 /\ (k + 1) - 1 = k
        /\ line[k + 1] \in T
    BY <1>0
  <2>2. items[k] \in Seq(T) /\ Range(items[k]) = {line[j] : j \in 1 .. k} \ {blank}
    BY <2>1
  <2>3. {line[j] : j \in 1 .. k + 1} = {line[j] : j \in 1 .. k} \cup {line[k + 1]}
    <3>1. 1 .. k + 1 = (1 .. k) \cup {k + 1}
      OBVIOUS
    <3>2. QED  BY <3>1
  <2>4. items[k + 1] = IF line[k + 1] = blank THEN items[k] ELSE Append(items[k], line[k + 1])
    BY <1>1, <2>1
  <2>5. CASE line[k + 1] = blank
    BY <2>2, <2>3, <2>4, <2>5
  <2>6. CASE line[k + 1] # blank
    <3>1. /\ Append(items[k], line[k + 1]) \in Seq(T)
          /\ Range(Append(items[k], line[k + 1])) = Range(items[k]) \cup {line[k + 1]}
      BY <2>1, <2>2, AppendRange
    <3>2. QED  BY <2>2, <2>3, <2>4, <2>6, <3>1
  <2>7. QED  BY <2>5, <2>6
<1>4. Nat \subseteq S
  <2> HIDE DEF S
  <2>1. QED  BY <1>2, <1>3, NatSetInduction
<1>5. ASSUME NEW i \in 0 .. Len(line)  PROVE Good(i)
  <2>1. i \in Nat
    BY <1>0
  <2> HIDE DEF S, Good
  <2>2. i \in S
    BY <1>4, <2>1
  <2>3. QED  BY <2>2 DEF S
<1>6. QED  BY <1>5

\* ConfigItems returns the lines that are read and are no blank lines.
LEMMA ConfigItemsCollects ==
  ASSUME NEW f \in File
  PROVE  /\ LinesRead(f) \in Seq(Node \cup {blank})
         /\ ConfigItems(f) \in Seq(Node \cup {blank})
         /\ Range(ConfigItems(f)) = Range(LinesRead(f)) \ {blank}
<1>1. f.lines \in Seq(Node \cup {blank}) /\ f.count \in Nat /\ Len(f.lines) \in Nat
  BY LenProperties DEF File
<1>2. PICK k \in 0 .. Len(f.lines) : LinesRead(f) = SubSeq(f.lines, 1, k)
  <2>1. CASE f.count + 1 < Len(f.lines)
    BY <1>1, <2>1 DEF LinesRead, Limit
  <2>2. CASE ~(f.count + 1 < Len(f.lines))
    BY <1>1, <2>2 DEF LinesRead, Limit
  <2>3. QED  BY <2>1, <2>2
<1>3. LinesRead(f) \in Seq(Node \cup {blank})
  BY <1>1, <1>2, SubSeqProperties
<1>4. PICK line : line = LinesRead(f) /\ line \in Seq(Node \cup {blank})
  BY <1>3
<1>5. Len(line) \in Nat /\ DOMAIN line = 1 .. Len(line)
  BY <1>4, LenProperties
<1>6. PICK items : Loop(line, Len(line), items) /\ ConfigItems(f) = items[Len(line)]
  <2>1. \E configItem : Loop(line, Len(line), configItem)
    BY <1>5, LoopExists
  <2>2. PICK items : items = CHOOSE configItem : Loop(line, Len(line), configItem)
    OBVIOUS
  <2>3. Loop(line, Len(line), items)
    BY <2>1, <2>2
  <2>4. ConfigItems(f) = (CHOOSE configItem : Loop(line, Len(line), configItem))[Len(line)]
    BY <1>4 DEF ConfigItems, Loop
  <2>5. QED  BY <2>2, <2>3, <2>4
<1>7. \A i \in 0 .. Len(line) :
        /\ items[i] \in Seq(Node \cup {blank})
        /\ Range(items[i]) = {line[j] : j \in 1 .. i} \ {blank}
  <2>1. \A T : line \in Seq(T) /\ Loop(line, Len(line), items) =>
          \A i \in 0 .. Len(line) :
            /\ items[i] \in Seq(T)
            /\ Range(items[i]) = {line[j] : j \in 1 .. i} \ {blank}
    BY LoopCollects
  <2>2. QED  BY <1>4, <1>6, <2>1
<1>8. Range(line) = {line[j] : j \in 1 .. Len(line)}
  BY <1>5 DEF Range
<1>9. Len(line) \in 0 .. Len(line)
  BY <1>5
<1>10. QED  BY <1>3, <1>4, <1>6, <1>7, <1>8, <1>9

-----------------------------------------------------------------------------
(***************************************************************************)
(* The inductive invariant.                                                *)
(***************************************************************************)

Item == Node \cup {blank}

Types ==
  /\ file \in [Node -> UNION Range(ConfigFiles)] /\ \A n \in Node : file[n] \in ConfigFiles[n]
  /\ taken \subseteq MayFailListen
  /\ proc \in [Node -> {"off", "up", "started", "exited", "panicked", "crashed"}]
  /\ added \in [Node -> Nat]
  /\ server \in [Node -> {"starting", "listening", "failed"}]
  /\ dialed \in [Node -> Nat]
  /\ client \in [Node -> {"dial", "hello", "done", "finished", "failed"}]
  /\ senders \in [Node -> UNION {[S -> {"ok", "nil"}] : S \in SUBSET Item}]
  /\ waitGroup \in [Node -> Nat]
  /\ handler \in [Node -> [Node -> {"none", "hello", "waiting", "reading"}]]

\* The two goroutines that share the counter take turns in no order; what it
\* holds is what one has added and the other has not yet taken away.
Counted == \A n \in Node :
  /\ waitGroup[n] + dialed[n] = added[n]
  /\ added[n] <= Adds(n)
  /\ server[n] # "starting" => added[n] = Adds(n)

\* Connections, and clients that are writing their handshake, have a member
\* that listens, or one whose port is taken, which has no handler; a handler
\* that reads has a node whose clients are ready.
Linked == \A n \in Node :
  /\ client[n] = "hello" /\ Dst(n) \in Node \ taken => server[Dst(n)] = "listening"
  /\ server[n] = "listening" => n \notin taken
  /\ \A s \in Node : /\ handler[s][n] # "none" => server[n] = "listening"
                     /\ handler[s][n] = "reading" => client[n] = "finished"

HasClient(n, i) == Members(n)[i] \in DOMAIN senders[n] /\ senders[n][Members(n)[i]] = "ok"

\* How far startClients is.  The handshake of a node with itself, which is
\* the last, does not fail unless its port is taken.
DialedOf(n) ==
  /\ IF client[n] = "finished" \/ (client[n] = "failed" /\ n \in taken)
       THEN dialed[n] <= Len(Members(n)) ELSE dialed[n] < Len(Members(n))
  /\ client[n] = "finished" => dialed[n] = Len(Members(n))
  /\ client[n] = "done" => Dst(n) \in DOMAIN senders[n]
  /\ n \in DOMAIN senders[n] \ taken => senders[n][n] = "ok"
  /\ \A i \in 1 .. dialed[n] :
       HasClient(n, i) \/ client[n] = "failed" \/ (client[n] = "done" /\ Members(n)[i] = Dst(n))

Dialed == \A n \in Node : DialedOf(n)

IInv == Types /\ Counted /\ Linked /\ Dialed /\ PanicsOnlyWhileAdding
-----------------------------------------------------------------------------
\* The members of a group are a sequence of nodes, whose last is the node
\* itself.
LEMMA MembersFacts ==
  ASSUME Types, NEW n \in Node
  PROVE  /\ Members(n) \in Seq(Item)
         /\ Len(Members(n)) \in Nat /\ Len(Members(n)) > 0
         /\ Adds(n) = Len(Members(n))
         /\ Members(n)[Len(Members(n))] = n
         /\ \A i \in 1 .. Len(Members(n)) : Members(n)[i] \in Item
         /\ file[n] \in File
         /\ Range(Members(n)) = (Range(LinesRead(file[n])) \ {blank}) \cup {n}
<1>1. file[n] \in File
  BY FilesAssumption DEF FilesAssumption, Types
<1>2. PICK items : items = ConfigItems(file[n])
  OBVIOUS
<1>3. items \in Seq(Item) /\ n \in Item /\ Range(items) = Range(LinesRead(file[n])) \ {blank}
  BY <1>1, <1>2, ConfigItemsCollects DEF Item
<1>4. Members(n) = Append(items, n)
  BY <1>2 DEF Members
<1>5. Range(Append(items, n)) = Range(items) \cup {n}
  BY <1>3, AppendRange
<1>6. QED  BY <1>1, <1>3, <1>4, <1>5, AppendProperties DEF Adds

\* A configuration file does not change, and so the members do not.
LEMMA MembersStay ==
  ASSUME file' = file
  PROVE  \A n \in Node : /\ Members(n)' = Members(n)
                         /\ Adds(n)' = Adds(n)
  BY DEF Members, Adds

\* The member that is being dialed, which is the node itself when it is the
\* last.
LEMMA DstFacts ==
  ASSUME Types, NEW n \in Node, dialed[n] < Len(Members(n))
  PROVE  /\ Dst(n) \in Item
         /\ dialed[n] + 1 = Len(Members(n)) => Dst(n) = n
<1>1. dialed[n] \in Nat
  BY DEF Types
<1>2. QED  BY <1>1, MembersFacts DEF Dst

\* The member that is being dialed depends only on the file and on how many were dialed.
LEMMA DstStays ==
  ASSUME file' = file, NEW n \in Node, dialed'[n] = dialed[n]
  PROVE  Dst(n)' = Dst(n)
  BY MembersStay DEF Dst

\* Nothing is added, dialed or handled at the start.
LEMMA InitIInv ==
  ASSUME Init
  PROVE  IInv
<1>1. Types
  <2>1. \A n \in Node : senders[n] \in UNION {[S -> {"ok", "nil"}] : S \in SUBSET Item}
    <3>1. <<>> \in [{} -> {"ok", "nil"}]
      OBVIOUS
    <3>2. \A n \in Node : senders[n] = <<>>
      BY DEF Init
    <3>3. {} \in SUBSET Item
      OBVIOUS
    <3>4. QED  BY <3>1, <3>2, <3>3
  <2>2. senders \in [Node -> UNION {[S -> {"ok", "nil"}] : S \in SUBSET Item}]
    BY <2>1 DEF Init
  <2>3. file \in [Node -> UNION Range(ConfigFiles)] /\ \A n \in Node : file[n] \in ConfigFiles[n]
    BY DEF Init
  <2>4. QED  BY <2>2, <2>3 DEF Init, Types
<1>2. Counted
  BY <1>1, MembersFacts DEF Init, Counted
<1>3. Linked
  BY DEF Init, Linked
<1>4. Dialed
  <2>1. \A n \in Node : DOMAIN senders[n] = {}
    BY DEF Init
  <2>2. QED  BY <1>1, <2>1, MembersFacts DEF Init, Dialed, DialedOf
<1>5. PanicsOnlyWhileAdding
  BY DEF Init, PanicsOnlyWhileAdding
<1>6. QED  BY <1>1, <1>2, <1>3, <1>4, <1>5 DEF IInv
-----------------------------------------------------------------------------
\* Steps that change the state of a process and no more.
LEMMA ProcessStep ==
  ASSUME IInv, NEW n \in Node, NEW how \in {"up", "started", "exited", "crashed"},
         proc' = [proc EXCEPT ![n] = how],
         UNCHANGED <<file, taken, added, server, dialed, client, senders, waitGroup, handler>>
  PROVE  IInv'
<1>1. Types'
  BY DEF IInv, Types
<1>2. Counted'
  BY MembersStay DEF IInv, Counted
<1>3. Linked'
  BY DstStays DEF IInv, Linked
<1>4. Dialed'
  BY MembersStay, DstStays DEF IInv, Dialed, DialedOf, HasClient
<1>5. PanicsOnlyWhileAdding'
  BY MembersStay DEF IInv, Types, PanicsOnlyWhileAdding
<1>6. QED  BY <1>1, <1>2, <1>3, <1>4, <1>5 DEF IInv

\* startServer adds a member to the wait group (server.go).
LEMMA AddStep ==
  ASSUME IInv, NEW n \in Node, Add(n)
  PROVE  IInv'
<1>1. Types'
  BY DEF IInv, Types, Add
<1>2. Counted'
  BY MembersStay, MembersFacts DEF IInv, Types, Counted, Add
<1>3. Linked'
  BY DstStays DEF IInv, Linked, Add
<1>4. Dialed'
  BY MembersStay, DstStays DEF IInv, Dialed, DialedOf, HasClient, Add
<1>5. PanicsOnlyWhileAdding'
  BY MembersStay DEF IInv, Types, PanicsOnlyWhileAdding, Add
<1>6. QED  BY <1>1, <1>2, <1>3, <1>4, <1>5 DEF IInv

\* The server listens, or its port is taken.
LEMMA ListenStep ==
  ASSUME IInv, NEW n \in Node, Listen(n) \/ ListenFails(n)
  PROVE  IInv'
<1>1. PICK how \in {"listening", "failed"} :
        server' = [server EXCEPT ![n] = how] /\ (how = "listening" => n \notin taken)
  BY DEF Listen, ListenFails
<1>2. /\ proc[n] = "up" /\ server[n] = "starting" /\ added[n] = Adds(n)
      /\ UNCHANGED <<file, taken, proc, added, dialed, client, senders, waitGroup, handler>>
  BY DEF Listen, ListenFails, ReadyToListen
<1>3. Types'
  BY <1>1, <1>2 DEF IInv, Types
<1>4. Counted'
  BY <1>1, <1>2, MembersStay DEF IInv, Types, Counted
<1>5. Linked'
  BY <1>1, <1>2, DstStays DEF IInv, Types, Linked
<1>6. Dialed'
  BY <1>2, MembersStay, DstStays DEF IInv, Dialed, DialedOf, HasClient
<1>7. PanicsOnlyWhileAdding'
  BY <1>1, <1>2, MembersStay DEF IInv, Types, PanicsOnlyWhileAdding
<1>8. QED  BY <1>3, <1>4, <1>5, <1>6, <1>7 DEF IInv

\* A connection is made to a member that listens, or to who has its port.
LEMMA DialStep ==
  ASSUME IInv, NEW n \in Node, Dial(n)
  PROVE  IInv'
<1>1. /\ proc[n] = "up" /\ client[n] = "dial"
      /\ Dst(n) \notin taken => server[Dst(n)] = "listening"
      /\ client' = [client EXCEPT ![n] = "hello"]
      /\ handler' = IF Dst(n) \in taken THEN handler ELSE [handler EXCEPT ![n][Dst(n)] = "hello"]
      /\ UNCHANGED <<file, taken, proc, added, server, dialed, senders, waitGroup>>
  BY DEF Dial, Retry, Connected, Refused
<1>2. Types'
  BY <1>1 DEF IInv, Types
<1>3. Counted'
  BY <1>1, MembersStay DEF IInv, Counted
<1>4. Linked'
  BY <1>1, DstStays DEF IInv, Types, Linked
<1>5. Dialed'
  <2> SUFFICES ASSUME NEW d \in Node
               PROVE  DialedOf(d)'
    BY DEF Dialed
  <2>1. DialedOf(d) /\ client \in [Node -> {"dial", "hello", "done", "finished", "failed"}]
    BY DEF IInv, Dialed, Types
  <2>2. Members(d)' = Members(d) /\ Dst(d)' = Dst(d)
    BY <1>1, MembersStay, DstStays
  <2>3. d # n => client'[d] = client[d]
    BY <1>1, <2>1
  <2>4. d = n => client'[d] = "hello"
    BY <1>1, <2>1
  <2>5. dialed' = dialed /\ senders' = senders
    BY <1>1
  <2>6. QED  BY <1>1, <2>1, <2>2, <2>3, <2>4, <2>5 DEF DialedOf, HasClient
<1>6. PanicsOnlyWhileAdding'
  BY <1>1, MembersStay DEF IInv, PanicsOnlyWhileAdding
<1>7. QED  BY <1>2, <1>3, <1>4, <1>5, <1>6 DEF IInv

\* A handler finds the counter of the wait group at 0.
LEMMA WaitStep ==
  ASSUME IInv, NEW s \in Node, NEW n \in Node, Wait(s, n)
  PROVE  IInv'
<1>1. /\ handler[s][n] # "none" /\ waitGroup[n] = 0
      /\ handler' = [handler EXCEPT ![s][n] = "reading"]
      /\ UNCHANGED <<file, taken, proc, added, server, dialed, client, senders, waitGroup>>
  BY DEF Wait
<1>2. client[n] = "finished"
  <2>1. server[n] = "listening"
    BY <1>1 DEF IInv, Linked
  <2>2. dialed[n] = Len(Members(n))
    <3>1. /\ waitGroup[n] + dialed[n] = added[n]
          /\ added[n] = Adds(n)
      BY <2>1 DEF IInv, Counted
    <3>2. dialed[n] \in Nat /\ Adds(n) = Len(Members(n))
      BY MembersFacts DEF IInv, Types
    <3>3. QED  BY <1>1, <3>1, <3>2
  <2>3. n \notin taken
    BY <2>1 DEF IInv, Linked
  <2>4. QED  BY <2>2, <2>3, MembersFacts DEF IInv, Types, Dialed, DialedOf
<1>3. Types'
  BY <1>1 DEF IInv, Types
<1>4. Counted'
  BY <1>1, MembersStay DEF IInv, Counted
<1>5. Linked'
  BY <1>1, <1>2, DstStays DEF IInv, Types, Linked
<1>6. Dialed'
  BY <1>1, MembersStay, DstStays DEF IInv, Dialed, DialedOf, HasClient
<1>7. PanicsOnlyWhileAdding'
  BY <1>1, MembersStay DEF IInv, PanicsOnlyWhileAdding
<1>8. QED  BY <1>3, <1>4, <1>5, <1>6, <1>7 DEF IInv

\* The handshake is written, and read if the member still runs.
LEMMA HelloStep ==
  ASSUME IInv, NEW n \in Node, Hello(n)
  PROVE  IInv'
<1>1. /\ proc[n] = "up" /\ client[n] = "hello"
      /\ client' = [client EXCEPT ![n] = "done"]
      /\ \E how \in {"waiting", "none"} :
           /\ handler' = [handler EXCEPT ![n][Dst(n)] = how]
           /\ how = "waiting" => Dst(n) \notin taken
      /\ UNCHANGED <<file, taken, proc, added, server, dialed, waitGroup>>
  BY DEF Hello
<1>2. PICK result \in {"ok", "nil"} :
        /\ result = "nil" => Dst(n) \in taken \/ ~Running(Dst(n))
        /\ senders' = [senders EXCEPT ![n] =
                         [d \in DOMAIN @ \cup {Dst(n)} |-> IF d = Dst(n) THEN result ELSE @[d]]]
  BY DEF Hello
<1>3. Types /\ DialedOf(n)
  BY DEF IInv, Dialed
<1>4. dialed[n] < Len(Members(n)) /\ Dst(n) \in Item
  BY <1>1, <1>3, DstFacts DEF DialedOf
<1>5. PICK S \in SUBSET Item : senders[n] \in [S -> {"ok", "nil"}]
  BY <1>3 DEF Types
<1>6. /\ senders'[n] \in [S \cup {Dst(n)} -> {"ok", "nil"}]
      /\ senders'[n][Dst(n)] = result
      /\ \A d \in S : d # Dst(n) => senders'[n][d] = senders[n][d]
      /\ \A d \in Node : d # n => senders'[d] = senders[d]
  BY <1>2, <1>3, <1>5 DEF Types
<1>7. Types'
  <2>1. senders' \in [Node -> UNION {[T -> {"ok", "nil"}] : T \in SUBSET Item}]
    <3>1. \A d \in Node : senders'[d] \in UNION {[T -> {"ok", "nil"}] : T \in SUBSET Item}
      <4>1. S \cup {Dst(n)} \in SUBSET Item
        BY <1>4, <1>5
      <4>2. senders'[n] \in UNION {[T -> {"ok", "nil"}] : T \in SUBSET Item}
        BY <1>6, <4>1
      <4>3. QED  BY <1>3, <1>6, <4>2 DEF Types
    <3>2. QED  BY <1>2, <1>3, <3>1 DEF Types
  <2>2. PICK how \in {"waiting", "none"} : handler' = [handler EXCEPT ![n][Dst(n)] = how]
    BY <1>1
  <2>3. handler' \in [Node -> [Node -> {"none", "hello", "waiting", "reading"}]]
    BY <1>3, <2>2 DEF Types
  <2>4. QED  BY <1>1, <1>3, <2>1, <2>3 DEF Types
<1>8. Counted'
  BY <1>1, MembersStay DEF IInv, Counted
<1>9. Linked'
  BY <1>1, DstStays DEF IInv, Types, Linked
<1>10. Dialed'
  <2>1. DialedOf(n)'
    <3>1. /\ Members(n)' = Members(n) /\ Dst(n)' = Dst(n) /\ dialed' = dialed /\ client'[n] = "done"
          /\ taken' = taken
      BY <1>1, <1>3, MembersStay, DstStays DEF Types
    <3>2. DOMAIN senders'[n] = DOMAIN senders[n] \cup {Dst(n)} /\ DOMAIN senders[n] = S
      BY <1>5, <1>6
    <3>3. n \in DOMAIN senders'[n] \ taken => senders'[n][n] = "ok"
      <4>1. CASE Dst(n) = n
        BY <4>1, <1>1, <1>2, <1>6 DEF Running
      <4>2. CASE Dst(n) # n
        BY <4>2, <1>3, <1>6, <3>2 DEF DialedOf
      <4>3. QED  BY <4>1, <4>2
    <3>4. ASSUME NEW i \in 1 .. dialed[n]
          PROVE  HasClient(n, i)' \/ Members(n)[i] = Dst(n)
      <4>1. HasClient(n, i)
        BY <1>1, <1>3 DEF DialedOf
      <4>2. QED  BY <4>1, <1>6, <3>1, <3>2 DEF HasClient
    <3>5. QED  BY <1>4, <3>1, <3>2, <3>3, <3>4 DEF DialedOf
  <2>2. ASSUME NEW d \in Node, d # n
        PROVE  DialedOf(d)'
    <3>1. /\ Members(d)' = Members(d) /\ Dst(d)' = Dst(d) /\ dialed' = dialed
          /\ client'[d] = client[d] /\ senders'[d] = senders[d] /\ taken' = taken
      BY <1>1, <1>3, <1>6, <2>2, MembersStay, DstStays DEF Types
    <3>2. DialedOf(d)
      BY DEF IInv, Dialed
    <3>3. QED  BY <3>1, <3>2 DEF DialedOf, HasClient
  <2>3. QED  BY <2>1, <2>2 DEF Dialed
<1>11. PanicsOnlyWhileAdding'
  BY <1>1, MembersStay DEF IInv, PanicsOnlyWhileAdding
<1>12. QED  BY <1>7, <1>8, <1>9, <1>10, <1>11 DEF IInv

\* A member was dialed: it is taken off the counter.
LEMMA DoneStep ==
  ASSUME IInv, NEW n \in Node, Done(n)
  PROVE  IInv'
<1>1. /\ proc[n] = "up" /\ client[n] = "done"
      /\ UNCHANGED <<file, taken, added, server, senders, handler>>
  BY DEF Done
<1>2. Types /\ DialedOf(n)
  BY DEF IInv, Dialed
<1>3. /\ dialed[n] \in Nat /\ waitGroup[n] \in Nat /\ added[n] \in Nat
      /\ Len(Members(n)) \in Nat /\ Adds(n) = Len(Members(n))
  BY <1>2, MembersFacts DEF Types
<1>4. /\ dialed[n] < Len(Members(n))
      /\ Dst(n) \in DOMAIN senders[n] /\ senders[n][Dst(n)] \in {"ok", "nil"}
      /\ dialed[n] + 1 = Len(Members(n)) => senders[n][Dst(n)] = "ok" \/ n \in taken
  <2>1. dialed[n] < Len(Members(n)) /\ Dst(n) \in DOMAIN senders[n]
    BY <1>1, <1>2 DEF DialedOf
  <2>2. PICK S \in SUBSET Item : senders[n] \in [S -> {"ok", "nil"}]
    BY <1>2 DEF Types
  <2>3. dialed[n] + 1 = Len(Members(n)) => Dst(n) = n
    BY <1>2, <2>1, DstFacts
  <2>4. QED  BY <1>2, <2>1, <2>2, <2>3 DEF DialedOf
<1>5. /\ waitGroup[n] + dialed[n] = added[n]
      /\ added[n] <= Adds(n)
      /\ server[n] # "starting" => added[n] = Adds(n)
  BY DEF IInv, Counted
<1>6. CASE waitGroup[n] = 0
  <2>1. /\ proc' = [proc EXCEPT ![n] = "panicked"]
        /\ UNCHANGED <<dialed, client, waitGroup>>
    BY <1>6 DEF Done, End
  <2>2. server[n] = "starting" /\ added[n] < Adds(n)
    <3>1. added[n] < Adds(n)
      BY <1>3, <1>4, <1>5, <1>6
    <3>2. QED  BY <3>1, <1>3, <1>5
  <2>3. Types'
    BY <1>1, <1>2, <2>1 DEF Types
  <2>4. Counted' /\ Linked' /\ Dialed'
    BY <1>1, <2>1, MembersStay, DstStays DEF IInv, Counted, Linked, Dialed, DialedOf, HasClient
  <2>5. PanicsOnlyWhileAdding'
    BY <1>1, <2>1, <2>2, MembersStay DEF IInv, PanicsOnlyWhileAdding
  <2>6. QED  BY <2>3, <2>4, <2>5 DEF IInv
<1>7. CASE waitGroup[n] # 0
  <2>1. /\ waitGroup' = [waitGroup EXCEPT ![n] = @ - 1]
        /\ dialed' = [dialed EXCEPT ![n] = @ + 1]
        /\ client' = [client EXCEPT ![n] =
                        IF senders[n][Dst(n)] = "nil" THEN "failed"
                        ELSE IF dialed[n] + 1 = Len(Members(n)) THEN "finished"
                        ELSE "dial"]
        /\ UNCHANGED proc
    BY <1>7 DEF Done
  <2>2. waitGroup'[n] = waitGroup[n] - 1 /\ dialed'[n] = dialed[n] + 1
    BY <1>2, <2>1 DEF Types
  <2>3. client'[n] = IF senders[n][Dst(n)] = "nil" THEN "failed"
                     ELSE IF dialed[n] + 1 = Len(Members(n)) THEN "finished" ELSE "dial"
    BY <1>2, <2>1 DEF Types
  <2>4. \A d \in Node : d # n =>
          waitGroup'[d] = waitGroup[d] /\ dialed'[d] = dialed[d] /\ client'[d] = client[d]
    BY <1>2, <2>1 DEF Types
  <2>5. Types'
    <3>1. waitGroup' \in [Node -> Nat] /\ dialed' \in [Node -> Nat]
      BY <1>2, <1>3, <1>7, <2>1 DEF Types
    <3>2. client' \in [Node -> {"dial", "hello", "done", "finished", "failed"}]
      BY <1>2, <2>1 DEF Types
    <3>3. QED  BY <1>1, <1>2, <2>1, <3>1, <3>2 DEF Types
  <2>6. Counted'
    <3>1. waitGroup'[n] + dialed'[n] = added[n]
      BY <1>3, <1>5, <2>2
    <3>2. QED  BY <1>1, <2>4, <3>1, MembersStay DEF IInv, Counted
  <2>7. Linked'
    <3>1. \A s \in Node : handler[s][n] # "reading"
      BY <1>1 DEF IInv, Linked
    <3>2. \A d \in Node : client'[d] = "hello" => d # n /\ client[d] = "hello" /\ Dst(d)' = Dst(d)
      BY <1>1, <2>3, <2>4, DstStays
    <3>3. \A d \in Node : client'[d] = client[d] \/ d = n
      BY <2>4
    <3>4. QED  BY <1>1, <3>1, <3>2, <3>3 DEF IInv, Linked
  <2>8. Dialed'
    <3>1. DialedOf(n)'
      <4>1. Members(n)' = Members(n) /\ senders' = senders /\ taken' = taken
        BY <1>1, MembersStay
      <4>2. /\ IF client'[n] = "finished" \/ (client'[n] = "failed" /\ n \in taken)
                  THEN dialed'[n] <= Len(Members(n)) ELSE dialed'[n] < Len(Members(n))
            /\ client'[n] = "finished" => dialed'[n] = Len(Members(n))
        BY <1>3, <1>4, <2>2, <2>3
      <4>3. ASSUME NEW i \in 1 .. dialed'[n], client'[n] # "failed"
            PROVE  HasClient(n, i)
        <5>1. senders[n][Dst(n)] = "ok"
          BY <1>4, <2>3, <4>3
        <5>2. CASE i = dialed[n] + 1
          BY <5>1, <5>2, <1>4 DEF Dst, HasClient
        <5>3. CASE i \in 1 .. dialed[n]
          BY <5>1, <5>3, <1>1, <1>2, <1>4 DEF DialedOf, HasClient
        <5>4. QED  BY <1>3, <2>2, <5>2, <5>3
      <4>4. \A i \in 1 .. dialed'[n] : HasClient(n, i)' \/ client'[n] = "failed"
        BY <4>1, <4>3 DEF HasClient
      <4>5. client'[n] # "done" /\ (n \in DOMAIN senders[n] \ taken => senders[n][n] = "ok")
        BY <1>2, <2>3 DEF DialedOf
      <4>6. QED  BY <4>1, <4>2, <4>4, <4>5 DEF DialedOf
    <3>2. ASSUME NEW d \in Node, d # n
          PROVE  DialedOf(d)'
      <4>1. /\ Members(d)' = Members(d) /\ Dst(d)' = Dst(d) /\ dialed'[d] = dialed[d]
            /\ client'[d] = client[d] /\ senders' = senders /\ taken' = taken
        BY <1>1, <2>4, <3>2, MembersStay, DstStays
      <4>2. DialedOf(d)
        BY DEF IInv, Dialed
      <4>3. QED  BY <4>1, <4>2 DEF DialedOf, HasClient
    <3>3. QED  BY <3>1, <3>2 DEF Dialed
  <2>9. PanicsOnlyWhileAdding'
    BY <1>1, <2>1, MembersStay DEF IInv, PanicsOnlyWhileAdding
  <2>10. QED  BY <2>5, <2>6, <2>7, <2>8, <2>9 DEF IInv
<1>8. QED  BY <1>6, <1>7
-----------------------------------------------------------------------------
\* Stuttering keeps the invariant.
LEMMA StutterStep ==
  ASSUME IInv, UNCHANGED vars
  PROVE  IInv'
<1>1. Types' /\ UNCHANGED <<file, taken, proc, added, server, dialed, client, senders, waitGroup, handler>>
  BY DEF IInv, Types, vars
<1>2. Counted' /\ Linked' /\ PanicsOnlyWhileAdding'
  BY <1>1, MembersStay, DstStays DEF IInv, Counted, Linked, PanicsOnlyWhileAdding
<1>3. Dialed'
  BY <1>1, MembersStay, DstStays DEF IInv, Dialed, DialedOf, HasClient
<1>4. QED  BY <1>1, <1>2, <1>3 DEF IInv

\* Every step keeps the invariant.
LEMMA NextIInv ==
  ASSUME IInv, [Next]_vars
  PROVE  IInv'
<1>1. ASSUME NEW n \in Node, Launch(n)  PROVE IInv'
  BY <1>1, ProcessStep DEF Launch
<1>2. ASSUME NEW n \in Node, StartServer(n)  PROVE IInv'
  BY <1>2, AddStep, ListenStep DEF StartServer
<1>3. ASSUME NEW n \in Node, StartClients(n)  PROVE IInv'
  BY <1>3, DialStep, HelloStep, DoneStep DEF StartClients
<1>4. ASSUME NEW n \in Node, Finish(n)  PROVE IInv'
  BY <1>4, ProcessStep DEF Finish, End
<1>5. ASSUME NEW n \in Node, ListenFails(n)  PROVE IInv'
  BY <1>5, ListenStep
<1>6. ASSUME NEW n \in Node, Crash(n)  PROVE IInv'
  BY <1>6, ProcessStep DEF Crash, End
<1>7. ASSUME NEW s \in Node, NEW n \in Node, Wait(s, n)  PROVE IInv'
  BY <1>7, WaitStep
<1>8. QED  BY <1>1, <1>2, <1>3, <1>4, <1>5, <1>6, <1>7, StutterStep DEF Next

\* The invariant implies what the run checks.
LEMMA ReadyFromIInv ==
  ASSUME IInv
  PROVE  ReadyBeforeReading
<1> SUFFICES ASSUME NEW s \in Node, NEW n \in Node, handler[s][n] = "reading",
                    NEW d \in Range(Members(n))
             PROVE  d \in DOMAIN senders[n] /\ senders[n][d] = "ok"
  BY DEF ReadyBeforeReading
<1>1. client[n] = "finished"
  BY DEF IInv, Linked
<1>2. dialed[n] = Len(Members(n)) /\ \A i \in 1 .. dialed[n] : HasClient(n, i)
  BY <1>1 DEF IInv, Dialed, DialedOf
<1>3. PICK i \in 1 .. Len(Members(n)) : Members(n)[i] = d
  <2>1. Members(n) \in Seq(Item)
    BY MembersFacts DEF IInv
  <2>2. QED  BY <2>1 DEF Range
<1>4. QED  BY <1>2, <1>3 DEF HasClient

\* In every group, whatever the configuration files and whichever nodes
\* crash, a handler reads messages only when every member has a client.
THEOREM ReadyBeforeReadingHolds == Spec => []ReadyBeforeReading
<1>1. Init => IInv
  BY InitIInv
<1>2. IInv /\ [Next]_vars => IInv'
  BY NextIInv
<1>3. IInv => ReadyBeforeReading
  BY ReadyFromIInv
<1>4. QED  BY <1>1, <1>2, <1>3, PTL DEF Spec

\* In every group, WaitGroup.Done panics only while the node does not listen.
THEOREM PanicsOnlyWhileAddingHolds == Spec => []PanicsOnlyWhileAdding
<1>1. Init => IInv
  BY InitIInv
<1>2. IInv /\ [Next]_vars => IInv'
  BY NextIInv
<1>3. IInv => PanicsOnlyWhileAdding
  BY DEF IInv
<1>4. QED  BY <1>1, <1>2, <1>3, PTL DEF Spec

-----------------------------------------------------------------------------
(***************************************************************************)
(* The members of a node that started.                                     *)
(***************************************************************************)

\* How many members have a client, nil or not.
Reached(n) == IF client[n] = "done" THEN dialed[n] + 1 ELSE dialed[n]

\* The map of clients has the members that were reached, which listened then,
\* unless their port is taken, and so have been launched; a node that started
\* has reached all.
CompleteOf(n) ==
  /\ DOMAIN senders[n] = {Members(n)[i] : i \in 1 .. Reached(n)}
  /\ \A d \in (Node \cap DOMAIN senders[n]) \ taken : server[d] = "listening"
  /\ server[n] # "starting" => proc[n] # "off"
  /\ proc[n] = "started" => client[n] = "finished" /\ server[n] = "listening"

GInv == IInv /\ \A n \in Node : CompleteOf(n)

\* The members are nodes.
LEMMA MembersAreNodes ==
  ASSUME Types, NEW n \in Node
  PROVE  /\ Range(Members(n)) \subseteq Node
         /\ DOMAIN Members(n) = 1 .. Len(Members(n))
         /\ \A i \in 1 .. Len(Members(n)) : Members(n)[i] \in Node
<1>1. Members(n) \in Seq(Item) /\ DOMAIN Members(n) = 1 .. Len(Members(n))
  BY MembersFacts, LenProperties
<1>2. LinesRead(file[n]) \in Seq(Node \cup {blank})
  BY MembersFacts, ConfigItemsCollects
<1>3. Range(LinesRead(file[n])) \subseteq Node \cup {blank}
  <2>1. PICK line : line = LinesRead(file[n]) /\ line \in Seq(Node \cup {blank})
    BY <1>2
  <2>2. DOMAIN line = 1 .. Len(line) /\ \A i \in 1 .. Len(line) : line[i] \in Node \cup {blank}
    BY <2>1, LenProperties, ElementOfSeq
  <2>3. QED  BY <2>1, <2>2 DEF Range
<1>4. Range(Members(n)) \subseteq Node
  BY <1>3, MembersFacts
<1>5. QED  BY <1>1, <1>4 DEF Range

\* A step that takes no member into the map and launches or listens at most.
LEMMA QuietStep ==
  ASSUME GInv, IInv',
         file' = file, taken' = taken,
         \A n \in Node : senders'[n] = senders[n] /\ Reached(n)' = Reached(n),
         \A n \in Node : server[n] = "listening" => server'[n] = "listening",
         \A n \in Node : server'[n] # "starting" => proc'[n] # "off",
         \A n \in Node : proc'[n] = "started" => client'[n] = "finished" /\ server'[n] = "listening"
  PROVE  GInv'
<1>1. ASSUME NEW n \in Node  PROVE CompleteOf(n)'
  BY <1>1, MembersStay DEF GInv, CompleteOf
<1>2. QED  BY <1>1 DEF GInv

\* The handshake makes the member that was dialed the last one in the map.
LEMMA HelloCompletes ==
  ASSUME GInv, IInv', NEW n \in Node, Hello(n)
  PROVE  GInv'
<1>1. PICK result \in {"ok", "nil"} :
        senders' = [senders EXCEPT ![n] =
                      [d \in DOMAIN @ \cup {Dst(n)} |-> IF d = Dst(n) THEN result ELSE @[d]]]
  BY DEF Hello
<1>2. /\ client[n] = "hello" /\ client' = [client EXCEPT ![n] = "done"]
      /\ UNCHANGED <<file, taken, proc, added, server, dialed, waitGroup>>
  BY DEF Hello
<1>3. /\ dialed[n] \in Nat /\ dialed[n] < Len(Members(n)) /\ Len(Members(n)) \in Nat
      /\ client \in [Node -> {"dial", "hello", "done", "finished", "failed"}]
      /\ DOMAIN senders = Node
  BY <1>2, MembersFacts DEF GInv, IInv, Types, Dialed, DialedOf
<1>4. Dst(n) \in Node /\ (Dst(n) \notin taken => server[Dst(n)] = "listening")
  <2>1. dialed[n] + 1 \in 1 .. Len(Members(n))
    BY <1>3
  <2>2. Dst(n) \in Node
    BY <2>1, MembersAreNodes DEF GInv, IInv, Dst
  <2>3. QED  BY <1>2, <2>2 DEF GInv, IInv, Linked
<1>5. \A e \in Node : Members(e)' = Members(e)
  BY <1>2, MembersStay
<1>6. ASSUME NEW e \in Node, e # n  PROVE CompleteOf(e)'
  <2>1. senders'[e] = senders[e] /\ client'[e] = client[e]
    BY <1>1, <1>2, <1>3, <1>6
  <2>2. QED  BY <1>2, <1>5, <2>1 DEF GInv, CompleteOf, Reached
<1>7. CompleteOf(n)'
  <2>1. DOMAIN senders'[n] = DOMAIN senders[n] \cup {Dst(n)} /\ client'[n] = "done"
    BY <1>1, <1>2, <1>3
  <2>2. DOMAIN senders[n] = {Members(n)[i] : i \in 1 .. dialed[n]}
    BY <1>2 DEF GInv, CompleteOf, Reached
  <2>3. 1 .. dialed[n] + 1 = (1 .. dialed[n]) \cup {dialed[n] + 1}
    BY <1>3
  <2>4. DOMAIN senders'[n] = {Members(n)[i] : i \in 1 .. dialed[n] + 1}
    BY <2>1, <2>2, <2>3 DEF Dst
  <2>5. Reached(n)' = dialed[n] + 1
    BY <1>2, <2>1 DEF Reached
  <2>6. \A d \in (Node \cap DOMAIN senders'[n]) \ taken' : server'[d] = "listening"
    BY <1>2, <1>4, <2>1 DEF GInv, CompleteOf
  <2>7. /\ server'[n] # "starting" => proc'[n] # "off"
        /\ proc'[n] = "started" => client'[n] = "finished" /\ server'[n] = "listening"
    BY <1>2 DEF GInv, CompleteOf, Hello
  <2>8. QED  BY <1>2, <1>5, <2>4, <2>5, <2>6, <2>7 DEF CompleteOf
<1>8. QED  BY <1>6, <1>7 DEF GInv

\* Done counts a member that is in the map already.
LEMMA DoneCompletes ==
  ASSUME GInv, IInv', NEW n \in Node, Done(n)
  PROVE  GInv'
<1>1. /\ proc[n] = "up" /\ client[n] = "done" /\ UNCHANGED <<file, taken, added, server, senders, handler>>
      /\ proc \in [Node -> {"off", "up", "started", "exited", "panicked", "crashed"}]
      /\ client \in [Node -> {"dial", "hello", "done", "finished", "failed"}]
      /\ dialed \in [Node -> Nat]
  BY DEF Done, GInv, IInv, Types
<1>2. CASE waitGroup[n] = 0
  <2>1. UNCHANGED <<dialed, client>> /\ proc' = [proc EXCEPT ![n] = "panicked"]
    BY <1>2 DEF Done, End
  <2>2. QED  BY <1>1, <2>1, QuietStep DEF GInv, CompleteOf, Reached
<1>3. CASE waitGroup[n] # 0
  <2>1. /\ dialed' = [dialed EXCEPT ![n] = @ + 1] /\ proc' = proc
        /\ \E c \in {"failed", "finished", "dial"} : client' = [client EXCEPT ![n] = c]
    BY <1>3 DEF Done
  <2>2. \A e \in Node : Reached(e)' = Reached(e)
    BY <1>1, <2>1 DEF Reached
  <2>3. \A e \in Node : proc'[e] = "started" => client'[e] = "finished" /\ server'[e] = "listening"
    BY <1>1, <2>1 DEF GInv, CompleteOf
  <2>4. QED  BY <1>1, <2>1, <2>2, <2>3, QuietStep DEF GInv, CompleteOf
<1>4. QED  BY <1>2, <1>3

\* The other steps leave the map, and the members that were reached.
LEMMA OthersComplete ==
  ASSUME GInv, IInv', [Next]_vars,
         \A n \in Node : ~Hello(n) /\ ~Done(n)
  PROVE  GInv'
<1>0. /\ proc \in [Node -> {"off", "up", "started", "exited", "panicked", "crashed"}]
      /\ server \in [Node -> {"starting", "listening", "failed"}]
      /\ client \in [Node -> {"dial", "hello", "done", "finished", "failed"}]
  BY DEF GInv, IInv, Types
<1>1. ASSUME NEW n \in Node, Launch(n) \/ Finish(n) \/ Crash(n)  PROVE GInv'
  <2>1. UNCHANGED <<file, taken, server, dialed, client, senders>>
    BY <1>1 DEF Launch, Finish, Crash
  <2>2. \E how \in {"up", "started", "exited", "crashed"} :
          proc' = [proc EXCEPT ![n] = how] /\ 
          (how = "started" => client[n] = "finished" /\ server[n] = "listening")
    BY <1>1 DEF Launch, Finish, Crash, End
  <2>3. QED  BY <1>0, <2>1, <2>2, QuietStep DEF GInv, CompleteOf, Reached
<1>2. ASSUME NEW n \in Node, Add(n)  PROVE GInv'
  BY <1>2, QuietStep DEF Add, GInv, CompleteOf, Reached
<1>3. ASSUME NEW n \in Node, Listen(n) \/ ListenFails(n)  PROVE GInv'
  <2>1. /\ UNCHANGED <<file, taken, proc, dialed, client, senders>>
        /\ proc[n] = "up" /\ server[n] = "starting"
        /\ \E how \in {"listening", "failed"} : server' = [server EXCEPT ![n] = how]
    BY <1>3 DEF Listen, ListenFails
  <2>2. QED  BY <1>0, <2>1, QuietStep DEF GInv, CompleteOf, Reached
<1>4. ASSUME NEW n \in Node, Dial(n)  PROVE GInv'
  <2>1. /\ UNCHANGED <<file, taken, proc, server, dialed, senders>>
        /\ proc[n] = "up" /\ client[n] = "dial" /\ client' = [client EXCEPT ![n] = "hello"]
    BY <1>4 DEF Dial, Retry, Connected
  <2>2. QED  BY <1>0, <2>1, QuietStep DEF GInv, CompleteOf, Reached
<1>5. ASSUME NEW s \in Node, NEW n \in Node, Wait(s, n)  PROVE GInv'
  BY <1>5, QuietStep DEF Wait, GInv, CompleteOf, Reached
<1>6. ASSUME UNCHANGED vars  PROVE GInv'
  BY <1>6, QuietStep DEF vars, GInv, CompleteOf, Reached
<1>7. QED  BY <1>1, <1>2, <1>3, <1>4, <1>5, <1>6 DEF Next, StartServer, StartClients

\* Nobody has members, or is launched, at the start; every step keeps the
\* invariant.
LEMMA GInvInductive ==
  /\ Init => GInv
  /\ GInv /\ [Next]_vars => GInv'
<1>1. ASSUME Init  PROVE GInv
  <2>1. IInv
    BY <1>1, InitIInv
  <2>2. ASSUME NEW n \in Node  PROVE CompleteOf(n)
    <3>1. /\ senders[n] = <<>> /\ dialed[n] = 0 /\ client[n] = "dial"
          /\ server[n] = "starting" /\ proc[n] = "off"
      BY <1>1 DEF Init
    <3>2. DOMAIN senders[n] = {}
      BY <3>1, EmptySeq
    <3>3. Reached(n) = 0
      BY <3>1 DEF Reached
    <3>4. QED  BY <3>1, <3>2, <3>3 DEF CompleteOf
  <2>3. QED  BY <2>1, <2>2 DEF GInv
<1>2. ASSUME GInv, [Next]_vars  PROVE GInv'
  <2>1. IInv'
    BY <1>2, NextIInv DEF GInv
  <2>2. QED  BY <1>2, <2>1, HelloCompletes, DoneCompletes, OthersComplete
<1>3. QED  BY <1>1, <1>2

\* Type correctness: the members and the clients of a node are nodes, blank
\* lines or not, for all configuration files.
THEOREM TypeCorrect == Spec => []TypeOK
<1>1. GInv => TypeOK
  <2> SUFFICES ASSUME GInv  PROVE TypeOK
    OBVIOUS
  <2>0. Types
    BY DEF GInv, IInv
  <2>1. ASSUME NEW n \in Node  PROVE DOMAIN senders[n] \subseteq Node /\ Range(senders[n]) \subseteq {"ok", "nil"}
    <3>1. PICK S \in SUBSET Item : senders[n] \in [S -> {"ok", "nil"}]
      BY <2>0 DEF Types
    <3>2. Range(senders[n]) \subseteq {"ok", "nil"}
      BY <3>1 DEF Range
    <3>3. Reached(n) \in Nat /\ Reached(n) <= Len(Members(n)) /\ Len(Members(n)) \in Nat
      BY <2>0, MembersFacts DEF GInv, IInv, Types, Dialed, DialedOf, Reached
    <3>4. \A i \in 1 .. Reached(n) : Members(n)[i] \in Node
      BY <2>0, <3>3, MembersAreNodes
    <3>5. DOMAIN senders[n] \subseteq Node
      BY <3>4 DEF GInv, CompleteOf
    <3>6. QED  BY <3>2, <3>5
  <2>2. QED  BY <2>0, <2>1, MembersAreNodes DEF TypeOK, Types
<1>2. QED  BY <1>1, GInvInductive, PTL DEF Spec

\* No more is read than one line after those that the first line counts.
LEMMA LinesReadFacts ==
  ASSUME NEW f \in File
  PROVE  /\ Range(LinesRead(f)) \subseteq Range(f.lines)
         /\ Len(f.lines) <= f.count + 1 => LinesRead(f) = f.lines
         /\ IsFiniteSet(Range(LinesRead(f)))
         /\ Cardinality(Range(LinesRead(f))) <= f.count + 1
<1>1. f.lines \in Seq(Item) /\ Len(f.lines) \in Nat /\ f.count \in Nat
  BY LenProperties DEF File, Item
<1>2. PICK k \in 0 .. Len(f.lines) :
        /\ LinesRead(f) = SubSeq(f.lines, 1, k) /\ k <= f.count + 1
        /\ Len(f.lines) <= f.count + 1 => k = Len(f.lines)
  <2>1. CASE f.count + 1 < Len(f.lines)
    BY <1>1, <2>1 DEF LinesRead, Limit
  <2>2. CASE ~(f.count + 1 < Len(f.lines))
    BY <1>1, <2>2 DEF LinesRead, Limit
  <2>3. QED  BY <2>1, <2>2
<1>3. PICK line : line = LinesRead(f) /\ line \in Seq(Item)
  BY <1>1, <1>2, SubSeqProperties
<1>4. Len(line) = k /\ \A i \in 1 .. k : line[i] = f.lines[i]
  BY <1>1, <1>2, <1>3, SubSeqProperties
<1>5. DOMAIN line = 1 .. k /\ DOMAIN f.lines = 1 .. Len(f.lines)
  BY <1>1, <1>3, <1>4, LenProperties
<1>6. Range(line) \subseteq Range(f.lines)
  BY <1>1, <1>4, <1>5 DEF Range
<1>7. Len(f.lines) <= f.count + 1 => line = f.lines
  BY <1>1, <1>2, <1>3, SubSeqProperties
<1>8. IsFiniteSet(Range(line)) /\ Cardinality(Range(line)) <= f.count + 1
  <2>1. IsFiniteSet(1 .. k) /\ Cardinality(1 .. k) = k
    BY FS_Interval
  <2>2. line \in Surjection(1 .. k, Range(line))
    BY <1>3, <1>5 DEF Surjection, Range
  <2>3. IsFiniteSet(Range(line)) /\ Cardinality(Range(line)) <= k
    BY <2>1, <2>2, FS_Surjection
  <2>4. Cardinality(Range(line)) \in Nat
    BY <2>3, FS_CardinalityType
  <2>5. QED  BY <1>1, <1>2, <2>3, <2>4
<1>9. QED  BY <1>3, <1>6, <1>7, <1>8

\* In every group, for all configuration files: a node that started has
\* clients for itself and nodes of its file, at most one more than the first
\* line says, for all of them when the file is well-formed, and each listens
\* unless its port is taken (config.go:52-53, b_multicast.go:159-167).
THEOREM GroupCompleteHolds == Spec => []GroupComplete
<1>1. GInv => GroupComplete
  <2> SUFFICES ASSUME GInv, NEW n \in Node, proc[n] = "started"
               PROVE  LET group == DOMAIN senders[n]
                          f == file[n]
                      IN  /\ n \in group \ taken /\ group \subseteq Listed(f) \cup {n}
                          /\ Cardinality(group) <= (f.count + 1) + 1
                          /\ WellFormed(f) => Listed(f) \subseteq group
                          /\ \A d \in group \ taken : proc[d] # "off" /\ server[d] = "listening"
    BY DEF GroupComplete
  <2>0. Types
    BY DEF GInv, IInv
  <2>group. PICK group : group = DOMAIN senders[n]
    OBVIOUS
  <2>file. PICK f \in File : f = file[n]
    BY <2>0, MembersFacts
  <2>1. client[n] = "finished" /\ dialed[n] = Len(Members(n)) /\ n \notin taken
    BY DEF GInv, CompleteOf, IInv, Dialed, DialedOf, Linked
  <2>2. group = {Members(n)[i] : i \in 1 .. Len(Members(n))}
    BY <2>1, <2>group DEF GInv, CompleteOf, Reached
  <2>3. group = Range(Members(n))
    BY <2>0, <2>2, MembersAreNodes DEF Range
  <2>4. PICK read : read = Range(LinesRead(f))
    OBVIOUS
  <2>5. group = (read \ {blank}) \cup {n}
    BY <2>0, <2>3, <2>4, <2>file, MembersFacts
  <2>6. /\ read \subseteq Range(f.lines) /\ IsFiniteSet(read) /\ Cardinality(read) <= f.count + 1
        /\ Len(f.lines) <= f.count + 1 => read = Range(f.lines)
    BY <2>4, LinesReadFacts
  <2>7. Cardinality(group) <= (f.count + 1) + 1
    <3>1. PICK nodes : nodes = read \ {blank} /\ group = nodes \cup {n}
      BY <2>5
    <3>2. IsFiniteSet(nodes) /\ Cardinality(nodes) <= Cardinality(read)
      BY <2>6, <3>1, FS_Subset
    <3>3. f.count \in Nat /\ Cardinality(read) \in Nat /\ Cardinality(nodes) \in Nat
      <4>1. f.count \in Nat
        BY DEF File
      <4>2. QED  BY <2>6, <3>2, <4>1, FS_CardinalityType
    <3>4. Cardinality(group) = IF n \in nodes THEN Cardinality(nodes) ELSE Cardinality(nodes) + 1
      BY <3>1, <3>2, FS_AddElement
    <3>5. QED  BY <2>6, <3>2, <3>3, <3>4
  <2>8. group \subseteq Node
    BY <2>0, <2>3, MembersAreNodes
  <2>9. \A d \in group \ taken : proc[d] # "off" /\ server[d] = "listening"
    BY <2>8, <2>group DEF GInv, CompleteOf
  <2>10. QED  BY <2>file, <2>group, <2>1, <2>5, <2>6, <2>7, <2>9 DEF Listed, WellFormed
<1>2. QED  BY <1>1, GInvInductive, PTL DEF Spec
=============================================================================
