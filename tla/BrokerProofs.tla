---------------------------- MODULE BrokerProofs ----------------------------
(***************************************************************************)
(* Proofs about Broker, for every finite group and every capacity of the   *)
(* channel of collectVotes.  The argument: whatever the goroutines do is,  *)
(* to the counts in transit, a step of MemberUpdates or none at all; and   *)
(* what collectVotes may rely on follows from the steps of MemberUpdates.  *)
(***************************************************************************)
EXTENDS Broker, SequenceTheorems, FiniteSetTheorems, TLAPS

\* The contents of a place for one count.
AtMostOne == {<<>>} \cup {<<c>> : c \in Nat}

\* The counts on their way, the first to arrive first.
InTransit == subCh \o forwarding \o publishCh \o publishing

\* The inductive invariant behind the theorems: the members of the running
\* multicast that will be ejected are members still, and no channel holds
\* more than its capacity.
Typed ==
  /\ senders \subseteq Member
  /\ failing \subseteq senders
  /\ publishing \in AtMostOne
  /\ publishCh \in AtMostOne
  /\ forwarding \in AtMostOne
  /\ subCh \in Seq(Nat) /\ Len(subCh) <= SubCap
  /\ known \in Nat

-----------------------------------------------------------------------------
\* Sequences.

\* A place for one count holds a sequence of counts.
LEMMA AtMostOneType ==
  ASSUME NEW s \in AtMostOne
  PROVE  /\ s \in Seq(Nat)
         /\ s # <<>> => \E c \in Nat : s = <<c>>
         /\ Len(s) < 1 => s = <<>>
<1>1. CASE s = <<>>
  BY <1>1, EmptySeq
<1>2. CASE \E c \in Nat : s = <<c>>
  <2>1. PICK c \in Nat : s = <<c>>
    BY <1>2
  <2>2. <<c>> \in Seq(Nat) /\ Len(<<c>>) = 1
    OBVIOUS
  <2>3. QED  BY <2>1, <2>2
<1>3. QED  BY <1>1, <1>2 DEF AtMostOne

\* The empty channel of capacity 1 takes a count.
LEMMA OneConcat ==
  ASSUME NEW s \in AtMostOne, NEW t \in AtMostOne, Len(s) < PublishCap
  PROVE  s = <<>> /\ s \o t = t
<1>1. s = <<>>
  BY AtMostOneType DEF PublishCap
<1>2. t \in Seq(Nat)
  BY AtMostOneType
<1>3. QED  BY <1>1, <1>2, ConcatEmptySeq

\* Receiving from a channel takes the first count that is on its way.
LEMMA ReceiveFirst ==
  ASSUME NEW s \in Seq(Nat), NEW t \in Seq(Nat), s # <<>>
  PROVE  /\ s \o t # <<>>
         /\ Head(s \o t) = Head(s)
         /\ Tail(s \o t) = Tail(s) \o t
<1>1. PICK all : all = s \o t
  OBVIOUS
<1>2. /\ all \in Seq(Nat) /\ Len(all) = Len(s) + Len(t)
      /\ \A i \in 1 .. Len(s) + Len(t) : all[i] = IF i <= Len(s) THEN s[i] ELSE t[i - Len(s)]
  BY <1>1, ConcatProperties
<1>3. Len(s) \in Nat \ {0} /\ Len(t) \in Nat
  BY EmptySeq, LenProperties
<1>4. all # <<>>
  BY <1>2, <1>3
<1>5. all[1] = s[1]
  BY <1>2, <1>3
<1>6. /\ Tail(all) \in Seq(Nat) /\ Len(Tail(all)) = Len(all) - 1
      /\ \A i \in 1 .. Len(Tail(all)) : Tail(all)[i] = all[i + 1]
  BY <1>2, <1>4, HeadTailProperties
<1>7. /\ Tail(s) \in Seq(Nat) /\ Len(Tail(s)) = Len(s) - 1
      /\ \A i \in 1 .. Len(Tail(s)) : Tail(s)[i] = s[i + 1]
  BY HeadTailProperties
<1>8. PICK rest : rest = Tail(s) \o t
  OBVIOUS
<1>9. /\ rest \in Seq(Nat) /\ Len(rest) = Len(Tail(s)) + Len(t)
      /\ \A i \in 1 .. Len(Tail(s)) + Len(t) :
           rest[i] = IF i <= Len(Tail(s)) THEN Tail(s)[i] ELSE t[i - Len(Tail(s))]
  BY <1>7, <1>8, ConcatProperties
<1>10. ASSUME NEW i \in 1 .. Len(rest)  PROVE Tail(all)[i] = rest[i]
  <2>1. /\ Tail(all)[i] = all[i + 1] /\ i + 1 \in 1 .. Len(s) + Len(t)
        /\ i \in 1 .. Len(Tail(s)) + Len(t)
    BY <1>2, <1>3, <1>6, <1>7, <1>9
  <2>2. CASE i <= Len(s) - 1
    <3>1. /\ i + 1 <= Len(s) /\ i <= Len(Tail(s)) /\ i \in 1 .. Len(Tail(s))
      BY <1>3, <1>7, <2>2
    <3>2. all[i + 1] = s[i + 1] /\ rest[i] = Tail(s)[i] /\ Tail(s)[i] = s[i + 1]
      BY <1>2, <1>7, <1>9, <2>1, <3>1
    <3>3. QED  BY <2>1, <3>2
  <2>3. CASE ~(i <= Len(s) - 1)
    <3>1. /\ ~(i + 1 <= Len(s)) /\ ~(i <= Len(Tail(s)))
          /\ (i + 1) - Len(s) = i - Len(Tail(s))
      BY <1>3, <1>7, <2>3
    <3>2. all[i + 1] = t[(i + 1) - Len(s)] /\ rest[i] = t[i - Len(Tail(s))]
      BY <1>2, <1>9, <2>1, <3>1
    <3>3. QED  BY <2>1, <3>1, <3>2
  <2>4. QED  BY <2>2, <2>3
<1>11. Len(Tail(all)) = Len(rest)
  BY <1>2, <1>3, <1>6, <1>7, <1>9
<1>12. Tail(all) = rest
  BY <1>6, <1>9, <1>10, <1>11, SeqEqual
<1>13. QED  BY <1>1, <1>4, <1>5, <1>8, <1>12

\* How the places on the way are grouped does not matter.
LEMMA Regroup ==
  ASSUME NEW a \in Seq(Nat), NEW b \in Seq(Nat), NEW c \in Seq(Nat)
  PROVE  (a \o b) \o c = a \o (b \o c)
BY ConcatAssociative

\* A count that is dropped was behind those in the channel of the subscriber.
LEMMA DropOne ==
  ASSUME NEW s \in Seq(Nat), NEW c \in Nat, NEW t \in Seq(Nat)
  PROVE  /\ Len((s \o <<c>>) \o t) > Len(s)
         /\ Updates!RemoveAt((s \o <<c>>) \o t, Len(s) + 1) = s \o t
<1>1. PICK all : all = (s \o <<c>>) \o t
  OBVIOUS
<1>2. PICK sc : sc = s \o <<c>>
  OBVIOUS
<1>3. <<c>> \in Seq(Nat) /\ Len(<<c>>) = 1 /\ <<c>>[1] = c
  OBVIOUS
<1>4. Len(s) \in Nat /\ Len(t) \in Nat
  BY LenProperties
<1>5. /\ sc \in Seq(Nat) /\ Len(sc) = Len(s) + 1
      /\ \A i \in 1 .. Len(s) : sc[i] = s[i]
  <2>1. /\ sc \in Seq(Nat) /\ Len(sc) = Len(s) + Len(<<c>>)
        /\ \A i \in 1 .. Len(s) + Len(<<c>>) :
             sc[i] = IF i <= Len(s) THEN s[i] ELSE <<c>>[i - Len(s)]
    BY <1>2, <1>3, ConcatProperties
  <2>2. QED  BY <1>3, <1>4, <2>1
<1>6. /\ all \in Seq(Nat) /\ Len(all) = Len(sc) + Len(t)
      /\ \A i \in 1 .. Len(sc) + Len(t) : all[i] = IF i <= Len(sc) THEN sc[i] ELSE t[i - Len(sc)]
  BY <1>1, <1>2, <1>5, ConcatProperties
<1>7. Len(all) = Len(s) + 1 + Len(t)
  BY <1>4, <1>5, <1>6
<1>8. SubSeq(all, 1, Len(s)) = s
  <2>1. ASSUME NEW i \in 1 .. Len(s)  PROVE all[i] = s[i] /\ all[i] \in Nat
    <3>1. i \in 1 .. Len(sc) + Len(t) /\ i <= Len(sc)
      BY <1>4, <1>5
    <3>2. all[i] = s[i]
      BY <1>5, <1>6, <3>1
    <3>3. QED  BY <3>2, ElementOfSeq
  <2>2. PICK p : p = SubSeq(all, 1, Len(s))
    OBVIOUS
  <2>3. /\ p \in Seq(Nat)
        /\ Len(p) = IF 1 <= Len(s) THEN Len(s) - 1 + 1 ELSE 0
        /\ \A i \in 1 .. Len(s) - 1 + 1 : p[i] = all[1 + i - 1]
    BY <1>4, <2>1, <2>2, SubSeqProperties
  <2>4. Len(p) = Len(s)
    BY <1>4, <2>3
  <2>5. ASSUME NEW i \in 1 .. Len(s)  PROVE p[i] = s[i]
    <3>1. i \in 1 .. Len(s) - 1 + 1 /\ 1 + i - 1 = i
      BY <1>4
    <3>2. QED  BY <2>1, <2>3, <3>1
  <2>6. QED  BY <2>2, <2>3, <2>4, <2>5, SeqEqual
<1>9. SubSeq(all, Len(s) + 1 + 1, Len(all)) = t
  <2>1. ASSUME NEW i \in Len(s) + 1 + 1 .. Len(all)  PROVE all[i] \in Nat
    <3>1. i \in 1 .. Len(all)
      BY <1>4, <1>7
    <3>2. QED  BY <1>6, <3>1, ElementOfSeq
  <2>2. PICK m \in Nat, k \in Nat : m = Len(s) + 1 + 1 /\ k = Len(all)
    BY <1>4, <1>7
  <2>3. PICK p : p = SubSeq(all, m, k)
    OBVIOUS
  <2>4. /\ p \in Seq(Nat)
        /\ Len(p) = IF m <= k THEN k - m + 1 ELSE 0
        /\ \A i \in 1 .. k - m + 1 : p[i] = all[m + i - 1]
    BY <2>1, <2>2, <2>3, SubSeqProperties
  <2>5. Len(p) = Len(t)
    BY <1>4, <1>7, <2>2, <2>4
  <2>6. ASSUME NEW i \in 1 .. Len(t)  PROVE p[i] = t[i]
    <3>1. i \in 1 .. k - m + 1 /\ m + i - 1 \in 1 .. Len(sc) + Len(t)
          /\ ~(m + i - 1 <= Len(sc)) /\ (m + i - 1) - Len(sc) = i
      BY <1>4, <1>5, <1>7, <2>2
    <3>2. p[i] = all[m + i - 1] /\ all[m + i - 1] = t[(m + i - 1) - Len(sc)]
      BY <1>6, <2>4, <3>1
    <3>3. QED  BY <3>1, <3>2
  <2>7. QED  BY <2>2, <2>3, <2>4, <2>5, <2>6, SeqEqual
<1>10. SubSeq(all, 1, Len(s) + 1 - 1) = s
  BY <1>4, <1>8
<1>11. Updates!RemoveAt(all, Len(s) + 1) = s \o t
  <2>1. PICK i : i = Len(s) + 1
    OBVIOUS
  <2>2. SubSeq(all, 1, i - 1) = s /\ SubSeq(all, i + 1, Len(all)) = t
    BY <1>9, <1>10, <2>1
  <2>3. Updates!RemoveAt(all, i) = SubSeq(all, 1, i - 1) \o SubSeq(all, i + 1, Len(all))
    BY Zenon DEF Updates!RemoveAt
  <2>4. Updates!RemoveAt(all, i) = s \o t
    BY <2>2, <2>3, Zenon
  <2>5. QED  BY <2>1, <2>4, Zenon
<1>12. Len(all) > Len(s)
  BY <1>4, <1>7
<1>13. QED  BY <1>1, <1>11, <1>12

-----------------------------------------------------------------------------
\* The steps of the goroutines, one lemma per step that counts notice.

Same == UNCHANGED <<senders, InTransit, known>>

\* Ejecting a member puts the new count at the end of those in transit
\* (b_multicast.go:93-101).
LEMMA EjectStep ==
  ASSUME Typed, NEW m \in Member, Eject(m)
  PROVE  /\ Typed'
         /\ m \in senders /\ senders' = senders \ {m}
         /\ InTransit' = Append(InTransit, Cardinality(senders) - 1)
         /\ known' = known
<1>1. m \in senders /\ IsFiniteSet(senders)
  BY MemberAssumption, FS_Subset DEF Typed, Eject
<1>2. PICK c \in Nat : c = Cardinality(senders \ {m}) /\ c = Cardinality(senders) - 1
  BY <1>1, FS_RemoveElement, FS_CardinalityType
<1>3. publishing' = <<c>> /\ publishing = <<>> /\ UNCHANGED <<publishCh, forwarding, subCh, known>>
  BY <1>2 DEF Eject, CountWithout
<1>4. PICK q : q = (subCh \o forwarding) \o publishCh
  OBVIOUS
<1>5. q \in Seq(Nat)
  BY <1>4, AtMostOneType, ConcatProperties DEF Typed
<1>6. InTransit = q
  BY <1>3, <1>4, <1>5, ConcatEmptySeq DEF InTransit
<1>7. InTransit' = Append(q, c)
  <2>1. InTransit' = q \o <<c>>
    BY <1>3, <1>4 DEF InTransit
  <2>2. QED  BY <1>5, <2>1, AppendIsConcat
<1>8. Typed'
  BY <1>3 DEF Typed, Eject, AtMostOne
<1>9. QED  BY <1>1, <1>2, <1>3, <1>6, <1>7, <1>8 DEF Eject

\* Handing a count on from place to place changes nothing of what is in
\* transit (broker.go).
LEMMA PublishStep == Typed /\ Publish => Typed' /\ Same
<1> SUFFICES ASSUME Typed, Publish  PROVE Typed' /\ Same
  OBVIOUS
<1>1. publishCh = <<>> /\ publishCh' = publishing /\ publishing' = <<>>
  BY OneConcat DEF Typed, Publish
<1>2. PICK q : q = subCh \o forwarding
  OBVIOUS
<1>3. q \in Seq(Nat) /\ publishing \in Seq(Nat) /\ q \o publishing \in Seq(Nat)
  BY <1>2, AtMostOneType, ConcatProperties DEF Typed
<1>4. InTransit = q \o publishing
  <2>1. InTransit = (q \o <<>>) \o publishing
    BY <1>1, <1>2 DEF InTransit
  <2>2. QED  BY <1>3, <2>1, ConcatEmptySeq
<1>5. InTransit' = q \o publishing
  <2>1. InTransit' = (q \o publishing) \o <<>>
    BY <1>1, <1>2 DEF InTransit, Publish
  <2>2. QED  BY <1>3, <2>1, ConcatEmptySeq
<1>6. Typed'
  BY <1>1 DEF Typed, Publish, AtMostOne
<1>7. QED  BY <1>4, <1>5, <1>6 DEF Same, Publish

\* So does the goroutine of the broker when it takes a count.
LEMMA TakeStep == Typed /\ Take => Typed' /\ Same
<1> SUFFICES ASSUME Typed, Take  PROVE Typed' /\ Same
  OBVIOUS
<1>1. PICK c \in Nat : publishCh = <<c>>
  BY AtMostOneType DEF Typed, Take
<1>2. Head(<<c>>) = c /\ Tail(<<c>>) = <<>>
  OBVIOUS
<1>3. forwarding = <<>> /\ forwarding' = <<c>> /\ publishCh' = <<>>
  BY <1>1, <1>2 DEF Take
<1>4. subCh \in Seq(Nat) /\ subCh \o <<c>> \in Seq(Nat)
  <2>1. <<c>> \in Seq(Nat)
    OBVIOUS
  <2>2. QED  BY <2>1, ConcatProperties DEF Typed
<1>5. InTransit = (subCh \o <<c>>) \o publishing
  <2>1. InTransit = ((subCh \o <<>>) \o <<c>>) \o publishing
    BY <1>1, <1>3 DEF InTransit
  <2>2. QED  BY <1>4, <2>1, ConcatEmptySeq
<1>6. InTransit' = (subCh \o <<c>>) \o publishing
  <2>1. InTransit' = ((subCh \o <<c>>) \o <<>>) \o publishing
    BY <1>3 DEF InTransit, Take
  <2>2. QED  BY <1>4, <2>1, ConcatEmptySeq
<1>7. Typed'
  BY <1>3 DEF Typed, Take, AtMostOne
<1>8. QED  BY <1>5, <1>6, <1>7 DEF Same, Take

\* Forwarding hands it on too, unless the channel of collectVotes is full:
\* then the count behind those in the channel is lost.
LEMMA ForwardStep ==
  ASSUME Typed, Forward
  PROVE  /\ Typed'
         /\ \/ Same
            \/ /\ Len(InTransit) > SubCap
               /\ InTransit' = Updates!RemoveAt(InTransit, SubCap + 1)
               /\ UNCHANGED <<senders, known>>
<1>1. PICK c \in Nat : forwarding = <<c>>
  BY AtMostOneType DEF Typed, Forward
<1>2. <<c>> \in Seq(Nat) /\ Len(<<c>>) = 1
  OBVIOUS
<1>3. /\ subCh \in Seq(Nat) /\ publishCh \in Seq(Nat) /\ publishing \in Seq(Nat)
      /\ subCh \o <<c>> \in Seq(Nat)
  BY <1>2, AtMostOneType, ConcatProperties DEF Typed
<1>4. Len(subCh) \in Nat /\ SubCap \in Nat
  BY <1>3, LenProperties, CapAssumption
<1>5. forwarding' = <<>> /\ UNCHANGED <<senders, failing, publishing, publishCh, known>>
  BY DEF Forward
<1>6. CASE Len(subCh) < SubCap
  <2>1. subCh' = subCh \o <<c>> /\ Len(subCh \o <<c>>) = Len(subCh) + 1
    BY <1>1, <1>2, <1>3, <1>6, ConcatProperties DEF Forward
  <2>2. Typed'
    <3>1. subCh' \in Seq(Nat) /\ Len(subCh') <= SubCap
      BY <1>3, <1>4, <1>6, <2>1
    <3>2. QED  BY <1>5, <3>1 DEF Typed, AtMostOne
  <2>3. InTransit' = InTransit
    <3>1. InTransit' = (((subCh \o <<c>>) \o <<>>) \o publishCh) \o publishing
      BY <1>5, <2>1 DEF InTransit
    <3>2. (subCh \o <<c>>) \o <<>> = subCh \o <<c>>
      BY <1>3, ConcatEmptySeq
    <3>3. QED  BY <1>1, <3>1, <3>2 DEF InTransit
  <2>4. QED  BY <1>5, <2>2, <2>3 DEF Same
<1>7. CASE ~(Len(subCh) < SubCap)
  <2>1. subCh' = subCh /\ Len(subCh) = SubCap
    <3>1. subCh' = subCh
      BY <1>7 DEF Forward
    <3>2. QED  BY <1>4, <1>7, <3>1 DEF Typed
  <2>2. Typed'
    BY <1>5, <2>1 DEF Typed, AtMostOne
  <2>3. PICK rest \in Seq(Nat) : rest = publishCh \o publishing
    BY <1>3, ConcatProperties
  <2>4. InTransit = (subCh \o <<c>>) \o rest
    <3>1. ((subCh \o <<c>>) \o publishCh) \o publishing = (subCh \o <<c>>) \o rest
      BY <1>3, <2>3, Regroup
    <3>2. QED  BY <1>1, <3>1 DEF InTransit
  <2>5. InTransit' = subCh \o rest
    <3>1. InTransit' = ((subCh \o <<>>) \o publishCh) \o publishing
      BY <1>5, <2>1 DEF InTransit
    <3>2. subCh \o <<>> = subCh
      BY <1>3, ConcatEmptySeq
    <3>3. (subCh \o publishCh) \o publishing = subCh \o rest
      BY <1>3, <2>3, Regroup
    <3>4. QED  BY <3>1, <3>2, <3>3
  <2>6. /\ Len((subCh \o <<c>>) \o rest) > Len(subCh)
        /\ Updates!RemoveAt((subCh \o <<c>>) \o rest, Len(subCh) + 1) = subCh \o rest
    BY <1>3, DropOne
  <2>7. QED  BY <1>5, <2>1, <2>2, <2>4, <2>5, <2>6
<1>8. QED  BY <1>6, <1>7

\* collectVotes receives the first count in transit (total_ording.go:224-252).
LEMMA ReceiveStep ==
  ASSUME Typed, ReceiveCount
  PROVE  /\ Typed'
         /\ InTransit # <<>>
         /\ known' = Head(InTransit)
         /\ InTransit' = Tail(InTransit)
         /\ senders' = senders
<1>1. /\ subCh \in Seq(Nat) /\ subCh # <<>>
      /\ forwarding \in Seq(Nat) /\ publishCh \in Seq(Nat) /\ publishing \in Seq(Nat)
  BY AtMostOneType DEF Typed, ReceiveCount
<1>2. Head(subCh) \in Nat /\ Tail(subCh) \in Seq(Nat) /\ Len(Tail(subCh)) = Len(subCh) - 1
  BY <1>1, HeadTailProperties
<1>3. Len(subCh) \in Nat /\ SubCap \in Nat
  BY <1>1, LenProperties, CapAssumption
<1>4. UNCHANGED <<senders, failing, publishing, publishCh, forwarding>>
      /\ known' = Head(subCh) /\ subCh' = Tail(subCh)
  BY DEF ReceiveCount
<1>5. Typed'
  <2>1. Len(subCh') <= SubCap
    BY <1>2, <1>3, <1>4 DEF Typed
  <2>2. QED  BY <1>2, <1>4, <2>1 DEF Typed
<1>6. PICK f \in Seq(Nat), p \in Seq(Nat), q \in Seq(Nat) :
        f = forwarding /\ p = publishCh /\ q = publishing
  BY <1>1
<1>7. PICK rest : rest = (f \o p) \o q
  OBVIOUS
<1>8. rest \in Seq(Nat) /\ \A s \in Seq(Nat) : ((s \o f) \o p) \o q = s \o rest
  <2>1. rest \in Seq(Nat)
    BY <1>7, ConcatProperties
  <2>2. ASSUME NEW s \in Seq(Nat)  PROVE ((s \o f) \o p) \o q = s \o rest
    <3>1. (s \o f) \o p = s \o (f \o p)
      BY Regroup
    <3>2. PICK fp \in Seq(Nat) : fp = f \o p
      BY ConcatProperties
    <3>3. (s \o fp) \o q = s \o (fp \o q)
      BY Regroup
    <3>4. QED  BY <1>7, <3>1, <3>2, <3>3
  <2>3. QED  BY <2>1, <2>2
<1>9. InTransit = subCh \o rest
  BY <1>1, <1>6, <1>8 DEF InTransit
<1>10. InTransit' = Tail(subCh) \o rest
  BY <1>2, <1>4, <1>6, <1>8 DEF InTransit
<1>11. QED  BY <1>1, <1>4, <1>5, <1>8, <1>9, <1>10, ReceiveFirst

\* The steps that only acquire or release the lock, or receive a vote.
LEMMA OtherStep ==
  ASSUME Typed, \/ \E g \in Goroutine : Lock(g)
                \/ Unlock \/ ReceiveVote \/ CountMembers
                \/ UNCHANGED vars
  PROVE  Typed' /\ Same
<1>1. UNCHANGED <<senders, publishing, publishCh, forwarding, subCh, known>>
  BY DEF Lock, Unlock, ReceiveVote, CountMembers, vars
<1>2. failing' \subseteq senders
  BY DEF Lock, Unlock, ReceiveVote, CountMembers, vars, Typed
<1>3. QED  BY <1>1, <1>2 DEF Typed, Same, InTransit

-----------------------------------------------------------------------------
\* MemberUpdates counts members as Broker does.
LEMMA SameCount == \A S : Updates!Cardinality(S) = Cardinality(S)
BY DEF Updates!Cardinality, Cardinality

\* Every step of the goroutines is a step of MemberUpdates or leaves it
\* unchanged.
LEMMA StepRefines == Typed /\ [Next]_vars => Typed' /\ [Updates!Next]_(Updates!vars)
<1> SUFFICES ASSUME Typed, [Next]_vars  PROVE Typed' /\ [Updates!Next]_(Updates!vars)
  OBVIOUS
<1>1. Same => UNCHANGED Updates!vars
  BY DEF Same, InTransit, Updates!vars
<1>2. ASSUME NEW m \in Member, Eject(m)  PROVE Typed' /\ Updates!Next
  <2>1. Typed' /\ Updates!Eject(m)
    BY <1>2, EjectStep, SameCount DEF Updates!Eject, InTransit
  <2>2. QED  BY <2>1 DEF Updates!Next
<1>3. CASE Publish
  BY <1>1, <1>3, PublishStep
<1>4. CASE Take
  BY <1>1, <1>4, TakeStep
<1>5. CASE Forward
  <2>1. Typed' /\ (Same \/ Updates!Lose)
    BY <1>5, ForwardStep DEF Updates!Lose, InTransit
  <2>2. QED  BY <1>1, <2>1 DEF Updates!Next
<1>6. CASE ReceiveCount
  <2>1. Typed' /\ Updates!Receive
    BY <1>6, ReceiveStep DEF Updates!Receive, InTransit
  <2>2. QED  BY <2>1 DEF Updates!Next
<1>7. CASE \/ \E g \in Goroutine : Lock(g)
           \/ Unlock \/ ReceiveVote \/ CountMembers
           \/ UNCHANGED vars
  BY <1>1, <1>7, OtherStep
<1>8. QED  BY <1>2, <1>3, <1>4, <1>5, <1>6, <1>7 DEF Next

\* The group starts complete, with no counts on their way.
LEMMA InitRefines == Init => Typed /\ Updates!Init
<1> SUFFICES ASSUME Init  PROVE Typed /\ Updates!Init
  OBVIOUS
<1>1. <<>> \in Seq(Nat) /\ Len(<<>>) = 0 /\ SubCap \in Nat
  BY EmptySeq, CapAssumption
<1>2. ((<<>> \o <<>>) \o <<>>) \o <<>> = <<>>
  <2>1. <<>> \o <<>> = <<>>
    BY <1>1, ConcatEmptySeq
  <2>2. QED  BY <2>1
<1>3. Cardinality(Member) \in Nat
  BY MemberAssumption, FS_CardinalityType
<1>4. Typed
  BY <1>1, <1>3 DEF Init, Typed, AtMostOne
<1>5. Updates!Init
  BY <1>2, SameCount DEF Init, Updates!Init
<1>6. QED  BY <1>4, <1>5

\* No count is overtaken on its way to collectVotes, and none is lost while
\* no more are on their way than its channel holds: for every group, every
\* capacity, and any interleaving of the goroutines that multicast, the
\* broker and collectVotes (broker.go, b_multicast.go:93-101).
THEOREM MemberUpdatesRefinement == Spec => ImplementsMemberUpdates
<1>1. QED  BY StepRefines, InitRefines, PTL DEF Spec, ImplementsMemberUpdates, Updates!Spec

-----------------------------------------------------------------------------
\* What the steps of MemberUpdates keep: the count that collectVotes knows,
\* and every count on its way, is at least the size of the group, and no count
\* is overtaken by a larger one.
Dominates(counts, k, size) ==
  /\ k >= size
  /\ \A i \in 1 .. Len(counts) :
       /\ counts[i] >= size
       /\ \A j \in 1 .. i - 1 : counts[j] > counts[i]

\* A count that is published is below those before it.
LEMMA EjectDominates ==
  ASSUME NEW counts \in Seq(Nat), NEW k \in Nat, NEW size \in Nat \ {0}, Dominates(counts, k, size)
  PROVE  Dominates(Append(counts, size - 1), k, size - 1)
<1>1. PICK new : new = Append(counts, size - 1)
  OBVIOUS
<1>2. /\ Len(new) = Len(counts) + 1 /\ new[Len(counts) + 1] = size - 1
      /\ \A i \in 1 .. Len(counts) : new[i] = counts[i]
  BY <1>1, AppendProperties
<1>3. Len(counts) \in Nat /\ \A i \in 1 .. Len(counts) : counts[i] \in Nat /\ counts[i] >= size
  BY LenProperties, ElementOfSeq DEF Dominates
<1>4. ASSUME NEW i \in 1 .. Len(new)
      PROVE  new[i] >= size - 1 /\ \A j \in 1 .. i - 1 : new[j] > new[i]
  <2>1. CASE i <= Len(counts)
    <3>1. i \in 1 .. Len(counts) /\ \A j \in 1 .. i - 1 : j \in 1 .. Len(counts)
      BY <1>3, <2>1
    <3>2. counts[i] >= size /\ \A j \in 1 .. i - 1 : counts[j] > counts[i]
      BY <3>1 DEF Dominates
    <3>3. new[i] = counts[i] /\ \A j \in 1 .. i - 1 : new[j] = counts[j]
      BY <1>2, <3>1
    <3>4. QED  BY <1>3, <3>1, <3>2, <3>3
  <2>2. CASE i = Len(counts) + 1
    <3>1. new[i] = size - 1
      BY <1>2, <2>2
    <3>2. \A j \in 1 .. i - 1 : new[j] = counts[j] /\ counts[j] \in Nat /\ counts[j] >= size
      BY <1>2, <1>3, <2>2
    <3>3. QED  BY <3>1, <3>2
  <2>3. QED  BY <1>2, <1>3, <2>1, <2>2
<1>5. k >= size - 1
  BY DEF Dominates
<1>6. QED  BY <1>1, <1>4, <1>5 DEF Dominates

\* Receiving the first count keeps it.
LEMMA ReceiveDominates ==
  ASSUME NEW counts \in Seq(Nat), NEW k, NEW size, Dominates(counts, k, size), counts # <<>>
  PROVE  Dominates(Tail(counts), Head(counts), size)
<1>1. PICK new : new = Tail(counts)
  OBVIOUS
<1>2. /\ Len(new) = Len(counts) - 1 /\ Len(counts) \in Nat \ {0}
      /\ \A i \in 1 .. Len(new) : new[i] = counts[i + 1]
  BY <1>1, HeadTailProperties, EmptySeq
<1>3. Head(counts) >= size
  <2>1. Head(counts) = counts[1] /\ 1 \in 1 .. Len(counts)
    BY <1>2
  <2>2. QED  BY <2>1 DEF Dominates
<1>4. ASSUME NEW i \in 1 .. Len(new)
      PROVE  new[i] >= size /\ \A j \in 1 .. i - 1 : new[j] > new[i]
  <2>1. i + 1 \in 1 .. Len(counts)
    BY <1>2
  <2>2. new[i] = counts[i + 1] /\ counts[i + 1] >= size
    BY <1>2, <2>1 DEF Dominates
  <2>3. ASSUME NEW j \in 1 .. i - 1  PROVE new[j] > new[i]
    <3>1. j \in 1 .. Len(new) /\ j + 1 \in 1 .. (i + 1) - 1
      BY <1>2
    <3>2. new[j] = counts[j + 1]
      BY <1>2, <3>1
    <3>3. counts[j + 1] > counts[i + 1]
      BY <2>1, <3>1 DEF Dominates
    <3>4. QED  BY <2>2, <3>2, <3>3
  <2>4. QED  BY <2>2, <2>3
<1>5. QED  BY <1>1, <1>3, <1>4 DEF Dominates

\* Losing one does not harm: those that are left keep their order.
LEMMA LoseDominates ==
  ASSUME NEW counts \in Seq(Nat), NEW k, NEW size, Dominates(counts, k, size),
         NEW at \in 1 .. Len(counts)
  PROVE  Dominates(Updates!RemoveAt(counts, at), k, size)
<1>1. PICK a, b : a = SubSeq(counts, 1, at - 1) /\ b = SubSeq(counts, at + 1, Len(counts))
  OBVIOUS
<1>2. PICK new : new = a \o b
  OBVIOUS
<1>3. Updates!RemoveAt(counts, at) = new
  <2>1. Updates!RemoveAt(counts, at)
          = SubSeq(counts, 1, at - 1) \o SubSeq(counts, at + 1, Len(counts))
    BY Zenon DEF Updates!RemoveAt
  <2>2. QED  BY <1>1, <1>2, <2>1, Zenon
<1>4. PICK len \in Nat : len = Len(counts)
  BY LenProperties
<1>5. at \in Nat /\ 1 <= at /\ at <= len
  BY <1>4
<1>6. /\ a \in Seq(Nat) /\ Len(a) = at - 1
      /\ \A i \in 1 .. at - 1 : a[i] = counts[i]
  <2>1. \A i \in 1 .. at - 1 : counts[i] \in Nat
    BY <1>4, <1>5, ElementOfSeq
  <2>2. PICK top \in Int : top = at - 1
    BY <1>5
  <2>3. /\ a \in Seq(Nat)
        /\ Len(a) = IF 1 <= top THEN top - 1 + 1 ELSE 0
        /\ \A i \in 1 .. top - 1 + 1 : a[i] = counts[1 + i - 1]
    BY <1>1, <2>1, <2>2, SubSeqProperties
  <2>4. Len(a) = at - 1
    BY <1>5, <2>2, <2>3
  <2>5. ASSUME NEW i \in 1 .. at - 1  PROVE a[i] = counts[i]
    <3>1. i \in 1 .. top - 1 + 1 /\ 1 + i - 1 = i
      BY <1>5, <2>2
    <3>2. QED  BY <2>3, <3>1
  <2>6. QED  BY <2>3, <2>4, <2>5
<1>7. /\ b \in Seq(Nat) /\ Len(b) = len - at
      /\ \A i \in 1 .. len - at : b[i] = counts[at + i]
  <2>2. PICK bot \in Int : bot = at + 1
    BY <1>5
  <2>1. \A i \in bot .. len : counts[i] \in Nat
    BY <1>4, <1>5, <2>2, ElementOfSeq
  <2>3. /\ b \in Seq(Nat)
        /\ Len(b) = IF bot <= len THEN len - bot + 1 ELSE 0
        /\ \A i \in 1 .. len - bot + 1 : b[i] = counts[bot + i - 1]
    <3>1. b = SubSeq(counts, bot, len) /\ len \in Int
      BY <1>1, <1>4, <2>2
    <3>2. QED  BY <2>1, <3>1, SubSeqProperties
  <2>4. Len(b) = len - at
    BY <1>5, <2>2, <2>3
  <2>5. ASSUME NEW i \in 1 .. len - at  PROVE b[i] = counts[at + i]
    <3>1. i \in 1 .. len - bot + 1 /\ bot + i - 1 = at + i
      BY <1>5, <2>2
    <3>2. QED  BY <2>3, <3>1
  <2>6. QED  BY <2>3, <2>4, <2>5
<1> DEFINE From(i) == IF i < at THEN i ELSE i + 1
<1>8. Len(new) = len - 1 /\ \A i \in 1 .. len - 1 : new[i] = counts[From(i)]
  <2>1. /\ Len(new) = Len(a) + Len(b)
        /\ \A i \in 1 .. Len(a) + Len(b) : new[i] = IF i <= Len(a) THEN a[i] ELSE b[i - Len(a)]
    BY <1>2, <1>6, <1>7, ConcatProperties
  <2>2. Len(a) + Len(b) = len - 1
    BY <1>5, <1>6, <1>7
  <2>3. ASSUME NEW i \in 1 .. len - 1  PROVE new[i] = counts[From(i)]
    <3>1. CASE i < at
      <4>1. i <= Len(a) /\ i \in 1 .. at - 1 /\ i \in 1 .. Len(a) + Len(b)
        BY <1>5, <1>6, <2>2, <3>1
      <4>2. QED  BY <1>6, <2>1, <3>1, <4>1
    <3>2. CASE ~(i < at)
      <4>1. /\ ~(i <= Len(a)) /\ i - Len(a) \in 1 .. len - at
            /\ at + (i - Len(a)) = i + 1 /\ i \in 1 .. Len(a) + Len(b)
        BY <1>5, <1>6, <2>2, <3>2
      <4>2. new[i] = b[i - Len(a)] /\ b[i - Len(a)] = counts[at + (i - Len(a))]
        BY <1>7, <2>1, <4>1
      <4>3. QED  BY <3>2, <4>1, <4>2
    <3>3. QED  BY <3>1, <3>2
  <2>4. QED  BY <2>1, <2>2, <2>3
<1>9. ASSUME NEW i \in 1 .. len - 1
      PROVE  /\ From(i) \in 1 .. len
             /\ \A j \in 1 .. i - 1 : From(j) \in 1 .. From(i) - 1 /\ j \in 1 .. len - 1
  BY <1>5
<1> HIDE DEF From
<1>10. ASSUME NEW i \in 1 .. Len(new)
       PROVE  new[i] >= size /\ \A j \in 1 .. i - 1 : new[j] > new[i]
  <2>1. i \in 1 .. len - 1
    BY <1>8
  <2>2. counts[From(i)] >= size /\ \A j \in 1 .. From(i) - 1 : counts[j] > counts[From(i)]
    BY <1>4, <1>9, <2>1 DEF Dominates
  <2>3. QED  BY <1>8, <1>9, <2>1, <2>2
<1>11. QED  BY <1>3, <1>10 DEF Dominates

\* So every step of MemberUpdates keeps it.
LEMMA UpdatesDominate ==
  ASSUME Typed, Dominates(InTransit, known, Cardinality(senders)),
         [Updates!Next]_(Updates!vars)
  PROVE  Dominates(InTransit, known, Cardinality(senders))'
<1>1. InTransit \in Seq(Nat)
  BY AtMostOneType, ConcatProperties DEF Typed, InTransit
<1>2. IsFiniteSet(senders) /\ Cardinality(senders) \in Nat /\ known \in Nat
  BY MemberAssumption, FS_Subset, FS_CardinalityType DEF Typed
<1>3. PICK counts \in Seq(Nat), k \in Nat, size \in Nat :
        counts = InTransit /\ k = known /\ size = Cardinality(senders)
  BY <1>1, <1>2
<1>4. Dominates(counts, k, size)
  BY <1>3
<1>5. ASSUME NEW m \in Member, Updates!Eject(m)
      PROVE  Dominates(InTransit, known, Cardinality(senders))'
  <2>1. m \in senders /\ senders' = senders \ {m} /\ known' = k
    BY <1>3, <1>5 DEF Updates!Eject
  <2>2. InTransit' = Append(counts, size - 1)
    BY <1>3, <1>5, SameCount DEF Updates!Eject, InTransit
  <2>3. size # 0 /\ Cardinality(senders') = size - 1
    <3>1. Cardinality(senders \ {m}) = size - 1 /\ IsFiniteSet(senders \ {m})
      BY <1>2, <1>3, <2>1, FS_RemoveElement
    <3>2. Cardinality(senders \ {m}) \in Nat
      BY <3>1, FS_CardinalityType
    <3>3. QED  BY <2>1, <3>1, <3>2
  <2>4. Dominates(Append(counts, size - 1), k, size - 1)
    BY <1>4, <2>3, EjectDominates
  <2>5. QED  BY <2>1, <2>2, <2>3, <2>4
<1>6. CASE Updates!Receive
  <2>1. /\ senders' = senders /\ counts # <<>>
        /\ InTransit' = Tail(counts) /\ known' = Head(counts)
    BY <1>3, <1>6 DEF Updates!Receive, InTransit
  <2>2. Dominates(Tail(counts), Head(counts), size)
    BY <1>4, <2>1, ReceiveDominates
  <2>3. QED  BY <1>3, <2>1, <2>2
<1>7. CASE Updates!Lose
  <2>1. /\ senders' = senders /\ known' = k
        /\ Len(counts) > SubCap /\ InTransit' = Updates!RemoveAt(counts, SubCap + 1)
    BY <1>3, <1>7 DEF Updates!Lose, InTransit
  <2>2. SubCap + 1 \in 1 .. Len(counts)
    BY <2>1, CapAssumption, LenProperties
  <2>3. PICK at \in 1 .. Len(counts) : at = SubCap + 1
    BY <2>2
  <2>4. Dominates(Updates!RemoveAt(counts, at), k, size)
    BY <1>4, LoseDominates
  <2>5. QED  BY <1>3, <2>1, <2>3, <2>4
<1>8. CASE UNCHANGED Updates!vars
  BY <1>8 DEF Updates!vars, InTransit
<1>9. QED  BY <1>5, <1>6, <1>7, <1>8 DEF Updates!Next

\* collectVotes never compares votes with a count below the size of the group,
\* whatever is in transit or was dropped: so it announces no message on fewer
\* votes than the group has members (total_ording.go:224-252, broker.go).
THEOREM KnownNotTooSmallHolds == Spec => []KnownNotTooSmall
<1> DEFINE Known == Typed /\ Dominates(InTransit, known, Cardinality(senders))
<1>1. Init => Known
  <2> SUFFICES ASSUME Init  PROVE Known
    OBVIOUS
  <2>1. Typed /\ InTransit = <<>> /\ known = Cardinality(senders)
    BY InitRefines DEF Updates!Init, InTransit, Init
  <2>2. Cardinality(senders) \in Nat
    BY <2>1 DEF Typed
  <2>3. Len(<<>>) = 0
    OBVIOUS
  <2>4. QED  BY <2>1, <2>2, <2>3 DEF Dominates
<1>2. Known /\ [Next]_vars => Known'
  BY StepRefines, UpdatesDominate
<1>3. Known => KnownNotTooSmall
  BY DEF Dominates, KnownNotTooSmall, InTransit
<1>4. QED  BY <1>1, <1>2, <1>3, PTL DEF Spec
=============================================================================
