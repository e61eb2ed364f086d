-------------------------- MODULE HoldQueueProofs ---------------------------
(***************************************************************************)
(* Proofs about HoldQueue, for every set of messages, sequence numbers and *)
(* processes.                                                              *)
(***************************************************************************)
EXTENDS HoldQueue, WellFoundedInduction, TLAPS

\* The fields of a key are numbers and a Boolean.
LEMMA KeyFields ==
  ASSUME NEW k \in Key
  PROVE  k.proposalSeqNum \in Int /\ k.processID \in Int /\ k.agreed \in BOOLEAN
<1>1. k.proposalSeqNum \in SeqNum /\ k.processID \in Process
  BY Zenon DEF Key
<1>2. k.agreed \in BOOLEAN
  BY Zenon DEF Key
<1>3. (\A x \in SeqNum : x \in Int) /\ (\A x \in Process : x \in Int)
  BY KeyAssumption DEF KeyAssumption
<1>4. k.proposalSeqNum \in Int /\ k.processID \in Int
  BY <1>1, <1>3, Zenon
<1>5. QED  BY <1>2, <1>4

\* An item does not come before one that comes before it.
LEMMA LessAsymmetric ==
  ASSUME NEW k \in Key, NEW l \in Key, Less(k, l)
  PROVE  ~Less(l, k)
  BY KeyFields DEF Less

\* What comes no later than an item that comes no later than a third comes
\* no later than the third.
LEMMA NotLessTransitive ==
  ASSUME NEW k \in Key, NEW l \in Key, NEW m \in Key, ~Less(k, l), ~Less(l, m)
  PROVE  ~Less(k, m)
  BY KeyFields DEF Less

\* Positions of children and parents in the slice.
LEMMA ParentChild ==
  ASSUME NEW i \in Nat
  PROVE  /\ i > 0 => Parent(i) \in Nat /\ Parent(i) < i /\ IsChild(i, Parent(i))
         /\ \A p \in Nat : IsChild(i, p) => i > 0 /\ p < i /\ p = Parent(i)
<1>1. i > 0 => 2 * Parent(i) <= i - 1 /\ i - 1 <= 2 * Parent(i) + 1 /\ Parent(i) \in Int
  BY DEF Parent
<1>2. ASSUME i > 0
      PROVE  Parent(i) \in Nat /\ Parent(i) < i /\ IsChild(i, Parent(i))
  <2> DEFINE p == Parent(i)
  <2>1. 2 * p <= i - 1 /\ i - 1 <= 2 * p + 1 /\ p \in Int
    BY <1>1, <1>2
  <2> HIDE DEF p
  <2>2. p \in Nat /\ p < i /\ (i = 2 * p + 1 \/ i = 2 * p + 2)
    BY <2>1, <1>2
  <2>3. QED  BY <2>2 DEF IsChild, p
<1>3. ASSUME NEW p \in Nat, IsChild(i, p)  PROVE i > 0 /\ p < i /\ p = Parent(i)
  <2>1. i = 2 * p + 1 \/ i = 2 * p + 2
    BY <1>3 DEF IsChild
  <2>2. QED  BY <2>1, <1>1
<1>4. QED  BY <1>2, <1>3
-----------------------------------------------------------------------------
(***************************************************************************)
(* Types and positions.  Neither is inductive alone: that Update finds the *)
(* item inside the slice needs the stored positions to be right.           *)
(***************************************************************************)
PlaceInv == TypeOK /\ IndexInPlace

\* After an exchange the two items are at each other's position and know it
\* (Swap, to_hold_queue_item.go:50).
LEMMA SwapPlaces ==
  ASSUME TypeOK, IndexInPlace, NEW i \in 0 .. len - 1, NEW j \in 0 .. len - 1, Swap(i, j)
  PROVE  /\ pq' \in [0 .. len - 1 -> Msg]
         /\ index' \in [Msg -> Int]
         /\ pq'[i] = pq[j] /\ pq'[j] = pq[i]
         /\ \A k \in 0 .. len - 1 : k \notin {i, j} => pq'[k] = pq[k]
         /\ \A k \in 0 .. len - 1 : index'[pq'[k]] = k
<1>1. /\ pq \in [0 .. len - 1 -> Msg] /\ index \in [Msg -> Int] /\ len \in Nat
      /\ \A k \in 0 .. len - 1 : index[pq[k]] = k
  BY DEF TypeOK, IndexInPlace
<1>2. /\ pq' = [pq EXCEPT ![i] = pq[j], ![j] = pq[i]]
      /\ index' = [index EXCEPT ![pq[j]] = i, ![pq[i]] = j]
  BY DEF Swap, Exchanged
<1>3. pq[i] \in Msg /\ pq[j] \in Msg /\ i \in Int /\ j \in Int
  BY <1>1
<1>4. pq' \in [0 .. len - 1 -> Msg] /\ index' \in [Msg -> Int]
  BY <1>1, <1>2, <1>3
<1>5. /\ pq'[i] = pq[j] /\ pq'[j] = pq[i]
      /\ \A k \in 0 .. len - 1 : k \notin {i, j} => pq'[k] = pq[k]
  BY <1>1, <1>2
<1>6. /\ i # j => index'[pq[j]] = i
      /\ index'[pq[i]] = j
      /\ \A m \in Msg : m \notin {pq[i], pq[j]} => index'[m] = index[m]
  <2>1. i # j => pq[i] # pq[j]
    BY <1>1
  <2>2. QED  BY <1>1, <1>2, <1>3, <2>1
<1>7. ASSUME NEW k \in 0 .. len - 1  PROVE index'[pq'[k]] = k
  <2>1. CASE k = j
    BY <2>1, <1>5, <1>6
  <2>2. CASE k = i /\ i # j
    BY <2>2, <1>5, <1>6
  <2>3. CASE k \notin {i, j}
    <3>1. pq[k] \in Msg /\ pq[k] \notin {pq[i], pq[j]}
      BY <2>3, <1>1
    <3>2. QED  BY <3>1, <2>3, <1>1, <1>5, <1>6
  <2>4. QED  BY <2>1, <2>2, <2>3
<1>8. QED  BY <1>4, <1>5, <1>7

\* An exchange below n leaves the same items below n.
LEMMA SwapKeepsItems ==
  ASSUME TypeOK, IndexInPlace, NEW n \in 0 .. len,
         NEW i \in 0 .. n - 1, NEW j \in 0 .. n - 1, Swap(i, j), NEW m
  PROVE  (\E k \in 0 .. n - 1 : pq'[k] = m) <=> (\E k \in 0 .. n - 1 : pq[k] = m)
<1>1. len \in Nat /\ n \in Nat /\ n <= len
  BY DEF TypeOK
<1>2. i \in 0 .. len - 1 /\ j \in 0 .. len - 1
  BY <1>1
<1>3. /\ pq'[i] = pq[j] /\ pq'[j] = pq[i]
      /\ \A k \in 0 .. len - 1 : k \notin {i, j} => pq'[k] = pq[k]
  BY <1>2, SwapPlaces
<1>4. \A k \in 0 .. n - 1 : k \notin {i, j} => pq'[k] = pq[k]
  BY <1>1, <1>3
<1>5. ASSUME NEW k \in 0 .. n - 1, pq'[k] = m  PROVE \E l \in 0 .. n - 1 : pq[l] = m
  BY <1>3, <1>4, <1>5
<1>6. ASSUME NEW k \in 0 .. n - 1, pq[k] = m  PROVE \E l \in 0 .. n - 1 : pq'[l] = m
  BY <1>3, <1>4, <1>6
<1>7. QED  BY <1>5, <1>6

\* Bounds of the position that is being sifted and of those next to it.
LEMMA SiftBounds ==
  ASSUME TypeOK, doing # "nothing"
  PROVE  /\ len \in Nat /\ Size \in 0 .. len
         /\ sift.at \in 0 .. len - 1
         /\ FirstChild(sift.at) \in {2 * sift.at + 1, 2 * sift.at + 2}
         /\ CanMoveDown => /\ FirstChild(sift.at) \in 0 .. Size - 1
                           /\ sift.at \in 0 .. Size - 1
                           /\ sift.at < FirstChild(sift.at)
         /\ CanMoveUp => /\ Parent(sift.at) \in 0 .. len - 1
                         /\ Parent(sift.at) < sift.at
                         /\ IsChild(sift.at, Parent(sift.at))
<1>1. len \in Nat /\ sift.at \in Nat /\ sift.at < len
  BY DEF TypeOK
<1>2. Size \in 0 .. len
  BY <1>1 DEF Size
<1>3. FirstChild(sift.at) \in {2 * sift.at + 1, 2 * sift.at + 2}
  BY DEF FirstChild
<1>4. ASSUME CanMoveDown
      PROVE  FirstChild(sift.at) \in 0 .. Size - 1
  <2>1. 2 * sift.at + 1 < Size
    BY <1>4 DEF CanMoveDown
  <2>2. FirstChild(sift.at) < Size
    BY <2>1 DEF FirstChild
  <2>3. QED  BY <1>1, <1>2, <1>3, <2>2
<1>5. ASSUME CanMoveUp
      PROVE  /\ Parent(sift.at) \in 0 .. len - 1
             /\ Parent(sift.at) < sift.at
             /\ IsChild(sift.at, Parent(sift.at))
  <2>1. sift.at > 0
    BY <1>5 DEF CanMoveUp
  <2>2. /\ Parent(sift.at) \in Nat /\ Parent(sift.at) < sift.at
        /\ IsChild(sift.at, Parent(sift.at))
    BY <1>1, <2>1, ParentChild
  <2>3. QED  BY <1>1, <2>2
<1>6. ASSUME CanMoveDown
      PROVE  sift.at \in 0 .. Size - 1 /\ sift.at < FirstChild(sift.at)
  BY <1>1, <1>2, <1>3, <1>4, <1>6
<1>7. QED  BY <1>1, <1>2, <1>3, <1>4, <1>5, <1>6

\* Initially the queue is empty.
LEMMA PlaceInit == Init => PlaceInv
<1> SUFFICES ASSUME Init  PROVE PlaceInv
  OBVIOUS
<1>1. \E k : k \in Key
  <2>1. PICK s \in SeqNum, q \in Process : TRUE
    BY KeyAssumption DEF KeyAssumption
  <2>2. [proposalSeqNum |-> s, agreed |-> TRUE, processID |-> q] \in Key
    BY DEF Key
  <2>3. QED  BY <2>2
<1>2. key \in [Msg -> Key]
  BY <1>1 DEF Init
<1>3. TypeOK
  BY <1>2 DEF Init, TypeOK
<1>4. IndexInPlace
  BY DEF Init, IndexInPlace, Size
<1>5. QED  BY <1>3, <1>4 DEF PlaceInv

\* A step that exchanges two items of the heap keeps the positions.
LEMMA ExchangePlaces ==
  ASSUME PlaceInv, NEW i \in 0 .. Size - 1, NEW j \in 0 .. Size - 1, Swap(i, j),
         doing # "nothing", doing' = doing, len' = len,
         holdQueueMap' = holdQueueMap, key' = key, sift' = [sift EXCEPT !.at = j]
  PROVE  PlaceInv'
<1>1. TypeOK /\ IndexInPlace
  BY DEF PlaceInv
<1>2. len \in Nat /\ Size \in 0 .. len /\ Size' = Size
  BY <1>1, SiftBounds DEF Size
<1>3. i \in 0 .. len - 1 /\ j \in 0 .. len - 1
  BY <1>2
<1>4. /\ pq' \in [0 .. len - 1 -> Msg]
      /\ index' \in [Msg -> Int]
      /\ \A k \in 0 .. len - 1 : index'[pq'[k]] = k
  BY <1>1, <1>3, SwapPlaces
<1>5. sift' \in [dir : {"up", "down"}, at : Nat, from : Nat] /\ sift'.at = j
  <2>1. sift \in [dir : {"up", "down"}, at : Nat, from : Nat] /\ j \in Nat
    BY <1>1, <1>3 DEF TypeOK
  <2>2. QED  BY <2>1
<1>6. TypeOK'
  BY <1>1, <1>2, <1>3, <1>4, <1>5 DEF TypeOK
<1>7. \A m \in Msg : m \in holdQueueMap' <=> \E k \in 0 .. Size' - 1 : pq'[k] = m
  <2> TAKE m \in Msg
  <2>1. (\E k \in 0 .. Size - 1 : pq'[k] = m) <=> (\E k \in 0 .. Size - 1 : pq[k] = m)
    BY <1>1, <1>2, SwapKeepsItems
  <2>2. m \in holdQueueMap <=> \E k \in 0 .. Size - 1 : pq[k] = m
    BY <1>1 DEF IndexInPlace
  <2>3. QED  BY <2>1, <2>2, <1>2
<1>8. IndexInPlace'
  BY <1>4, <1>7 DEF IndexInPlace
<1>9. QED  BY <1>6, <1>8 DEF PlaceInv

\* Every step keeps the types and the positions.
LEMMA PlaceStep == PlaceInv /\ HeapOrder /\ [Next]_vars => PlaceInv'
<1> SUFFICES ASSUME PlaceInv, HeapOrder, [Next]_vars  PROVE PlaceInv'
  OBVIOUS
<1>1. /\ TypeOK /\ IndexInPlace
      /\ len \in Nat /\ pq \in [0 .. len - 1 -> Msg] /\ index \in [Msg -> Int]
      /\ \A i \in 0 .. len - 1 : index[pq[i]] = i
      /\ \A m \in Msg : m \in holdQueueMap <=> \E i \in 0 .. Size - 1 : pq[i] = m
  BY DEF PlaceInv, TypeOK, IndexInPlace
<1>2. ASSUME NEW m \in Msg, NEW k \in Key, Push(m, k)  PROVE PlaceInv'
  <2>1. /\ doing = "nothing" /\ m \notin holdQueueMap
        /\ holdQueueMap' = holdQueueMap \cup {m}
        /\ key' = [key EXCEPT ![m] = k]
        /\ index' = [index EXCEPT ![m] = len]
        /\ len' = len + 1
        /\ pq' = [i \in 0 .. len |-> IF i = len THEN m ELSE pq[i]]
        /\ doing' = "push" /\ sift' = [dir |-> "up", at |-> len, from |-> len]
    BY <1>2 DEF Push, Sift
  <2>2. Size = len /\ Size' = len + 1
    BY <2>1 DEF Size
  <2>3. pq' \in [0 .. len' - 1 -> Msg]
    BY <1>1, <2>1
  <2>4. TypeOK'
    BY <1>1, <2>1, <2>3 DEF TypeOK
  <2>5. \A i \in 0 .. len' - 1 : index'[pq'[i]] = i
    <3> SUFFICES ASSUME NEW i \in 0 .. len  PROVE index'[pq'[i]] = i
      BY <1>1, <2>1
    <3>1. CASE i = len
      BY <3>1, <1>1, <2>1
    <3>2. CASE i # len
      <4>1. i \in 0 .. len - 1 /\ pq'[i] = pq[i]
        BY <3>2, <1>1, <2>1
      <4>2. pq[i] \in holdQueueMap /\ pq[i] \in Msg
        BY <4>1, <1>1, <2>2
      <4>3. index'[pq[i]] = index[pq[i]]
        BY <4>2, <1>1, <2>1
      <4>4. QED  BY <4>1, <4>3, <1>1
    <3>3. QED  BY <3>1, <3>2
  <2>6. \A o \in Msg : o \in holdQueueMap' <=> \E i \in 0 .. Size' - 1 : pq'[i] = o
    <3>1. pq'[len] = m /\ \A i \in 0 .. len - 1 : pq'[i] = pq[i]
      BY <1>1, <2>1
    <3>2. ASSUME NEW o \in Msg
          PROVE  o \in holdQueueMap' <=> \E i \in 0 .. len : pq'[i] = o
      <4>1. o \in holdQueueMap' <=> o = m \/ \E i \in 0 .. len - 1 : pq[i] = o
        BY <1>1, <2>1, <2>2
      <4>2. QED  BY <4>1, <3>1, <1>1
    <3>3. QED  BY <3>2, <2>2, <1>1
  <2>7. QED  BY <2>4, <2>5, <2>6 DEF PlaceInv, IndexInPlace
<1>3. ASSUME NEW m \in Msg, NEW k \in Key, Update(m, k)  PROVE PlaceInv'
  <2>1. /\ doing = "nothing" /\ m \in holdQueueMap
        /\ key' = [key EXCEPT ![m] = k]
        /\ doing' = "fix" /\ sift' = [dir |-> "down", at |-> index[m], from |-> index[m]]
        /\ UNCHANGED <<holdQueueMap, index, len, pq>>
    BY <1>3 DEF Update, Sift
  <2>2. Size' = Size /\ Size = len
    BY <2>1 DEF Size
  <2>3. index[m] \in 0 .. len - 1
    BY <1>1, <2>1, <2>2
  <2>4. TypeOK'
    BY <1>1, <2>1, <2>3 DEF TypeOK
  <2>5. IndexInPlace'
    BY <1>1, <2>1, <2>2 DEF IndexInPlace
  <2>6. QED  BY <2>4, <2>5 DEF PlaceInv
<1>4. ASSUME Pop  PROVE PlaceInv'
  <2>1. /\ doing = "nothing" /\ len > 0
        /\ holdQueueMap' = holdQueueMap \ {pq[0]}
        /\ Swap(0, len - 1)
        /\ doing' = "pop" /\ sift' = [dir |-> "down", at |-> 0, from |-> 0]
        /\ UNCHANGED <<key, len>>
    BY <1>4 DEF Pop, Sift
  <2>2. Size = len /\ Size' = len - 1
    BY <2>1 DEF Size
  <2>3. 0 \in 0 .. len - 1 /\ len - 1 \in 0 .. len - 1
    BY <1>1, <2>1
  <2>4. /\ pq' \in [0 .. len - 1 -> Msg]
        /\ index' \in [Msg -> Int]
        /\ pq'[0] = pq[len - 1] /\ pq'[len - 1] = pq[0]
        /\ \A k \in 0 .. len - 1 : index'[pq'[k]] = k
    BY <1>1, <2>1, <2>3, SwapPlaces
  <2>5. TypeOK'
    BY <1>1, <2>1, <2>4 DEF TypeOK
  <2>6. ASSUME NEW o \in Msg
        PROVE  o \in holdQueueMap' <=> \E i \in 0 .. len - 2 : pq'[i] = o
    <3>1. (\E i \in 0 .. len - 1 : pq'[i] = o) <=> (\E i \in 0 .. len - 1 : pq[i] = o)
      <4>1. len \in 0 .. len
        BY <1>1
      <4>2. QED  BY <4>1, <1>1, <2>1, <2>3, SwapKeepsItems
    <3>2. o \in holdQueueMap <=> \E i \in 0 .. len - 1 : pq'[i] = o
      BY <3>1, <1>1, <2>2
    <3>3. \A i \in 0 .. len - 1 : pq'[i] = pq'[len - 1] => i = len - 1
      BY <2>3, <2>4
    <3>4. QED  BY <3>2, <3>3, <1>1, <2>1, <2>4
  <2>7. IndexInPlace'
    BY <2>1, <2>2, <2>4, <2>6, <1>1 DEF IndexInPlace
  <2>8. QED  BY <2>5, <2>7 DEF PlaceInv
<1>5. ASSUME MoveUp  PROVE PlaceInv'
  <2>1. /\ doing # "nothing" /\ sift.dir = "up" /\ CanMoveUp
        /\ Swap(sift.at, Parent(sift.at))
        /\ sift' = [sift EXCEPT !.at = Parent(sift.at)]
        /\ UNCHANGED <<holdQueueMap, key, len, doing>>
    BY <1>5 DEF MoveUp
  <2>2. Size = len
    BY <2>1 DEF HeapOrder, Size
  <2>3. sift.at \in 0 .. Size - 1 /\ Parent(sift.at) \in 0 .. Size - 1
    BY <1>1, <2>1, <2>2, SiftBounds
  <2>4. QED  BY <2>1, <2>3, ExchangePlaces
<1>6. ASSUME MoveDown  PROVE PlaceInv'
  <2>1. /\ doing # "nothing" /\ sift.dir = "down" /\ CanMoveDown
        /\ Swap(sift.at, FirstChild(sift.at))
        /\ sift' = [sift EXCEPT !.at = FirstChild(sift.at)]
        /\ UNCHANGED <<holdQueueMap, key, len, doing>>
    BY <1>6 DEF MoveDown
  <2>2. sift.at \in 0 .. Size - 1 /\ FirstChild(sift.at) \in 0 .. Size - 1
    BY <1>1, <2>1, SiftBounds
  <2>3. QED  BY <2>1, <2>2, ExchangePlaces
<1>7. ASSUME StopUp  PROVE PlaceInv'
  <2>1. doing' = "nothing" /\ Size' = Size
    BY <1>7 DEF StopUp, Size, HeapOrder
  <2>2. TypeOK'
    BY <1>1, <1>7 DEF StopUp, TypeOK
  <2>3. IndexInPlace'
    BY <1>1, <1>7, <2>1 DEF StopUp, IndexInPlace
  <2>4. QED  BY <2>2, <2>3 DEF PlaceInv
<1>8. ASSUME StopFix  PROVE PlaceInv'
  <2>1. /\ doing = "fix" /\ doing' \in {"nothing", "fix"}
        /\ sift' \in {sift, [dir |-> "up", at |-> sift.at, from |-> sift.at]}
        /\ UNCHANGED <<holdQueueMap, key, index, len, pq>>
    BY <1>8 DEF StopFix, Sift
  <2>2. Size' = Size
    BY <2>1 DEF Size
  <2>3. TypeOK'
    BY <1>1, <2>1 DEF TypeOK
  <2>4. IndexInPlace'
    BY <1>1, <2>1, <2>2 DEF IndexInPlace
  <2>5. QED  BY <2>3, <2>4 DEF PlaceInv
<1>9. ASSUME StopPop  PROVE PlaceInv'
  <2>1. /\ doing = "pop" /\ doing' = "nothing"
        /\ len' = len - 1
        /\ pq' = [i \in 0 .. len - 2 |-> pq[i]]
        /\ index' = [index EXCEPT ![pq[len - 1]] = -1]
        /\ UNCHANGED <<holdQueueMap, key, sift>>
    BY <1>9 DEF StopPop, RemoveLast
  <2>2. Size = len - 1 /\ Size' = len - 1
    BY <2>1 DEF Size
  <2>3. len > 0
    BY <1>1, <2>1 DEF TypeOK
  <2>4. TypeOK'
    <3>1. pq' \in [0 .. len' - 1 -> Msg] /\ len' \in Nat
      BY <1>1, <2>1, <2>3
    <3>2. index' \in [Msg -> Int]
      <4>1. -1 \in Int
        OBVIOUS
      <4>2. QED  BY <4>1, <1>1, <2>1, Zenon
    <3>3. QED  BY <3>1, <3>2, <2>1, <1>1 DEF TypeOK
  <2>5. ASSUME NEW i \in 0 .. len - 2  PROVE pq'[i] = pq[i] /\ index'[pq[i]] = i
    <3>1. /\ i \in 0 .. len - 1 /\ len - 1 \in 0 .. len - 1 /\ i # len - 1
          /\ pq[i] \in Msg /\ pq[len - 1] \in Msg
      BY <1>1, <2>3
    <3>2. pq[i] # pq[len - 1]
      BY <3>1, <1>1
    <3>3. QED  BY <3>1, <3>2, <2>1, <1>1
  <2>6. IndexInPlace'
    BY <2>1, <2>2, <2>5, <1>1 DEF IndexInPlace
  <2>7. QED  BY <2>4, <2>6 DEF PlaceInv
<1>10. CASE UNCHANGED vars
  <2>1. UNCHANGED <<holdQueueMap, key, index, len, pq, doing, sift>>
    BY <1>10 DEF vars
  <2>2. QED  BY <1>1, <2>1 DEF PlaceInv, TypeOK, IndexInPlace, Size
<1>11. QED
  BY <1>2, <1>3, <1>4, <1>5, <1>6, <1>7, <1>8, <1>9, <1>10 DEF Next
-----------------------------------------------------------------------------
(***************************************************************************)
(* The order of the heap.                                                  *)
(***************************************************************************)

\* Less orders the positions of the slice.
LEMMA PositionsOrdered ==
  ASSUME TypeOK
  PROVE  /\ \A i, j \in 0 .. len - 1 : LessAt(i, j) => ~LessAt(j, i)
         /\ \A i, j, k \in 0 .. len - 1 : ~LessAt(i, j) /\ ~LessAt(j, k) => ~LessAt(i, k)
<1>1. \A i \in 0 .. len - 1 : key[pq[i]] \in Key
  BY DEF TypeOK
<1>2. ASSUME NEW i \in 0 .. len - 1, NEW j \in 0 .. len - 1, LessAt(i, j)
      PROVE  ~LessAt(j, i)
  BY <1>1, <1>2, LessAsymmetric DEF LessAt
<1>3. ASSUME NEW i \in 0 .. len - 1, NEW j \in 0 .. len - 1, NEW k \in 0 .. len - 1,
             ~LessAt(i, j), ~LessAt(j, k)
      PROVE  ~LessAt(i, k)
  BY <1>1, <1>3, NotLessTransitive DEF LessAt
<1>4. QED  BY <1>2, <1>3

\* How two positions compare after an exchange.
LEMMA SwapOrder ==
  ASSUME TypeOK, IndexInPlace, NEW a \in 0 .. len - 1, NEW b \in 0 .. len - 1,
         Swap(a, b), key' = key
  PROVE  /\ \A i, j \in (0 .. len - 1) \ {a, b} : LessAt(i, j)' <=> LessAt(i, j)
         /\ \A i \in (0 .. len - 1) \ {a, b} :
              /\ LessAt(i, a)' <=> LessAt(i, b)
              /\ LessAt(i, b)' <=> LessAt(i, a)
              /\ LessAt(a, i)' <=> LessAt(b, i)
              /\ LessAt(b, i)' <=> LessAt(a, i)
         /\ LessAt(a, b)' <=> LessAt(b, a)
         /\ LessAt(b, a)' <=> LessAt(a, b)
<1>1. /\ pq'[a] = pq[b] /\ pq'[b] = pq[a]
      /\ \A k \in 0 .. len - 1 : k \notin {a, b} => pq'[k] = pq[k]
  BY SwapPlaces
<1>2. QED  BY <1>1 DEF LessAt

\* An item moves up: what was in order stays in order.
LEMMA MoveUpOrder == PlaceInv /\ HeapOrder /\ MoveUp => HeapOrder'
<1> SUFFICES ASSUME PlaceInv, HeapOrder, MoveUp  PROVE HeapOrder'
  OBVIOUS
<1>0. PICK at, up : at = sift.at /\ up = Parent(sift.at)
  OBVIOUS
<1>1. TypeOK /\ IndexInPlace
  BY DEF PlaceInv
<1>2. /\ doing \in {"push", "fix"} /\ sift.dir = "up" /\ CanMoveUp
      /\ Swap(at, up)
      /\ sift' = [sift EXCEPT !.at = up]
      /\ UNCHANGED <<holdQueueMap, key, len, doing>>
      /\ Size = len /\ Size' = len
  BY <1>0, <1>1 DEF MoveUp, HeapOrder, TypeOK, Size
<1>3. /\ at \in 0 .. len - 1 /\ up \in 0 .. len - 1 /\ up < at /\ IsChild(at, up)
      /\ len \in Nat
  BY <1>0, <1>1, <1>2, SiftBounds
<1>4. sift'.dir = "up" /\ sift'.at = up
  <2>1. sift \in [dir : {"up", "down"}, at : Nat, from : Nat]
    BY <1>1 DEF TypeOK
  <2>2. QED  BY <2>1, <1>2
<1>5. LessAt(at, up) /\ ~LessAt(up, at)
  BY <1>0, <1>1, <1>2, <1>3, PositionsOrdered DEF CanMoveUp
<1>6. /\ \A c, p \in 0 .. len - 1 : IsChild(c, p) /\ c # at => ~LessAt(c, p)
      /\ \A c, p \in 0 .. len - 1 : IsChild(at, p) /\ IsChild(c, at) => ~LessAt(c, p)
  BY <1>0, <1>2 DEF HeapOrder, Disturbed
<1>7. /\ \A i, j \in (0 .. len - 1) \ {at, up} : LessAt(i, j)' <=> LessAt(i, j)
      /\ \A i \in (0 .. len - 1) \ {at, up} :
           /\ LessAt(i, at)' <=> LessAt(i, up)
           /\ LessAt(i, up)' <=> LessAt(i, at)
           /\ LessAt(at, i)' <=> LessAt(up, i)
           /\ LessAt(up, i)' <=> LessAt(at, i)
      /\ LessAt(at, up)' <=> LessAt(up, at)
  BY <1>1, <1>2, <1>3, SwapOrder
<1>8. \A i \in 0 .. len - 1, p \in 0 .. len - 1 : IsChild(i, p) => p < i
  BY ParentChild
<1>9. \A p \in 0 .. len - 1 : IsChild(at, p) => p = up
  BY <1>3, ParentChild
<1>10. ASSUME NEW c \in 0 .. len - 1, NEW p \in 0 .. len - 1, IsChild(c, p), c # up
       PROVE  ~LessAt(c, p)'
  <2>1. CASE c = at
    BY <2>1, <1>5, <1>7, <1>9, <1>10
  <2>2. CASE c # at /\ p = up
    <3>1. ~LessAt(c, up)
      BY <2>2, <1>6, <1>10
    <3>2. ~LessAt(c, at)
      BY <3>1, <1>1, <1>3, <1>5, <1>10, PositionsOrdered
    <3>3. QED  BY <3>2, <2>2, <1>7, <1>10
  <2>3. CASE c # at /\ p = at
    BY <2>3, <1>3, <1>6, <1>7, <1>10
  <2>4. CASE c # at /\ p \notin {at, up}
    BY <2>4, <1>6, <1>7, <1>10
  <2>5. QED  BY <2>1, <2>2, <2>3, <2>4
<1>11. ASSUME NEW c \in 0 .. len - 1, NEW p \in 0 .. len - 1, IsChild(up, p), IsChild(c, up)
       PROVE  ~LessAt(c, p)'
  <2>1. ~LessAt(up, p) /\ p < up /\ up < c
    BY <1>3, <1>6, <1>8, <1>11
  <2>2. p \notin {at, up}
    BY <2>1, <1>3
  <2>3. CASE c = at
    BY <2>1, <2>2, <2>3, <1>7
  <2>4. CASE c # at
    <3>1. ~LessAt(c, up)
      BY <2>4, <1>3, <1>6, <1>11
    <3>2. ~LessAt(c, p)
      BY <3>1, <2>1, <1>1, <1>3, <1>11, PositionsOrdered
    <3>3. QED  BY <3>2, <2>1, <2>2, <2>4, <1>3, <1>7
  <2>5. QED  BY <2>3, <2>4
<1>12. QED  BY <1>2, <1>4, <1>10, <1>11 DEF HeapOrder, Disturbed

\* An item moves down: it leaves its first child above it.
LEMMA MoveDownOrder == PlaceInv /\ HeapOrder /\ MoveDown => HeapOrder'
<1> SUFFICES ASSUME PlaceInv, HeapOrder, MoveDown  PROVE HeapOrder'
  OBVIOUS
<1>0. PICK at, fst, n : at = sift.at /\ fst = FirstChild(sift.at) /\ n = Size
  OBVIOUS
<1>1. TypeOK /\ IndexInPlace
  BY DEF PlaceInv
<1>2. /\ doing # "nothing" /\ sift.dir = "down" /\ CanMoveDown
      /\ Swap(at, fst)
      /\ sift' = [sift EXCEPT !.at = fst]
      /\ UNCHANGED <<holdQueueMap, key, len, doing>>
      /\ Size' = n
  BY <1>0, <1>1 DEF MoveDown, Size
<1>3. /\ n \in 0 .. len /\ len \in Nat
      /\ at \in 0 .. n - 1 /\ fst \in 0 .. n - 1 /\ at < fst
      /\ fst = 2 * at + 1 \/ fst = 2 * at + 2
  BY <1>0, <1>1, <1>2, SiftBounds
<1>4. /\ sift'.dir = "down" /\ sift'.at = fst /\ sift'.from = sift.from
      /\ sift.from \in Nat
  <2>1. sift \in [dir : {"up", "down"}, at : Nat, from : Nat]
    BY <1>1 DEF TypeOK
  <2>2. QED  BY <2>1, <1>2
<1>5. /\ \A i, j \in 0 .. n - 1 : LessAt(i, j) => ~LessAt(j, i)
      /\ \A i, j, k \in 0 .. n - 1 : ~LessAt(i, j) /\ ~LessAt(j, k) => ~LessAt(i, k)
  <2>1. \A i \in 0 .. n - 1 : i \in 0 .. len - 1
    BY <1>3
  <2>2. QED  BY <2>1, <1>1, PositionsOrdered
<1>6. /\ LessAt(fst, at) /\ ~LessAt(at, fst)
      /\ \A c \in 0 .. n - 1 : IsChild(c, at) => ~LessAt(c, fst)
  <2>1. LessAt(fst, at) /\ ~LessAt(at, fst)
    BY <1>0, <1>2, <1>3, <1>5 DEF CanMoveDown
  <2>2. ASSUME NEW c \in 0 .. n - 1, IsChild(c, at)  PROVE ~LessAt(c, fst)
    <3>1. c = 2 * at + 1 \/ c = 2 * at + 2
      BY <2>2 DEF IsChild
    <3>2. fst = IF 2 * at + 2 < n /\ LessAt(2 * at + 2, 2 * at + 1)
                  THEN 2 * at + 2 ELSE 2 * at + 1
      BY <1>0 DEF FirstChild
    <3>3. CASE c = fst
      BY <3>3, <2>2, <1>5
    <3>4. CASE c # fst /\ c = 2 * at + 1
      BY <3>1, <3>2, <3>4, <1>3, <1>5
    <3>5. CASE c # fst /\ c = 2 * at + 2
      BY <3>1, <3>2, <3>5, <1>3
    <3>6. QED  BY <3>1, <3>3, <3>4, <3>5
  <2>3. QED  BY <2>1, <2>2
<1>7. /\ \A c, p \in 0 .. n - 1 : IsChild(c, p) /\ at \notin {c, p} => ~LessAt(c, p)
      /\ \A c, p \in 0 .. n - 1 : IsChild(at, p) /\ IsChild(c, at) => ~LessAt(c, p)
      /\ sift.from <= at
  BY <1>0, <1>2 DEF HeapOrder, Disturbed
<1>8. /\ \A i, j \in (0 .. n - 1) \ {at, fst} : LessAt(i, j)' <=> LessAt(i, j)
      /\ \A i \in (0 .. n - 1) \ {at, fst} :
           /\ LessAt(i, at)' <=> LessAt(i, fst)
           /\ LessAt(at, i)' <=> LessAt(fst, i)
      /\ LessAt(fst, at)' <=> LessAt(at, fst)
  <2>1. at \in 0 .. len - 1 /\ fst \in 0 .. len - 1 /\ \A i \in 0 .. n - 1 : i \in 0 .. len - 1
    BY <1>3
  <2>2. QED  BY <2>1, <1>1, <1>2, SwapOrder
<1>9. IsChild(fst, at)
  BY <1>3 DEF IsChild
<1>10. ASSUME NEW c \in 0 .. n - 1, NEW p \in Nat, IsChild(c, p)
       PROVE  p < c /\ (c = fst => p = at)
  BY <1>3, <1>9, <1>10, ParentChild
<1>11. ASSUME NEW c \in 0 .. n - 1, NEW p \in 0 .. n - 1, IsChild(c, p), fst \notin {c, p}
       PROVE  ~LessAt(c, p)'
  <2>1. CASE p = at
    <3>1. ~LessAt(c, fst) /\ c # at
      BY <2>1, <1>3, <1>6, <1>10, <1>11
    <3>2. QED  BY <3>1, <2>1, <1>8, <1>11
  <2>2. CASE c = at
    <3>1. ~LessAt(fst, p) /\ p # at
      BY <2>2, <1>3, <1>7, <1>9, <1>10, <1>11
    <3>2. QED  BY <3>1, <2>2, <1>8, <1>11
  <2>3. CASE at \notin {c, p}
    BY <2>3, <1>7, <1>8, <1>11
  <2>4. QED  BY <2>1, <2>2, <2>3
<1>12. ASSUME NEW c \in 0 .. n - 1, NEW p \in 0 .. n - 1, IsChild(fst, p), IsChild(c, fst)
       PROVE  ~LessAt(c, p)'
  <2>1. p = at /\ fst < c
    BY <1>3, <1>10, <1>12
  <2>2. ~LessAt(c, fst)
    BY <2>1, <1>3, <1>7, <1>12
  <2>3. QED  BY <2>1, <2>2, <1>3, <1>8, <1>12
<1>13. \A p \in 0 .. n - 1 : IsChild(fst, p) => ~LessAt(fst, p)'
  <2> SUFFICES ASSUME NEW p \in 0 .. n - 1, IsChild(fst, p)  PROVE ~LessAt(fst, p)'
    OBVIOUS
  <2>1. p = at
    BY <1>3, <1>10
  <2>2. QED  BY <2>1, <1>6, <1>8
<1>14. sift'.from <= fst /\ fst < n
  BY <1>3, <1>4, <1>7
<1>15. doing' # "push" /\ (doing' = "pop" => sift'.from = 0)
  BY <1>2, <1>4 DEF HeapOrder
<1>16. QED
  BY <1>2, <1>4, <1>11, <1>12, <1>13, <1>14, <1>15 DEF HeapOrder, Disturbed

\* The heap is in order but for the item that an operation starts to move.
LEMMA StartOrder ==
  ASSUME PlaceInv, HeapOrder,
         \/ \E m \in Msg, k \in Key : Push(m, k) \/ Update(m, k)
         \/ Pop
  PROVE  HeapOrder'
<1>1. TypeOK /\ IndexInPlace
  BY DEF PlaceInv
<1>2. /\ len \in Nat /\ pq \in [0 .. len - 1 -> Msg] /\ key \in [Msg -> Key]
      /\ \A i \in 0 .. len - 1 : index[pq[i]] = i
      /\ \A m \in Msg : m \in holdQueueMap <=> \E i \in 0 .. Size - 1 : pq[i] = m
  BY <1>1 DEF TypeOK, IndexInPlace
<1>3. ASSUME doing = "nothing"
      PROVE  /\ Size = len
             /\ \A c, p \in 0 .. len - 1 : IsChild(c, p) => ~LessAt(c, p)
  <2>1. Size = len
    BY <1>3 DEF Size
  <2>2. QED  BY <1>3, <2>1 DEF HeapOrder, Disturbed
<1>4. ASSUME NEW m \in Msg, NEW k \in Key, Push(m, k)  PROVE HeapOrder'
  <2>1. /\ doing = "nothing" /\ m \notin holdQueueMap
        /\ key' = [key EXCEPT ![m] = k]
        /\ len' = len + 1
        /\ pq' = [i \in 0 .. len |-> IF i = len THEN m ELSE pq[i]]
        /\ doing' = "push" /\ sift' = [dir |-> "up", at |-> len, from |-> len]
    BY <1>4 DEF Push, Sift
  <2>2. Size' = len + 1 /\ sift'.at = len /\ sift'.dir = "up"
    BY <2>1 DEF Size
  <2>3. ASSUME NEW i \in 0 .. len - 1  PROVE key'[pq'[i]] = key[pq[i]]
    <3>1. pq'[i] = pq[i] /\ pq[i] \in Msg /\ pq[i] # m
      BY <1>2, <1>3, <2>1
    <3>2. QED  BY <3>1, <2>1, <1>2
  <2>4. ASSUME NEW c \in 0 .. len, NEW p \in 0 .. len, IsChild(c, p), c # len
        PROVE  ~LessAt(c, p)'
    <3>1. p < c
      BY <2>4, <1>2, ParentChild
    <3>2. c \in 0 .. len - 1 /\ p \in 0 .. len - 1
      BY <3>1, <2>4, <1>2
    <3>3. ~LessAt(c, p)
      BY <3>2, <2>4, <2>1, <1>3
    <3>4. QED  BY <3>2, <3>3, <2>3 DEF LessAt
  <2>5. \A c \in 0 .. len : ~IsChild(c, len)
    BY <1>2 DEF IsChild
  <2>6. QED  BY <2>1, <2>2, <2>4, <2>5, <1>2 DEF HeapOrder, Disturbed
<1>5. ASSUME NEW m \in Msg, NEW k \in Key, Update(m, k)  PROVE HeapOrder'
  <2>0. PICK at : at = index[m]
    OBVIOUS
  <2>1. /\ doing = "nothing" /\ m \in holdQueueMap
        /\ key' = [key EXCEPT ![m] = k]
        /\ doing' = "fix" /\ sift' = [dir |-> "down", at |-> at, from |-> at]
        /\ UNCHANGED <<holdQueueMap, index, len, pq>>
    BY <1>5, <2>0 DEF Update, Sift
  <2>2. /\ Size' = len /\ sift'.at = at /\ sift'.from = at /\ sift'.dir = "down"
        /\ at \in 0 .. len - 1
    <3>1. Size' = len
      BY <2>1 DEF Size
    <3>2. at \in 0 .. len - 1
      BY <1>2, <1>3, <2>0, <2>1
    <3>3. QED  BY <3>1, <3>2, <2>1
  <2>3. ASSUME NEW i \in 0 .. len - 1, i # at  PROVE key'[pq'[i]] = key[pq[i]]
    <3>1. pq'[i] = pq[i] /\ pq[i] \in Msg /\ pq[i] # m
      BY <1>2, <2>0, <2>1, <2>3
    <3>2. QED  BY <3>1, <2>1, <1>2
  <2>4. ASSUME NEW c \in 0 .. len - 1, NEW p \in 0 .. len - 1, IsChild(c, p), at \notin {c, p}
        PROVE  ~LessAt(c, p)'
    BY <2>1, <2>3, <2>4, <1>3 DEF LessAt
  <2>5. ASSUME NEW c \in 0 .. len - 1, NEW p \in 0 .. len - 1, IsChild(at, p), IsChild(c, at)
        PROVE  ~LessAt(c, p)'
    <3>1. ~LessAt(c, at) /\ ~LessAt(at, p)
      BY <2>1, <2>2, <2>5, <1>3
    <3>2. ~LessAt(c, p)
      BY <3>1, <2>2, <1>1, PositionsOrdered
    <3>3. p < at /\ at < c
      BY <2>2, <2>5, ParentChild
    <3>4. c # at /\ p # at
      BY <3>3, <2>2
    <3>5. QED  BY <3>2, <3>4, <2>3 DEF LessAt
  <2>6. QED  BY <2>1, <2>2, <2>4, <2>5 DEF HeapOrder, Disturbed
<1>6. ASSUME Pop  PROVE HeapOrder'
  <2>0. PICK last : last = len - 1
    OBVIOUS
  <2>1. /\ doing = "nothing" /\ len > 0
        /\ Swap(0, last)
        /\ doing' = "pop" /\ sift' = [dir |-> "down", at |-> 0, from |-> 0]
        /\ UNCHANGED <<key, len>>
    BY <1>6, <2>0 DEF Pop, Sift
  <2>2. /\ Size' = last /\ sift'.at = 0 /\ sift'.from = 0 /\ sift'.dir = "down"
        /\ last \in 0 .. len - 1 /\ 0 \in 0 .. len - 1
    BY <2>0, <2>1, <1>2 DEF Size
  <2>3. \A i, j \in (0 .. len - 1) \ {0, last} : LessAt(i, j)' <=> LessAt(i, j)
    BY <2>1, <2>2, <1>1, SwapOrder
  <2>4. ASSUME NEW c \in 0 .. last - 1, NEW p \in 0 .. last - 1, IsChild(c, p), 0 \notin {c, p}
        PROVE  ~LessAt(c, p)'
    <3>1. c \in (0 .. len - 1) \ {0, last} /\ p \in (0 .. len - 1) \ {0, last}
      BY <2>0, <2>4, <1>2
    <3>2. QED  BY <3>1, <2>1, <2>3, <2>4, <1>3
  <2>5. \A p \in 0 .. last - 1 : ~IsChild(0, p)
    BY <2>2 DEF IsChild
  <2>6. QED  BY <2>1, <2>2, <2>4, <2>5 DEF HeapOrder, Disturbed
<1>7. QED  BY <1>4, <1>5, <1>6

\* An item that cannot move down is in order with its children.
LEMMA StoppedDown ==
  ASSUME TypeOK, doing # "nothing", ~CanMoveDown,
         NEW c \in 0 .. Size - 1, IsChild(c, sift.at)
  PROVE  ~LessAt(c, sift.at)
<1>0. PICK at, n : at = sift.at /\ n = Size
  OBVIOUS
<1>1. at \in 0 .. len - 1 /\ n \in 0 .. len /\ len \in Nat /\ c \in 0 .. n - 1
  BY <1>0, SiftBounds
<1>2. c = 2 * at + 1 \/ c = 2 * at + 2
  BY <1>0 DEF IsChild
<1>3. 2 * at + 1 < n
  BY <1>1, <1>2
<1>4. ~LessAt(FirstChild(at), at)
  BY <1>0, <1>3 DEF CanMoveDown
<1>5. FirstChild(at) = IF 2 * at + 2 < n /\ LessAt(2 * at + 2, 2 * at + 1)
                         THEN 2 * at + 2 ELSE 2 * at + 1
  BY <1>0 DEF FirstChild
<1>6. CASE c = FirstChild(at)
  BY <1>0, <1>4, <1>6
<1>7. CASE c # FirstChild(at)
  <2>1. FirstChild(at) \in 0 .. len - 1 /\ c \in 0 .. len - 1
    BY <1>1, <1>3, <1>5
  <2>2. ~LessAt(c, FirstChild(at))
    <3>1. CASE c = 2 * at + 1
      <4>1. LessAt(2 * at + 2, 2 * at + 1) /\ FirstChild(at) = 2 * at + 2
        BY <3>1, <1>5, <1>7
      <4>2. QED  BY <4>1, <3>1, <2>1, PositionsOrdered
    <3>2. CASE c = 2 * at + 2
      BY <3>2, <1>1, <1>5, <1>7
    <3>3. QED  BY <3>1, <3>2, <1>2
  <2>3. QED  BY <1>0, <1>1, <1>4, <2>1, <2>2, PositionsOrdered
<1>8. QED  BY <1>6, <1>7

\* When an item stops moving, the heap is in order, or, after a Fix that did
\* not move it down, in order but for its parent.
LEMMA StopOrder == PlaceInv /\ HeapOrder /\ (StopUp \/ StopFix \/ StopPop) => HeapOrder'
<1> SUFFICES ASSUME PlaceInv, HeapOrder, StopUp \/ StopFix \/ StopPop  PROVE HeapOrder'
  OBVIOUS
<1>0. PICK at, n : at = sift.at /\ n = Size
  OBVIOUS
<1>1. TypeOK /\ doing # "nothing"
  BY DEF PlaceInv, StopUp, StopFix, StopPop
<1>2. at \in 0 .. len - 1 /\ n \in 0 .. len /\ len \in Nat
  BY <1>0, <1>1, SiftBounds
<1>3. \A c, p \in 0 .. n - 1 : IsChild(c, p) /\ ~Disturbed(c, p) => ~LessAt(c, p)
  BY <1>0 DEF HeapOrder
<1>4. ASSUME StopUp  PROVE HeapOrder'
  <2>1. /\ sift.dir = "up" /\ ~CanMoveUp /\ doing' = "nothing"
        /\ UNCHANGED <<key, len, pq>>
        /\ Size' = n
    BY <1>0, <1>1, <1>4 DEF StopUp, HeapOrder, Size
  <2>2. ASSUME NEW c \in 0 .. n - 1, NEW p \in 0 .. n - 1, IsChild(c, p)
        PROVE  ~LessAt(c, p)
    <3>1. CASE c # at
      BY <3>1, <2>1, <2>2, <1>0, <1>3 DEF Disturbed
    <3>2. CASE c = at
      <4>1. at > 0 /\ p = Parent(at)
        BY <3>2, <2>2, ParentChild
      <4>2. QED  BY <4>1, <3>2, <2>1, <1>0 DEF CanMoveUp
    <3>3. QED  BY <3>1, <3>2
  <2>3. \A c, p \in 0 .. n - 1 : IsChild(c, p) => ~LessAt(c, p)'
    BY <2>1, <2>2 DEF LessAt
  <2>4. QED  BY <2>1, <2>3 DEF HeapOrder
<1>5. ASSUME sift.dir = "down", ~CanMoveDown
      PROVE  /\ \A c, p \in 0 .. n - 1 : IsChild(c, p) /\ c # at => ~LessAt(c, p)
             /\ at > sift.from => \A p \in 0 .. n - 1 : IsChild(at, p) => ~LessAt(at, p)
             /\ sift.from <= at
             /\ \A c, p \in 0 .. n - 1 : IsChild(at, p) /\ IsChild(c, at) => ~LessAt(c, p)
  <2>1. ASSUME NEW c \in 0 .. n - 1, NEW p \in 0 .. n - 1, IsChild(c, p), c # at
        PROVE  ~LessAt(c, p)
    <3>1. CASE p = at
      BY <3>1, <2>1, <1>0, <1>1, <1>5, StoppedDown
    <3>2. CASE p # at
      BY <3>2, <2>1, <1>0, <1>3 DEF Disturbed
    <3>3. QED  BY <3>1, <3>2
  <2>2. QED  BY <2>1, <1>0, <1>1, <1>5 DEF HeapOrder
<1>6. ASSUME StopFix  PROVE HeapOrder'
  <2>1. /\ doing = "fix" /\ sift.dir = "down" /\ ~CanMoveDown
        /\ UNCHANGED <<key, len, pq>>
    BY <1>6 DEF StopFix
  <2>2. \A i, j : LessAt(i, j)' <=> LessAt(i, j)
    BY <2>1 DEF LessAt
  <2>3. CASE at > sift.from
    <3>1. doing' = "nothing" /\ Size' = n
      BY <2>1, <2>3, <1>0, <1>6 DEF StopFix, Size
    <3>2. \A c, p \in 0 .. n - 1 : IsChild(c, p) => ~LessAt(c, p)
      BY <2>1, <2>3, <1>5
    <3>3. QED  BY <3>1, <3>2, <2>2 DEF HeapOrder
  <2>4. CASE ~(at > sift.from)
    <3>1. /\ doing' = "fix" /\ Size' = n
          /\ sift' = [dir |-> "up", at |-> at, from |-> at]
      BY <2>1, <2>4, <1>0, <1>6 DEF StopFix, Sift, Size
    <3>2. sift'.dir = "up" /\ sift'.at = at
      BY <3>1
    <3>3. QED  BY <3>1, <3>2, <2>1, <2>2, <1>5 DEF HeapOrder, Disturbed
  <2>5. QED  BY <2>3, <2>4
<1>7. ASSUME StopPop  PROVE HeapOrder'
  <2>1. /\ doing = "pop" /\ sift.dir = "down" /\ ~CanMoveDown /\ doing' = "nothing"
        /\ len' = len - 1
        /\ pq' = [i \in 0 .. len - 2 |-> pq[i]]
        /\ key' = key
    BY <1>7 DEF StopPop, RemoveLast
  <2>2. n = len - 1 /\ Size' = n /\ sift.from = 0
    BY <2>1, <1>0 DEF Size, HeapOrder
  <2>3. ASSUME NEW c \in 0 .. n - 1, NEW p \in 0 .. n - 1, IsChild(c, p)
        PROVE  ~LessAt(c, p)'
    <3>1. ~LessAt(c, p)
      <4>1. CASE c # at
        BY <4>1, <2>1, <2>3, <1>5
      <4>2. CASE c = at
        <5>1. at > 0
          BY <4>2, <2>3, ParentChild
        <5>2. QED  BY <5>1, <4>2, <2>1, <2>2, <2>3, <1>5
      <4>3. QED  BY <4>1, <4>2
    <3>2. pq'[c] = pq[c] /\ pq'[p] = pq[p]
      BY <2>1, <2>2, <1>2
    <3>3. QED  BY <3>1, <3>2, <2>1 DEF LessAt
  <2>4. QED  BY <2>1, <2>2, <2>3 DEF HeapOrder
<1>8. QED  BY <1>4, <1>6, <1>7

\* Positions and order are kept by every step.
LEMMA Inductive == Spec => [](PlaceInv /\ HeapOrder)
<1>1. Init => PlaceInv /\ HeapOrder
  <2> SUFFICES ASSUME Init  PROVE HeapOrder
    BY PlaceInit
  <2>1. Size = 0 /\ doing = "nothing"
    BY DEF Init, Size
  <2>2. QED  BY <2>1 DEF HeapOrder
<1>2. PlaceInv /\ HeapOrder /\ [Next]_vars => (PlaceInv /\ HeapOrder)'
  <2> SUFFICES ASSUME PlaceInv, HeapOrder, [Next]_vars  PROVE HeapOrder'
    BY PlaceStep
  <2>1. CASE UNCHANGED vars
    <3>1. UNCHANGED <<holdQueueMap, key, index, len, pq, doing, sift>>
      BY <2>1 DEF vars
    <3>2. Size' = Size /\ \A i, j : (LessAt(i, j)' <=> LessAt(i, j))
                                    /\ (Disturbed(i, j)' <=> Disturbed(i, j))
      BY <3>1 DEF Size, LessAt, Disturbed
    <3>3. QED  BY <3>1, <3>2 DEF HeapOrder
  <2>2. QED
    BY <2>1, StartOrder, MoveUpOrder, MoveDownOrder, StopOrder DEF Next
<1>3. QED  BY <1>1, <1>2, PTL DEF Spec
-----------------------------------------------------------------------------
(***************************************************************************)
(* Theorems.                                                               *)
(***************************************************************************)

\* The types of the queue are right in every reachable state.
THEOREM TypeCorrect == Spec => []TypeOK
<1>1. PlaceInv => TypeOK
  BY DEF PlaceInv
<1>2. QED  BY <1>1, Inductive, PTL

\* Every item in the slice knows its position, and holdQueueMap and the heap
\* hold the same messages (to_hold_queue_item.go:50-82).
THEOREM IndexInPlaceHolds == Spec => []IndexInPlace
<1>1. PlaceInv => IndexInPlace
  BY DEF PlaceInv
<1>2. QED  BY <1>1, Inductive, PTL

\* Among the positions of a heap at rest there is no first one whose item
\* comes before the head: its parent would too.
LEMMA RootIsMinimum == PlaceInv /\ HeapOrder => HeadIsMinimum
<1> SUFFICES ASSUME PlaceInv, HeapOrder, doing = "nothing",
                    NEW i \in 0 .. len - 1, LessAt(i, 0)
             PROVE  FALSE
  BY DEF HeadIsMinimum
<1>1. TypeOK /\ len \in Nat
  BY DEF PlaceInv, TypeOK
<1>2. \A c, p \in 0 .. len - 1 : IsChild(c, p) => ~LessAt(c, p)
  BY DEF HeapOrder, Disturbed, Size
<1> DEFINE Bad == {j \in 0 .. len - 1 : LessAt(j, 0)}
<1>3. Bad \in SUBSET Nat /\ i \in Bad
  BY <1>1
<1>4. PICK c \in Bad : \A j \in Bad : c <= j
  <2> DEFINE R == OpToRel(<, Nat)
  <2> HIDE DEF Bad
  <2>1. IsWellFoundedOn(R, Nat)
    BY NatLessThanWellFounded
  <2>2. \A x, y \in Nat : x < y => <<x, y>> \in R
    BY DEF OpToRel
  <2> HIDE DEF R
  <2>3. PICK m \in Bad : \A j \in Bad : <<j, m>> \notin R
    BY <1>3, <2>1, WFMin
  <2>4. ASSUME NEW j \in Bad  PROVE m <= j
    <3>1. j \in Nat /\ m \in Nat
      BY <1>3
    <3>2. ~(j < m)
      BY <3>1, <2>2, <2>3
    <3>3. QED  BY <3>1, <3>2
  <2>5. QED  BY <2>4
<1>5. c \in 0 .. len - 1 /\ LessAt(c, 0)
  OBVIOUS
<1>6. c # 0
  <2>1. 0 \in 0 .. len - 1
    BY <1>1
  <2>2. QED  BY <2>1, <1>1, <1>5, PositionsOrdered
<1>7. /\ Parent(c) \in 0 .. len - 1 /\ Parent(c) < c /\ IsChild(c, Parent(c))
  <2>1. Parent(c) \in Nat /\ Parent(c) < c /\ IsChild(c, Parent(c))
    BY <1>1, <1>5, <1>6, ParentChild
  <2>2. QED  BY <2>1, <1>1, <1>5
<1>8. ~LessAt(Parent(c), 0)
  BY <1>1, <1>4, <1>5, <1>7
<1>9. QED  BY <1>1, <1>2, <1>5, <1>7, <1>8, PositionsOrdered

\* Whatever operations came before, the head of the heap is a minimum.
THEOREM HeadIsMinimumHolds == Spec => []HeadIsMinimum
<1>1. QED  BY Inductive, RootIsMinimum, PTL

\* The order of the heap is that of the specification it implements.
LEMMA SameOrder ==
  ASSUME NEW k \in Key, NEW l \in Key
  PROVE  Less(k, l) <=> Abstract!Before(k, l)
  BY KeyFields DEF Less, Abstract!Before

\* Push, Update and Pop of container/heap over this slice implement a set
\* with a minimal head, which is how TotalOrding uses the queue.
THEOREM Refinement == Spec => ImplementsMinQueue
<1>1. Init /\ PlaceInv => Abstract!Init
  BY DEF Init, Abstract!Init, PlaceInv, TypeOK, Key, Abstract!Key
<1>2. PlaceInv /\ HeapOrder /\ [Next]_vars => [Abstract!Next]_(Abstract!vars)
  <2> SUFFICES ASSUME PlaceInv, HeapOrder, [Next]_vars
               PROVE  [Abstract!Next]_(Abstract!vars)
    OBVIOUS
  <2>1. Abstract!Key = Key
    BY DEF Key, Abstract!Key
  <2>2. ASSUME NEW m \in Msg, NEW k \in Key, Push(m, k)  PROVE Abstract!Next
    BY <2>1, <2>2 DEF Push, Abstract!Next, Abstract!Push
  <2>3. ASSUME NEW m \in Msg, NEW k \in Key, Update(m, k)  PROVE Abstract!Next
    BY <2>1, <2>3 DEF Update, Abstract!Next, Abstract!Update
  <2>4. ASSUME Pop  PROVE Abstract!Next
    <3>1. /\ doing = "nothing" /\ len > 0 /\ key' = key
          /\ holdQueueMap' = holdQueueMap \ {pq[0]}
          /\ Size = len
      BY <2>4 DEF Pop, Size
    <3>2. /\ len \in Nat /\ pq \in [0 .. len - 1 -> Msg] /\ key \in [Msg -> Key]
          /\ holdQueueMap \subseteq Msg
          /\ \A m \in Msg : m \in holdQueueMap <=> \E i \in 0 .. len - 1 : pq[i] = m
      BY <3>1 DEF PlaceInv, TypeOK, IndexInPlace
    <3>3. \A i \in 0 .. len - 1 : ~Less(key[pq[i]], key[pq[0]])
      BY <3>1, RootIsMinimum DEF HeadIsMinimum, LessAt
    <3>4. 0 \in 0 .. len - 1 /\ pq[0] \in Msg /\ pq[0] \in holdQueueMap
      BY <3>1, <3>2
    <3>5. ASSUME NEW o \in holdQueueMap  PROVE ~Abstract!Before(key[o], key[pq[0]])
      <4>1. PICK i \in 0 .. len - 1 : pq[i] = o
        BY <3>2
      <4>2. key[o] \in Key /\ key[pq[0]] \in Key
        BY <3>2, <3>4
      <4>3. QED  BY <4>1, <4>2, <3>3, SameOrder
    <3>6. Abstract!Pop(pq[0])
      BY <3>1, <3>4, <3>5 DEF Abstract!Pop, Abstract!IsMinimum
    <3>7. QED  BY <3>4, <3>6 DEF Abstract!Next
  <2>5. CASE MoveUp \/ StopUp \/ MoveDown \/ StopFix \/ StopPop
    BY <2>5 DEF MoveUp, StopUp, MoveDown, StopFix, StopPop, Abstract!vars
  <2>6. CASE UNCHANGED vars
    BY <2>6 DEF vars, Abstract!vars
  <2>7. QED  BY <2>2, <2>3, <2>4, <2>5, <2>6 DEF Next
<1>3. QED
  BY <1>1, <1>2, Inductive, PTL DEF Spec, ImplementsMinQueue, Abstract!Spec
=============================================================================
