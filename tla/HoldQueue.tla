----------------------------- MODULE HoldQueue ------------------------------
(***************************************************************************)
(* The hold queue of one node as the code keeps it                         *)
(* (lib/mp1/multicast/to_hold_queue_item.go): a slice of pointers to items *)
(* that container/heap arranges as a binary heap, the position of every    *)
(* item in a field of the item, and the map holdQueueMap from messages to  *)
(* items.  Update finds the place to repair by the stored position, so     *)
(* every Swap has to keep it right.                                        *)
(*                                                                         *)
(* An item is identified by its message.  One level of the sifting of      *)
(* container/heap is one step; an operation lasts until the queue is at    *)
(* rest again.  Operations do not overlap: holdQueueLocker is held.        *)
(* Positions count from 0, as in Go.                                       *)
(*                                                                         *)
(* TotalOrding uses the queue as a set of items with a minimal head        *)
(* (IsPeek, Pop, Update).  MinQueue states that promise and this module    *)
(* implements it.                                                          *)
(***************************************************************************)
EXTENDS Integers

CONSTANTS
  Msg,     \* identifiers of messages
  SeqNum,  \* sequence numbers (bounded for TLC)
  Process  \* identifiers of processes; Go compares the strings with <

ASSUME KeyAssumption ==
  /\ SeqNum \subseteq Nat /\ SeqNum # {}
  /\ Process \subseteq Nat /\ Process # {}

VARIABLES
  holdQueueMap,  \* keys of TotalOrding.holdQueueMap
  key,           \* key[m]: the fields of the item of m that Less compares
  index,         \* index[m]: the field index of the item of m
  len,           \* length of the slice
  pq,            \* the slice: pq[i] is the message whose item is at position i
  doing,         \* the operation in progress, "nothing" when at rest
  sift           \* where it has got to: direction, position, where it began

vars == <<holdQueueMap, key, index, len, pq, doing, sift>>

Key == [proposalSeqNum : SeqNum, agreed : BOOLEAN, processID : Process]

\* The part of the slice that is a heap: heap.Pop sifts without the last place.
Size == IF doing = "pop" THEN len - 1 ELSE len

TypeOK ==
  /\ holdQueueMap \subseteq Msg
  /\ key \in [Msg -> Key]
  /\ index \in [Msg -> Int]
  /\ len \in Nat
  /\ pq \in [0 .. len - 1 -> Msg]
  /\ doing \in {"nothing", "push", "fix", "pop"}
  /\ sift \in [dir : {"up", "down"}, at : Nat, from : Nat]
  /\ doing # "nothing" => sift.at < len
-----------------------------------------------------------------------------
\* Seeded fault: Less without its tie-breaks.
LessBySeq(k, l) == k.proposalSeqNum < l.proposalSeqNum

\* TOHoldPriorityQueue.Less, of the keys of two items.
Less(k, l) ==
  \/ k.proposalSeqNum < l.proposalSeqNum
  \/ /\ k.proposalSeqNum = l.proposalSeqNum
     /\ \/ ~k.agreed /\ l.agreed
        \/ k.agreed = l.agreed /\ k.processID < l.processID

LessAt(i, j) == Less(key[pq[i]], key[pq[j]])

Exchanged(i, j) == [pq EXCEPT ![i] = pq[j], ![j] = pq[i]]

\* Seeded fault: the items change places and keep their positions.
SwapSliceOnly(i, j) ==
  /\ pq' = Exchanged(i, j)
  /\ UNCHANGED index

\* TOHoldPriorityQueue.Swap
Swap(i, j) ==
  /\ pq' = Exchanged(i, j)
  /\ index' = [index EXCEPT ![pq[j]] = i, ![pq[i]] = j]

\* Seeded fault: the slice is not shortened.
LeaveInSlice ==
  /\ len' = len - 1
  /\ index' = [index EXCEPT ![pq[len - 1]] = -1]
  /\ UNCHANGED pq

\* TOHoldPriorityQueue.Pop: the last item of the slice is removed.
RemoveLast ==
  /\ len' = len - 1
  /\ pq' = [i \in 0 .. len - 2 |-> pq[i]]
  /\ index' = [index EXCEPT ![pq[len - 1]] = -1]

\* The child of i that comes first; the left one of equal ones.
FirstChild(i) ==
  IF 2 * i + 2 < Size /\ LessAt(2 * i + 2, 2 * i + 1) THEN 2 * i + 2 ELSE 2 * i + 1

Parent(i) == (i - 1) \div 2
-----------------------------------------------------------------------------
Init ==
  /\ holdQueueMap = {}
  /\ key = [m \in Msg |-> CHOOSE k \in Key : TRUE]
  /\ index = [m \in Msg |-> -1]
  /\ len = 0
  /\ pq = [i \in 0 .. -1 |-> i]
  /\ doing = "nothing"
  /\ sift = [dir |-> "up", at |-> 0, from |-> 0]

Sift(op, direction, i) ==
  /\ doing' = op
  /\ sift' = [dir |-> direction, at |-> i, from |-> i]

\* Seeded fault: the field index of the new item keeps its zero value.
PushWithoutIndex(m, k) ==
  /\ doing = "nothing"
  /\ m \notin holdQueueMap
  /\ ~k.agreed
  /\ holdQueueMap' = holdQueueMap \cup {m}
  /\ key' = [key EXCEPT ![m] = k]
  /\ index' = [index EXCEPT ![m] = 0]
  /\ len' = len + 1
  /\ pq' = [i \in 0 .. len |-> IF i = len THEN m ELSE pq[i]]
  /\ Sift("push", "up", len)

\* The item of m goes to holdQueueMap and is appended to the slice
\* (TOHoldPriorityQueue.Push); heap.Push then moves it up.
Push(m, k) ==
  /\ doing = "nothing"
  /\ m \notin holdQueueMap
  /\ ~k.agreed
  /\ holdQueueMap' = holdQueueMap \cup {m}
  /\ key' = [key EXCEPT ![m] = k]
  /\ index' = [index EXCEPT ![m] = len]
  /\ len' = len + 1
  /\ pq' = [i \in 0 .. len |-> IF i = len THEN m ELSE pq[i]]
  /\ Sift("push", "up", len)

\* TOHoldPriorityQueue.Update of an item found in holdQueueMap: heap.Fix
\* moves the item at the stored position down.
Update(m, k) ==
  /\ doing = "nothing"
  /\ m \in holdQueueMap
  /\ k.agreed
  /\ key' = [key EXCEPT ![m] = k]
  /\ Sift("fix", "down", index[m])
  /\ UNCHANGED <<holdQueueMap, index, len, pq>>

\* The item that Peek shows is removed from holdQueueMap; heap.Pop
\* exchanges it with the last one, which is moved down.
Pop ==
  /\ doing = "nothing"
  /\ len > 0
  /\ holdQueueMap' = holdQueueMap \ {pq[0]}
  /\ Swap(0, len - 1)
  /\ Sift("pop", "down", 0)
  /\ UNCHANGED <<key, len>>

CanMoveUp == sift.at > 0 /\ LessAt(sift.at, Parent(sift.at))

\* container/heap, up: the item is exchanged with its parent.
MoveUp ==
  /\ doing # "nothing"
  /\ sift.dir = "up"
  /\ CanMoveUp
  /\ Swap(sift.at, Parent(sift.at))
  /\ sift' = [sift EXCEPT !.at = Parent(sift.at)]
  /\ UNCHANGED <<holdQueueMap, key, len, doing>>

StopUp ==
  /\ doing # "nothing"
  /\ sift.dir = "up"
  /\ ~CanMoveUp
  /\ doing' = "nothing"
  /\ UNCHANGED <<holdQueueMap, key, index, len, pq, sift>>

CanMoveDown ==
  2 * sift.at + 1 < Size /\ LessAt(FirstChild(sift.at), sift.at)

\* container/heap, down: the item is exchanged with its first child.
MoveDown ==
  /\ doing # "nothing"
  /\ sift.dir = "down"
  /\ CanMoveDown
  /\ Swap(sift.at, FirstChild(sift.at))
  /\ sift' = [sift EXCEPT !.at = FirstChild(sift.at)]
  /\ UNCHANGED <<holdQueueMap, key, len, doing>>

\* heap.Fix: an item that has moved down is in place, another is moved up.
StopFix ==
  /\ doing = "fix"
  /\ sift.dir = "down"
  /\ ~CanMoveDown
  /\ IF sift.at > sift.from
       THEN doing' = "nothing" /\ UNCHANGED sift
       ELSE Sift("fix", "up", sift.at)
  /\ UNCHANGED <<holdQueueMap, key, index, len, pq>>

\* heap.Pop: the last item is removed and returned.
StopPop ==
  /\ doing = "pop"
  /\ sift.dir = "down"
  /\ ~CanMoveDown
  /\ RemoveLast
  /\ doing' = "nothing"
  /\ UNCHANGED <<holdQueueMap, key, sift>>

Next ==
  \/ \E m \in Msg, k \in Key : Push(m, k) \/ Update(m, k)
  \/ Pop
  \/ MoveUp \/ StopUp \/ MoveDown \/ StopFix \/ StopPop

Spec == Init /\ [][Next]_vars
-----------------------------------------------------------------------------
(***************************************************************************)
(* Properties.                                                             *)
(***************************************************************************)

\* Every item knows its position in the slice, also between two exchanges,
\* so heap.Fix repairs the heap where the changed item really is; the items
\* below the end of the heap are those of holdQueueMap, and no message is
\* in the slice twice.
IndexInPlace ==
  /\ \A i \in 0 .. len - 1 : index[pq[i]] = i
  /\ \A m \in Msg : m \in holdQueueMap <=> \E i \in 0 .. Size - 1 : pq[i] = m

IsChild(c, p) == c \in {2 * p + 1, 2 * p + 2}

\* The pairs of a child and its parent that the item being moved may leave
\* out of order.
Disturbed(c, p) ==
  doing # "nothing" /\ (c = sift.at \/ (sift.dir = "down" /\ p = sift.at))

\* While an item is moved, the slice is a heap but for this item: all other
\* children are in order with their parents, its children are in order with
\* its parent, and once it moved down it need not move up again, which is
\* what heap.Fix concludes from the positions.
HeapOrder ==
  LET at == sift.at IN
  /\ \A c, p \in 0 .. Size - 1 : IsChild(c, p) /\ ~Disturbed(c, p) => ~LessAt(c, p)
  /\ doing # "nothing" =>
       \A c, p \in 0 .. Size - 1 : IsChild(at, p) /\ IsChild(c, at) => ~LessAt(c, p)
  /\ doing # "nothing" /\ sift.dir = "down" =>
       /\ sift.from <= at
       /\ at > sift.from =>
            at < Size /\ \A p \in 0 .. Size - 1 : IsChild(at, p) => ~LessAt(at, p)
  /\ doing = "pop" => sift.dir = "down" /\ sift.from = 0
  /\ doing = "push" => sift.dir = "up"

\* When an operation is over, Peek shows an item that no other item is Less
\* than, whatever the operations before it were.
HeadIsMinimum ==
  doing = "nothing" =>
    \A i \in 0 .. len - 1 : ~LessAt(i, 0)

Abstract == INSTANCE MinQueue WITH held <- holdQueueMap

\* Push, Update and Pop of the heap are operations on a set whose head is a
\* minimum: the item that leaves is minimal, and it leaves the map too.
ImplementsMinQueue == Abstract!Spec
=============================================================================
