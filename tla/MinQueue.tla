------------------------------ MODULE MinQueue ------------------------------
(***************************************************************************)
(* What the hold queue of the total order multicast promises: a set of     *)
(* messages, each with a key, of which one with a minimal key is at the    *)
(* head.  Keys are ordered by sequence number, then messages that are not  *)
(* agreed come before agreed ones, then by process.                        *)
(***************************************************************************)
EXTENDS Integers

CONSTANTS
  Msg,     \* identifiers of messages
  SeqNum,  \* sequence numbers, naturals
  Process  \* identifiers of processes, naturals; Go compares the strings with <

VARIABLES
  held,  \* the messages in the queue
  key    \* key[m]: what the position of m depends on

vars == <<held, key>>

Key == [proposalSeqNum : SeqNum, agreed : BOOLEAN, processID : Process]

Before(k, l) ==
  \/ k.proposalSeqNum < l.proposalSeqNum
  \/ k.proposalSeqNum = l.proposalSeqNum /\ k.agreed # l.agreed /\ l.agreed = TRUE
  \/ k.proposalSeqNum = l.proposalSeqNum /\ k.agreed = l.agreed /\ k.processID < l.processID

IsMinimum(m) == m \in held /\ \A o \in held : ~Before(key[o], key[m])

Init == held = {} /\ key \in [Msg -> Key]

\* A message enters the queue, not agreed.
Push(m, k) ==
  /\ m \notin held
  /\ ~k.agreed
  /\ held' = held \cup {m}
  /\ key' = [key EXCEPT ![m] = k]

\* A message in the queue becomes agreed, or is agreed again.
Update(m, k) ==
  /\ m \in held
  /\ k.agreed
  /\ key' = [key EXCEPT ![m] = k]
  /\ UNCHANGED held

\* A message with a minimal key leaves the queue.
Pop(m) ==
  /\ IsMinimum(m)
  /\ held' = held \ {m}
  /\ UNCHANGED key

Next ==
  \E m \in Msg :
    \/ \E k \in Key : Push(m, k) \/ Update(m, k)
    \/ Pop(m)

Spec == Init /\ [][Next]_vars
=============================================================================
