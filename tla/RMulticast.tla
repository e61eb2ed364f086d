----------------------------- MODULE RMulticast -----------------------------
(***************************************************************************)
(* The reliable multicast of a node (r_multicast.go) on top of BMulticast: *)
(* the first copy of a message is relayed to the group before the handler  *)
(* bound to its path runs; later copies are dropped.                       *)
(*                                                                         *)
(* A node has one handler goroutine per incoming connection.  `tasks[n]'   *)
(* holds the messages its goroutines are in the middle of handling:        *)
(*   conn   the source of the connection whose goroutine handles it        *)
(*   pc     "relay" (to be relayed), "route" (to be passed to the router), *)
(*          or a point inside the handler that the router calls            *)
(*   rmsg   the message                                                    *)
(*   local  the local variable of that handler (0 until it is assigned)    *)
(***************************************************************************)
EXTENDS BMulticast

VARIABLES
  received,   \* received[n]: RMulticast.received of node n
  tasks       \* tasks[n]: what the handler goroutines of n are doing

rvars == <<received, tasks>>

RInit ==
  /\ received = [n \in Node |-> {}]
  /\ tasks = [n \in Node |-> {}]

Task(RMsg, PCs) == [conn : Node, pc : PCs, rmsg : RMsg, local : Nat]

RTypeOK(RMsg, PCs) ==
  /\ received \in [Node -> SUBSET RMsg]
  /\ tasks \in [Node -> SUBSET Task(RMsg, PCs)]

RMulticastPath == "/r-multicast"

\* Seeded fault: the arguments are swapped.
RBMsgSwapped(rmsg) == [path |-> rmsg, body |-> RMulticastPath]

\* The frame that carries a message of this layer.
RBMsg(rmsg) == [path |-> RMulticastPath, body |-> rmsg]

\* The goroutine of n for the connection from s waits for its next message.
IsIdle(n, s) == \A t \in tasks[n] : t.conn # s

\* Seeded fault: every copy counts as the first.
AlwaysNew(n, rmsg) == TRUE

\* AddMsgIfNotExist returns true.
IsNew(n, rmsg) == rmsg \notin received[n]

\* Seeded faults: messages of others are not relayed; those that the node
\* wrote to itself are.
EntryWithoutRelay(n, s) == "route"
EntryWithSelfRelay(n, s) == "relay"

\* The first point of the handler: only messages of others are relayed.
EntryPoint(n, s) == IF s = n THEN "route" ELSE "relay"

NewTask(n, s, rmsg) ==
  [conn |-> s, pc |-> EntryPoint(n, s), rmsg |-> rmsg, local |-> 0]

\* The goroutine of task t moves on inside its handler, or returns from it.
At(t, pc, local) == [t EXCEPT !.pc = pc, !.local = local]
GoTo(n, t, pc, local) == tasks' = [tasks EXCEPT ![n] = (@ \ {t}) \cup {At(t, pc, local)}]
Return(n, t) == tasks' = [tasks EXCEPT ![n] = @ \ {t}]
-----------------------------------------------------------------------------
\* RMulticast.Multicast
MulticastR(n, rmsg) ==
  \E failed \in SUBSET Unreachable(n) : Multicast(n, RBMsg(rmsg), failed)

\* Node n reads a copy of a message from s and records it, or drops it.
ReceiveR(s, n) ==
  /\ IsIdle(n, s)
  /\ Read(s, n, RMulticastPath)
  /\ LET rmsg == Head(net[s][n]).body
     IN  IF IsNew(n, rmsg)
           THEN /\ received' = [received EXCEPT ![n] = @ \cup {rmsg}]
                /\ tasks' = [tasks EXCEPT ![n] = @ \cup {NewTask(n, s, rmsg)}]
           ELSE UNCHANGED rvars

\* The goroutine of task t relays its message to the group.
Relay(n, t) ==
  /\ n \in alive
  /\ t.pc = "relay"
  /\ MulticastR(n, t.rmsg)
  /\ GoTo(n, t, "route", t.local)
  /\ UNCHANGED received

\* A crash of n ends its goroutines.
RCrash(n) ==
  /\ NodeCrash(n)
  /\ tasks' = [tasks EXCEPT ![n] = {}]
  /\ UNCHANGED received
=============================================================================
