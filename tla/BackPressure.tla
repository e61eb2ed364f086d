---------------------------- MODULE BackPressure ----------------------------
(***************************************************************************)
(* ReliableGroup with the loop of BMulticast.Multicast one write at a      *)
(* time: senderLock is held for the whole loop, a write waits while the    *)
(* buffer of its connection is full, and a handler that relays reads       *)
(* nothing meanwhile.  The watchdog of the locks (cli/mp1/node/main.go),   *)
(* which ends a process that waits too long for one, is a crash.           *)
(* A definition that replaces one of ReliableGroup has a P before its name.*)
(***************************************************************************)
EXTENDS ReliableGroup

CONSTANTS
  Cap,  \* how many messages the buffers of a connection hold
  App   \* the goroutine of the application

ASSUME CapAssumption == Cap \in Nat \ {0}

\* The messages are numbered in the order of the input of their nodes.
ASSUME PayloadAssumption == Payload \subseteq Nat

VARIABLE
  writing  \* writing[n]: the holder of senderLock of n, as a sequence of at
           \* most one record: which goroutine (a task, or App) writes what,
           \* the member it writes to, and those that are left

pvars == <<vars, writing>>

PInit == Init /\ writing = [n \in Node |-> <<>>]

\* The range of the loop visits the members in any order.
NextWrite(n, by, rmsg, members) ==
  \E d \in members : writing' = [writing EXCEPT ![n] =
    <<[by |-> by, rmsg |-> rmsg, dst |-> d, rest |-> members \ {d}]>>]

\* Seeded fault: nothing keeps two goroutines from writing.
LockIgnored(n) == TRUE

LockFree(n) == writing[n] = <<>>

Lock(n, by, rmsg) ==
  /\ LockFree(n)
  /\ NextWrite(n, by, rmsg, senders[n])

\* The application of node n multicasts m, the next message of its input.
PSend(n, m) ==
  /\ n \in alive
  /\ n = Origin[m]
  /\ m \notin sent
  /\ \A x \in Payload : Origin[x] = n /\ x < m => x \in sent
  /\ Lock(n, App, m)
  /\ sent' = sent \cup {m}
  /\ UNCHANGED <<bvars, rvars, delivered>>

PReceive(s, n) == Receive(s, n) /\ UNCHANGED writing

\* The handler of task t gets the lock to relay its message.
StartRelay(n, t) ==
  /\ n \in alive
  /\ t.pc = "relay"
  /\ Lock(n, t, t.rmsg)
  /\ UNCHANGED <<bvars, rvars, sent, delivered>>

\* The holder goes on to a member that is left, or releases the lock, and a
\* handler goes on to the router.
GoOn(n, w) ==
  IF w.rest # {}
    THEN NextWrite(n, w.by, w.rmsg, w.rest) /\ UNCHANGED tasks
    ELSE /\ writing' = [writing EXCEPT ![n] = <<>>]
         /\ IF w.by = App THEN UNCHANGED tasks ELSE GoTo(n, w.by, "route", w.by.local)

\* A write to a connection that carries data waits for room.
Room(n, d) == <<n, d>> \in conn => Len(net[n][d]) < Cap

Write(n, w) ==
  /\ n \in alive
  /\ \/ /\ Room(n, w.dst)
        /\ net' = Written(n, {w.dst}, RBMsg(w.rmsg))
        /\ GoOn(n, w)
        /\ UNCHANGED <<senders, memberUpdate>>
     \/ /\ w.dst \in Unreachable(n)
        /\ Eject(n, {w.dst})
        /\ GoOn(n, w)
        /\ UNCHANGED net
  /\ UNCHANGED <<alive, conn, received, sent, delivered>>

PRun(n, t) == Run(n, t) /\ UNCHANGED writing

PCrash(n) == Crash(n) /\ writing' = [writing EXCEPT ![n] = <<>>]

\* One step of the goroutine that handles the connection from s at n.
PHandleConn(s, n) ==
  \/ PReceive(s, n)
  \/ \E t \in tasks[n] : t.conn = s /\ (StartRelay(n, t) \/ PRun(n, t))

\* One step of the loop of the holder of the lock.
Hold(n) == \E w \in Range(writing[n]) : Write(n, w)

PNext ==
  \/ \E n \in Node, m \in Payload : PSend(n, m)
  \/ \E s, n \in Node : PHandleConn(s, n)
  \/ \E n \in Node : Hold(n) \/ PCrash(n)

PSpec == PInit /\ [][PNext]_pvars

\* Every goroutine of a running process is scheduled; the mutex goes to a
\* goroutine that keeps waiting for it.
PFairSpec ==
  /\ PSpec
  /\ \A n \in Node : WF_pvars(Hold(n))
  /\ \A s, n \in Node : SF_pvars(PHandleConn(s, n))
-----------------------------------------------------------------------------
\* What n is about to write to d.
Pending(n, d) == {w.rmsg : w \in {v \in Range(writing[n]) : d \in v.rest \cup {v.dst}}}

\* The handler of a message may run at its origin while the loop that
\* multicasts it has just begun; but what a handler ran for is always at, on
\* its way to, or about to be written to every member (b_multicast.go:105-132,
\* r_multicast.go:79-91).
HandledReachesAll ==
  \A n \in alive : \A m \in DeliveredSet(n) : \A d \in senders[n] :
    <<n, d>> \in conn => m \in received[d] \cup InFlight(n, d) \cup Pending(n, d)

\* The holder of senderLock of n waits for room on its connection to d, and d
\* reads nothing from it: its handler holds, or waits for, senderLock of d.
WaitsFor(n, d) ==
  /\ \E w \in Range(writing[n]) : w.dst = d /\ ~Room(n, d)
  /\ \E t \in tasks[d] : t.conn = n /\ t.pc = "relay"

\* Writers that wait for each other, round about: none gets on by itself.
CycleOfWriters ==
  \E S \in SUBSET alive \ {{}} : \A n \in S : \E d \in S \ {n} : WaitsFor(n, d)

\* Whatever a node that is up has multicast or handled, all have handled.
EveryoneHandled ==
  \A n \in alive : \A m \in DeliveredSet(n) \cup {x \in sent : Origin[x] = n} :
    \A d \in alive : m \in DeliveredSet(d)

\* Nodes that wait for room in each other's buffers, and goroutines that wait
\* for the lock meanwhile, get on, except while writers wait for each other in
\* a cycle: nothing else makes a node wait forever.  In particular none waits
\* for itself, since it does not relay the copies that it wrote to itself
\* (b_multicast.go:105-132, r_multicast.go:79-89, server.go:82-96).
OnlyCyclesWaitForever == []<>(EveryoneHandled \/ CycleOfWriters)
=============================================================================
