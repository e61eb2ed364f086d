----------------------------- MODULE BMulticast -----------------------------
(***************************************************************************)
(* The basic multicast of a group of nodes (lib/mp1/multicast): every      *)
(* node keeps one TCP connection to every member, itself included, and a   *)
(* map `senders' of the members it still sends to.  A write that fails     *)
(* ejects the member from the map and publishes the new member count.      *)
(*                                                                         *)
(* A connection <<n, d>> is the one that n dialed to d; d reads it in a    *)
(* goroutine of its own (handleConn), in order.  A connection stops        *)
(* carrying data when one of its ends crashes or when it is reset; of the  *)
(* messages in flight then, only a prefix still arrives.  Writing to such  *)
(* a connection may succeed (the bytes are lost) or fail.                  *)
(*                                                                         *)
(* Multicast holds senderLock for its whole loop over `senders'.  It is    *)
(* one step here: nobody can observe that a message is not yet on a        *)
(* connection except by its absence, so a loop cut short by a crash is a   *)
(* finished loop followed by a crash that loses suffixes.                  *)
(*                                                                         *)
(* This module is the layer that RMulticast and TotalOrding extend; it     *)
(* declares no specification of its own.                                   *)
(***************************************************************************)
EXTENDS Integers, Sequences, FiniteSets, Functions

CONSTANTS
  Node,       \* identifiers of the nodes; Go compares the strings with <
  MayCrash,   \* nodes that may crash (bound of the environment)
  MayReset    \* connections that may be reset while both ends live (bound)

ASSUME NodeAssumption == Node \subseteq Nat /\ IsFiniteSet(Node)
ASSUME FaultAssumption == MayCrash \subseteq Node /\ MayReset \subseteq Node \X Node

VARIABLES
  alive,        \* nodes whose process runs
  conn,         \* connections that carry data
  net,          \* net[n][d]: the messages n wrote to d that d has not read
  senders,      \* senders[n]: keys of the map BMulticast.senders of node n
  memberUpdate  \* memberUpdate[n]: published counts that collectVotes has not read

bvars == <<alive, conn, net, senders, memberUpdate>>

BInit ==
  /\ alive = Node
  /\ conn = Node \X Node
  /\ net = [n \in Node |-> [d \in Node |-> <<>>]]
  /\ senders = [n \in Node |-> Node]
  /\ memberUpdate = [n \in Node |-> <<>>]

BTypeOK(BMsg) ==
  /\ alive \subseteq Node
  /\ conn \subseteq Node \X Node
  /\ net \in [Node -> [Node -> Seq(BMsg)]]
  /\ senders \in [Node -> SUBSET Node]
  /\ memberUpdate \in [Node -> Seq(Int)]
-----------------------------------------------------------------------------
MemberCount(n) == Cardinality(senders[n])

IsNodeAlived(n, d) == d \in senders[n]

\* The members a write of n may fail for.
Unreachable(n) == {d \in senders[n] : <<n, d>> \notin conn}

\* net after n wrote msg to the members in S.
Written(n, S, msg) ==
  [net EXCEPT ![n] = [d \in Node |-> IF d \in S /\ <<n, d>> \in conn
                                       THEN Append(net[n][d], msg)
                                       ELSE net[n][d]]]

\* Seeded fault: the count is taken before the member is removed.
CountsBeforeEjection(n, failed) ==
  [i \in 1 .. Cardinality(failed) |-> MemberCount(n) - i + 1]

\* The counts published while `failed' members are ejected one after another.
PublishedCounts(n, failed) ==
  [i \in 1 .. Cardinality(failed) |-> MemberCount(n) - i]

\* The members in `failed' are ejected from the group of n.
Eject(n, failed) ==
  /\ senders' = [senders EXCEPT ![n] = @ \ failed]
  /\ memberUpdate' = [memberUpdate EXCEPT ![n] = @ \o PublishedCounts(n, failed)]

\* n writes msg to all its members; the writes to `failed' return an error.
Multicast(n, msg, failed) ==
  /\ failed \subseteq Unreachable(n)
  /\ net' = Written(n, senders[n], msg)
  /\ Eject(n, failed)
  /\ UNCHANGED <<alive, conn>>

\* n writes msg to d, or finds d ejected already, or ejects it.
Unicast(n, d, msg) ==
  /\ UNCHANGED <<alive, conn>>
  /\ \/ /\ net' = Written(n, senders[n] \cap {d}, msg)
        /\ UNCHANGED <<senders, memberUpdate>>
     \/ /\ d \in Unreachable(n)
        /\ Eject(n, {d})
        /\ UNCHANGED net

\* The handler goroutine of node n for connection <<s, n>> reads a message;
\* the handler is the one bound to `path'.
Read(s, n, path) ==
  /\ n \in alive
  /\ net[s][n] # <<>>
  /\ Head(net[s][n]).path = path
  /\ net' = [net EXCEPT ![s][n] = Tail(@)]
  /\ UNCHANGED <<alive, conn, senders, memberUpdate>>
-----------------------------------------------------------------------------
(***************************************************************************)
(* Faults of the environment.                                              *)
(***************************************************************************)
Prefixes(seq) == {SubSeq(seq, 1, k) : k \in 0 .. Len(seq)}

\* The process of n stops.  What it wrote is cut to prefixes, what was
\* written to it is never read.
NodeCrash(n) ==
  /\ n \in MayCrash \cap alive
  /\ alive' = alive \ {n}
  /\ conn' = {c \in conn : c[1] # n /\ c[2] # n}
  /\ \E kept \in [alive' -> UNION {Prefixes(net[n][d]) : d \in Node}] :
       /\ \A d \in alive' : kept[d] \in Prefixes(net[n][d])
       /\ net' = [s \in Node |-> [d \in Node |->
                    IF d \notin alive' THEN <<>>
                    ELSE IF s = n THEN kept[d] ELSE net[s][d]]]
  /\ UNCHANGED <<senders, memberUpdate>>

\* The connection <<s, d>> is reset although both of its ends live.
ConnReset(s, d) ==
  /\ <<s, d>> \in MayReset \cap conn
  /\ conn' = conn \ {<<s, d>>}
  /\ \E kept \in Prefixes(net[s][d]) : net' = [net EXCEPT ![s][d] = kept]
  /\ UNCHANGED <<alive, senders, memberUpdate>>
=============================================================================
