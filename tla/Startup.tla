------------------------------ MODULE Startup -------------------------------
(***************************************************************************)
(* The start of a group (cmd/mp1/root.go, lib/mp1/config, group_builder.go, *)
(* and the Start methods of lib/mp1/multicast): every node parses its      *)
(* configuration file, listens, and dials the members one after another,   *)
(* with retries; the goroutine of an incoming connection waits until the   *)
(* clients of its node are ready.                                          *)
(*                                                                         *)
(* In a node, one goroutine adds to startSyncWaitGroup and then listens    *)
(* (startServer), a second dials and calls Done (startClients), and those  *)
(* of the connections wait for the counter to be 0 (handleConn).           *)
(***************************************************************************)
EXTENDS SequencesExt, FiniteSets

CONSTANTS
  Node,
  blank,          \* a line of a configuration file without three fields
  ConfigFiles,    \* ConfigFiles[n]: the files that n may be started with
  MayCrash,       \* nodes that may crash (bound of the environment)
  MayFailListen   \* nodes that may fail to listen (bound of the environment)

VARIABLES
  file,       \* file[n]: the configuration file of n
  taken,      \* the nodes on whose port another process listens, all along
  proc,       \* proc[n]: the state of the process
  added,      \* added[n]: how often startServer has called Add(1)
  server,     \* server[n]: what came of net.Listen
  dialed,     \* dialed[n]: how many clients startClients is done with
  client,     \* client[n]: what startClients is doing
  senders,    \* senders[n]: the map BMulticast.senders; "nil" is a nil client
  waitGroup,  \* waitGroup[n]: the counter of startSyncWaitGroup
  handler     \* handler[s][n]: the goroutine of n for the connection from s

vars == <<file, taken, proc, added, server, dialed, client, senders, waitGroup, handler>>

File == [count : Nat, lines : Seq(Node \cup {blank})]

\* Seeded fault: no more lines are read than the first line says.
StrictLimit(f) == f.count

\* The lines that are read at most, of those that follow the first.
Limit(f) == f.count + 1

LinesRead(f) == SubSeq(f.lines, 1, IF Limit(f) < Len(f.lines) THEN Limit(f) ELSE Len(f.lines))

\* Seeded fault: a line that is not understood becomes a member.
EveryLine(f) == LinesRead(f)

\* The loop of ConfigItemsParser: lines that do not have three fields are
\* skipped.
ConfigItems(f) ==
  LET line == LinesRead(f)
      configItem[i \in 0 .. Len(line)] ==
        IF i = 0 THEN <<>>
        ELSE IF line[i] = blank THEN configItem[i - 1]
        ELSE Append(configItem[i - 1], line[i])
  IN  configItem[Len(line)]

\* The file of a node does not list the node itself.
ASSUME FilesAssumption ==
  \A n \in Node : \A f \in ConfigFiles[n] : f \in File /\ n \notin Range(f.lines)

\* Seeded fault: the node itself comes first.
SelfFirst(n) == <<n>> \o ConfigItems(file[n])

\* The members of the group, in the order in which they are dialed.
Members(n) == Append(ConfigItems(file[n]), n)

\* Seeded fault: the node itself is not counted.
AddsForOthers(n) == Len(ConfigItems(file[n]))

\* How often startServer calls Add(1).
Adds(n) == Len(Members(n))

Running(n) == proc[n] \in {"up", "started"}

\* The member that n is dialing.
Dst(n) == Members(n)[dialed[n] + 1]

TypeOK ==
  /\ \A n \in Node : file[n] \in ConfigFiles[n] /\ Range(Members(n)) \subseteq Node
  /\ taken \subseteq MayFailListen
  /\ proc \in [Node -> {"off", "up", "started", "exited", "panicked", "crashed"}]
  /\ added \in [Node -> Nat]
  /\ server \in [Node -> {"starting", "listening", "failed"}]
  /\ dialed \in [Node -> Nat]
  /\ client \in [Node -> {"dial", "hello", "done", "finished", "failed"}]
  /\ \A n \in Node : DOMAIN senders[n] \subseteq Node /\ Range(senders[n]) \subseteq {"ok", "nil"}
  /\ waitGroup \in [Node -> Nat]
  /\ handler \in [Node -> [Node -> {"none", "hello", "waiting", "reading"}]]
-----------------------------------------------------------------------------
Init ==
  /\ file \in {f \in [Node -> UNION Range(ConfigFiles)] : \A n \in Node : f[n] \in ConfigFiles[n]}
  /\ taken \in SUBSET MayFailListen
  /\ proc = [n \in Node |-> "off"]
  /\ added = [n \in Node |-> 0]
  /\ server = [n \in Node |-> "starting"]
  /\ dialed = [n \in Node |-> 0]
  /\ client = [n \in Node |-> "dial"]
  /\ senders = [n \in Node |-> <<>>]
  /\ waitGroup = [n \in Node |-> 0]
  /\ handler = [s \in Node |-> [n \in Node |-> "none"]]

\* The node is started by hand, at any time.
Launch(n) ==
  /\ proc[n] = "off"
  /\ proc' = [proc EXCEPT ![n] = "up"]
  /\ UNCHANGED <<file, taken, added, server, dialed, client, senders, waitGroup, handler>>

\* The process of n ends.
End(n, how) == proc' = [proc EXCEPT ![n] = how]

\* startServer: one iteration of the loop.
Add(n) ==
  /\ proc[n] = "up"
  /\ added[n] < Adds(n)
  /\ added' = [added EXCEPT ![n] = @ + 1]
  /\ waitGroup' = [waitGroup EXCEPT ![n] = @ + 1]
  /\ UNCHANGED <<file, taken, proc, server, dialed, client, senders, handler>>

\* Seeded fault: the order of the loop and net.Listen is not kept.
ListensAtOnce(n) == TRUE

\* startServer listens only after its loop.
ReadyToListen(n) == added[n] = Adds(n)

\* startServer: net.Listen succeeds, and connections are accepted from now on.
Listen(n) ==
  /\ proc[n] = "up"
  /\ server[n] = "starting"
  /\ ReadyToListen(n)
  /\ n \notin taken
  /\ server' = [server EXCEPT ![n] = "listening"]
  /\ UNCHANGED <<file, taken, proc, added, dialed, client, senders, waitGroup, handler>>

\* It fails, always when another process has the port.
ListenFails(n) ==
  /\ n \in MayFailListen
  /\ proc[n] = "up"
  /\ server[n] = "starting"
  /\ ReadyToListen(n)
  /\ server' = [server EXCEPT ![n] = "failed"]
  /\ UNCHANGED <<file, taken, proc, added, dialed, client, senders, waitGroup, handler>>

\* Whoever listens on the port of d accepts, and so does another process that
\* has taken it; nothing else does.
Refused(d) == d \notin taken /\ ~(Running(d) /\ server[d] = "listening")

\* The connection to d is made; a member starts its goroutine for it.
Connected(n, d) ==
  /\ client' = [client EXCEPT ![n] = "hello"]
  /\ handler' = IF d \in taken THEN handler ELSE [handler EXCEPT ![n][d] = "hello"]

\* Seeded fault: a connection that is refused is given up.
GiveUp(n, d) ==
  \/ Refused(d) /\ client' = [client EXCEPT ![n] = "failed"] /\ UNCHANGED handler
  \/ ~Refused(d) /\ Connected(n, d)

\* Retry with 0 attempts: a connection that is refused is dialed again.
Retry(n, d) == ~Refused(d) /\ Connected(n, d)

\* NewTCPClient dials the next member.
Dial(n) ==
  /\ proc[n] = "up"
  /\ client[n] = "dial"
  /\ Retry(n, Dst(n))
  /\ UNCHANGED <<file, taken, proc, added, server, dialed, senders, waitGroup>>

\* It writes the handshake, which may fail when the member has stopped or is
\* another process, and the client, nil if it failed, becomes a member.  The
\* goroutine of the member for this connection reads the handshake and waits.
Hello(n) ==
  /\ proc[n] = "up"
  /\ client[n] = "hello"
  /\ \E result \in {"ok", "nil"} :
       /\ result = "nil" => Dst(n) \in taken \/ ~Running(Dst(n))
       /\ senders' = [senders EXCEPT ![n] =
                        [d \in DOMAIN @ \cup {Dst(n)} |-> IF d = Dst(n) THEN result ELSE @[d]]]
  /\ client' = [client EXCEPT ![n] = "done"]
  /\ handler' = [handler EXCEPT ![n][Dst(n)] = IF Dst(n) \notin taken /\ Running(Dst(n))
                                                 THEN "waiting" ELSE "none"]
  /\ UNCHANGED <<file, taken, proc, added, server, dialed, waitGroup>>

\* startClient calls Done, which panics when the counter is 0, and returns
\* the error of the client, if any.
Done(n) ==
  /\ proc[n] = "up"
  /\ client[n] = "done"
  /\ IF waitGroup[n] = 0
       THEN /\ End(n, "panicked")
            /\ UNCHANGED <<dialed, client, waitGroup>>
       ELSE /\ waitGroup' = [waitGroup EXCEPT ![n] = @ - 1]
            /\ dialed' = [dialed EXCEPT ![n] = @ + 1]
            /\ client' = [client EXCEPT ![n] =
                            IF senders[n][Dst(n)] = "nil" THEN "failed"
                            ELSE IF dialed[n] + 1 = Len(Members(n)) THEN "finished"
                            ELSE "dial"]
            /\ UNCHANGED proc
  /\ UNCHANGED <<file, taken, added, server, senders, handler>>

\* handleConn: the goroutine, which has read the handshake or the end of the
\* connection, passes Wait and reads messages from now on.
Wait(s, n) ==
  /\ Running(n)
  /\ handler[s][n] = "waiting" \/ (handler[s][n] = "hello" /\ ~Running(s))
  /\ waitGroup[n] = 0
  /\ handler' = [handler EXCEPT ![s][n] = "reading"]
  /\ UNCHANGED <<file, taken, proc, added, server, dialed, client, senders, waitGroup>>

\* BMulticast.Start waits for both goroutines; with an error, the program
\* exits, else it begins to read its input.
Finish(n) ==
  /\ proc[n] = "up"
  /\ server[n] # "starting"
  /\ client[n] \in {"finished", "failed"}
  /\ End(n, IF server[n] = "listening" /\ client[n] = "finished" THEN "started" ELSE "exited")
  /\ UNCHANGED <<file, taken, added, server, dialed, client, senders, waitGroup, handler>>

Crash(n) ==
  /\ n \in MayCrash
  /\ Running(n)
  /\ End(n, "crashed")
  /\ UNCHANGED <<file, taken, added, server, dialed, client, senders, waitGroup, handler>>

StartServer(n) == Add(n) \/ Listen(n) \/ ListenFails(n)
StartClients(n) == Dial(n) \/ Hello(n) \/ Done(n)

Next ==
  \/ \E n \in Node : Launch(n) \/ StartServer(n) \/ StartClients(n) \/ Finish(n)
  \/ \E n \in Node : Crash(n)
  \/ \E s, n \in Node : Wait(s, n)

Spec == Init /\ [][Next]_vars

\* Every node is started, and its goroutines are scheduled.
FairSpec ==
  /\ Spec
  /\ \A n \in Node : /\ WF_vars(Launch(n))
                     /\ WF_vars(StartServer(n))
                     /\ WF_vars(StartClients(n))
                     /\ WF_vars(Finish(n))
                     /\ \A s \in Node : WF_vars(Wait(s, n))
-----------------------------------------------------------------------------
\* A handler that reads messages answers and relays them: by then every
\* member of its node has a client, and none is nil (b_multicast.go:134-137,
\* 174-181, server.go:79-80).  A handshake that fails leaves the counter above
\* 0 for good, since the node itself is the last member (group_builder.go) and
\* can fail to connect to itself only when it does not listen.
ReadyBeforeReading ==
  \A s, n \in Node : handler[s][n] = "reading" =>
    \A d \in Range(Members(n)) : d \in DOMAIN senders[n] /\ senders[n][d] = "ok"

\* The nodes that a file lists, and whether its first line counts them and
\* at most one line is no node.
Listed(f) == Range(f.lines) \ {blank}
WellFormed(f) == f.count = Cardinality(Listed(f)) /\ Len(f.lines) <= f.count + 1

\* The group of a node that started has the node itself and nodes of its file
\* only, at most one more than the first line says, since the parser reads one
\* line too many (config.go:52-53): that lets a surplus node in, or makes up
\* for one line that is no node.  No member is skipped (b_multicast.go:159-167),
\* and each listens, but for those whose port another process has taken: that
\* answers in their place.
GroupComplete ==
  \A n \in Node : proc[n] = "started" =>
    LET group == DOMAIN senders[n]
        f == file[n]
    IN  /\ n \in group \ taken /\ group \subseteq Listed(f) \cup {n}
        /\ Cardinality(group) <= (f.count + 1) + 1
        /\ WellFormed(f) => Listed(f) \subseteq group
        /\ \A d \in group \ taken : proc[d] # "off" /\ server[d] = "listening"

\* WaitGroup.Done panics when it comes before Add; that cannot happen any
\* more once the node listens (b_multicast.go:134-148, 176).
PanicsOnlyWhileAdding ==
  \A n \in Node : proc[n] = "panicked" => server[n] = "starting" /\ added[n] < Adds(n)

\* When no process crashes or panics and none fails to listen, every node
\* starts, in whichever order they are launched, and reads from all the nodes
\* that have it as a member (client.go:22-30, retry.go:14-29).
EveryoneStarts ==
  [](\A n \in Node : proc[n] \notin {"crashed", "panicked"} /\ server[n] # "failed")
    => <>(\A n \in Node : /\ proc[n] = "started"
                          /\ \A d \in Range(Members(n)) : handler[n][d] = "reading")
=============================================================================
