---------------------------- MODULE EventLogger ----------------------------
(***************************************************************************)
(* The centralized logger (cmd/mp0): each client sends the lines of its    *)
(* input as events over one connection, and the server, with a goroutine   *)
(* per connection, prints them together with when a client connected and   *)
(* disconnected.  The goroutines share nothing but the standard output.    *)
(***************************************************************************)
EXTENDS Integers, Sequences, FiniteSets, Functions

CONSTANTS
  Client,
  bad,       \* a line that does not have two fields
  long,      \* a line that does not fit the buffer of bufio.Scanner
  Input,     \* Input[c]: the lines of c; a line is an event, bad, or long
  NoName,    \* the empty From of a message that was never decoded: no client's
  MayBreak,  \* clients whose connection may break (bound of the environment)
  MayKill,   \* clients whose process may be killed (bound of the environment)
  MaxClock   \* bound of the clock

ASSUME InputAssumption ==
  /\ Input \in [Client -> Range(Input)]
  /\ \A c \in Client : Input[c] \in Seq(Range(Input[c]))
ASSUME NameAssumption == NoName \notin Client
ASSUME ClockAssumption == MaxClock \in Nat

VARIABLES
  clock,    \* what timeNow returns at the server
  client,   \* client[c]: how far CopyStdinToTCP of c is
  left,     \* left[c]: the lines c has not read
  wire,     \* wire[c]: the connection of c
  pipe,     \* pipe[c]: the events in it
  handler,  \* handler[c]: handleRequest for it, its point and its variables
  output    \* the lines on the standard output of the server

clientVars == <<client, left>>
connVars == <<wire, pipe>>
vars == <<clock, clientVars, connVars, handler, output>>

-----------------------------------------------------------------------------
Init ==
  /\ clock = 0
  /\ client = [c \in Client |-> "dial"]
  /\ left = Input
  /\ wire = [c \in Client |-> "none"]
  /\ pipe = [c \in Client |-> <<>>]
  /\ handler = [c \in Client |-> [pc |-> "none", isFirst |-> TRUE, from |-> NoName,
                                  payload |-> bad, since |-> 0, stamp |-> 0]]
  /\ output = <<>>

Tick ==
  /\ clock < MaxClock
  /\ clock' = clock + 1
  /\ UNCHANGED <<clientVars, connVars, handler, output>>

\* DialTimeout succeeds, or the client ends with an error.
Dial(c) ==
  /\ client[c] = "dial"
  /\ \/ /\ wire' = [wire EXCEPT ![c] = "open"]
        /\ client' = [client EXCEPT ![c] = "send"]
     \/ /\ c \in MayBreak
        /\ client' = [client EXCEPT ![c] = "failed"]
        /\ UNCHANGED wire
  /\ UNCHANGED <<clock, left, pipe, handler, output>>

IsEvent(line) == line \notin {bad, long}

\* A line without two fields is skipped.
SkipLine(c) ==
  /\ client[c] = "send"
  /\ left[c] # <<>>
  /\ Head(left[c]) = bad
  /\ left' = [left EXCEPT ![c] = Tail(@)]
  /\ UNCHANGED <<clock, client, connVars, handler, output>>

\* The next line is encoded into the connection.  Once it is broken, the
\* bytes are lost or the write fails, which ends the client.
SendLine(c) ==
  /\ client[c] = "send"
  /\ left[c] # <<>>
  /\ IsEvent(Head(left[c]))
  /\ left' = [left EXCEPT ![c] = Tail(@)]
  /\ \/ /\ pipe' = [pipe EXCEPT ![c] = IF wire[c] = "open" THEN Append(@, Head(left[c])) ELSE @]
        /\ UNCHANGED client
     \/ /\ wire[c] = "broken"
        /\ client' = [client EXCEPT ![c] = "failed"]
        /\ UNCHANGED pipe
  /\ UNCHANGED <<clock, wire, handler, output>>

\* The client closes its connection, or the system does so for it.
EndClient(c, how) ==
  /\ client[c] = "send"
  /\ client' = [client EXCEPT ![c] = how]
  /\ wire' = [wire EXCEPT ![c] = IF @ = "open" THEN "closed" ELSE @]
  /\ UNCHANGED <<clock, left, pipe, handler, output>>

\* Scan returns false: the input has ended, or a line is too long.
Close(c) ==
  /\ left[c] # <<>> => Head(left[c]) = long
  /\ EndClient(c, "ended")

\* The process is killed between two messages: what it wrote still arrives.
Kill(c) == c \in MayKill /\ EndClient(c, "killed")

\* The connection breaks, perhaps within a message: what arrives is a prefix.
Break(c) ==
  /\ c \in MayBreak
  /\ wire[c] \in {"open", "closed"}
  /\ handler[c].pc # "done"
  /\ wire' = [wire EXCEPT ![c] = "broken"]
  /\ \E k \in 0 .. Len(pipe[c]) : pipe' = [pipe EXCEPT ![c] = SubSeq(@, 1, k)]
  /\ UNCHANGED <<clock, clientVars, handler, output>>
-----------------------------------------------------------------------------
\* The server accepts the connection of c and starts its goroutine.
Accept(c) ==
  /\ wire[c] # "none"
  /\ handler[c].pc = "none"
  /\ handler' = [handler EXCEPT ![c].pc = "decode", ![c].since = clock]
  /\ UNCHANGED <<clock, clientVars, connVars, output>>

\* A message is decoded, and the time is taken.
Decode(c) ==
  /\ handler[c].pc = "decode"
  /\ pipe[c] # <<>>
  /\ pipe' = [pipe EXCEPT ![c] = Tail(@)]
  /\ handler' = [handler EXCEPT ![c] =
       [@ EXCEPT !.pc = IF handler[c].isFirst THEN "connected" ELSE "print",
                 !.from = c, !.payload = Head(pipe[c]), !.stamp = clock]]
  /\ UNCHANGED <<clock, clientVars, wire, output>>

Printed(kind, from, payload, stamp) ==
  output' = Append(output, [kind |-> kind, from |-> from, payload |-> payload, stamp |-> stamp])

\* Seeded fault: the time at which the line is printed.
PresentTime(h) == clock

\* The line of a new client has the time at which it was accepted.
ConnectedTime(h) == h.since

PrintConnected(c) ==
  /\ handler[c].pc = "connected"
  /\ Printed("connected", handler[c].from, bad, ConnectedTime(handler[c]))
  /\ handler' = [handler EXCEPT ![c].pc = "print", ![c].isFirst = FALSE]
  /\ UNCHANGED <<clock, clientVars, connVars>>

PrintEvent(c) ==
  /\ handler[c].pc = "print"
  /\ Printed("event", handler[c].from, handler[c].payload, handler[c].stamp)
  /\ handler' = [handler EXCEPT ![c].pc = "decode"]
  /\ UNCHANGED <<clock, clientVars, connVars>>

\* Seeded fault: the goroutine ends as soon as the connection is closed.
AtOnce(c) == TRUE

\* Decode reports the end of a connection after the last message in it.
AtEnd(c) == pipe[c] = <<>>

\* Seeded fault: a client that sent nothing is not reported.
EOFAfterMessage(c) == wire[c] = "closed" /\ ~handler[c].isFirst

IsEOF(c) == wire[c] = "closed"

\* io.EOF prints that the client disconnected; another error prints nothing.
\* Either ends the goroutine.
EndOfConnection(c) ==
  /\ handler[c].pc = "decode"
  /\ AtEnd(c)
  /\ wire[c] \in {"closed", "broken"}
  /\ IF IsEOF(c) THEN Printed("disconnected", handler[c].from, bad, clock)
                 ELSE UNCHANGED output
  /\ handler' = [handler EXCEPT ![c].pc = "done"]
  /\ UNCHANGED <<clock, clientVars, connVars>>

CopyStdinToTCP(c) == Dial(c) \/ SkipLine(c) \/ SendLine(c) \/ Close(c)

HandleRequest(c) ==
  Accept(c) \/ Decode(c) \/ PrintConnected(c) \/ PrintEvent(c) \/ EndOfConnection(c)

Next ==
  \/ Tick
  \/ \E c \in Client : CopyStdinToTCP(c) \/ Kill(c) \/ Break(c) \/ HandleRequest(c)

Spec == Init /\ [][Next]_vars

\* Clients read their input to its end, and the goroutines are scheduled.
FairSpec ==
  /\ Spec
  /\ \A c \in Client : WF_vars(CopyStdinToTCP(c)) /\ WF_vars(HandleRequest(c))
-----------------------------------------------------------------------------
\* How many of the first p lines of the input of c are events, and how many
\* of the first i lines of the output are events of c.
Asked(c, p) == Cardinality({q \in 1 .. p : IsEvent(Input[c][q])})

Logged(c, i) == Cardinality({j \in 1 .. i : output[j].from = c /\ output[j].kind = "event"})

\* The k-th event that the input of c asks for.
IsEventNo(k, c, line) ==
  \E p \in DOMAIN Input[c] : Input[c][p] = line /\ IsEvent(line) /\ Asked(c, p) = k

\* How many events c has read, and sent unless its connection broke.
Sent(c) == Asked(c, Len(Input[c]) - Len(left[c]))

\* However the goroutines interleave their lines, those of one client are:
\* that it connected, its events in the order of its input and without a gap,
\* and, after the last event that it sent, that it disconnected, whether it
\* came to the end of its input, gave up at a line or was killed
\* (handleRequest, cmd/mp0/server/root.go:84-129).
LinesInOrder ==
  \A c \in Client : \A i \in {j \in DOMAIN output : output[j].from = c} :
    /\ output[i].kind = "connected" <=> \A j \in 1 .. i - 1 : output[j].from # c
    /\ output[i].kind = "event" => IsEventNo(Logged(c, i), c, output[i].payload)
    /\ output[i].kind = "disconnected" =>
         /\ \A j \in DOMAIN output : j > i => output[j].from # c
         /\ Logged(c, i) = Sent(c)

\* The times on the lines of one client never go back, although a line is
\* printed after its time was taken, and other goroutines print in between.
TimesInOrder ==
  \A i, j \in DOMAIN output :
    (i < j /\ output[i].from = output[j].from /\ output[i].from # NoName)
      => output[i].stamp <= output[j].stamp

\* A client whose connection does not break has all the events printed that
\* it sent, and leaves the log again, killed or not, whatever the connections
\* of others do.
EverythingLogged ==
  \A c \in Client :
    [](wire[c] # "broken" /\ client[c] # "failed")
      => <>(\E i \in DOMAIN output :
              /\ output[i].kind = "disconnected"
              /\ output[i].from = IF Sent(c) = 0 THEN NoName ELSE c
              /\ Logged(c, i) = Sent(c))
=============================================================================
