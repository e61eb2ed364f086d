-------------------------- MODULE EventLoggerProofs --------------------------
(***************************************************************************)
(* Proofs about EventLogger, for every set of clients, any inputs, and any *)
(* connections that break.                                                 *)
(*                                                                         *)
(* The argument: the events of a client are printed, then one is with its  *)
(* handler, then some are in its connection, and then its input goes on.   *)
(* Each of them is the next one that the input asks for (InPlace).  What   *)
(* the others print in between changes none of it (OtherKeeps).            *)
(***************************************************************************)
EXTENDS EventLogger, FiniteSetTheorems, SequenceTheorems, TLAPS

Line == {bad} \cup UNION {Range(Input[c]) : c \in Client}

Name == Client \cup {NoName}

Entry == [kind : {"connected", "event", "disconnected"}, from : Name, payload : Line, stamp : Nat]

Handler == [pc : {"none", "decode", "connected", "print", "done"}, isFirst : BOOLEAN,
            from : Name, payload : Line, since : Nat, stamp : Nat]

TypeInv ==
  /\ clock \in Nat
  /\ client \in [Client -> {"dial", "send", "ended", "killed", "failed"}]
  /\ left \in [Client -> Seq(Line)]
  /\ wire \in [Client -> {"none", "open", "closed", "broken"}]
  /\ pipe \in [Client -> Seq(Line)]
  /\ handler \in [Client -> Handler]
  /\ output \in Seq(Entry)

\* How many lines c has read, and how many events are with its handler.
Read(c) == Len(Input[c]) - Len(left[c])

Pending(c) == IF handler[c].pc \in {"connected", "print"} THEN 1 ELSE 0

\* c has stopped reading its input.
Gone(c) == client[c] \notin {"dial", "send"}

\* What c has not read is the rest of its input, and its connection is closed
\* only after it has stopped reading.
RestOK(c) ==
  /\ Len(left[c]) <= Len(Input[c])
  /\ \A k \in DOMAIN left[c] : left[c][k] = Input[c][Read(c) + k]
  /\ client[c] = "dial" => wire[c] = "none"
  /\ client[c] = "send" => wire[c] \in {"open", "broken"}

\* Every event of c that was printed, is with its handler or is in its
\* connection is the next one after those before it, up to the last one that
\* c has read, unless some were lost.
InPlace(c) ==
  LET logged == Logged(c, Len(output))
  IN  /\ Pending(c) = 1 => IsEventNo(logged + 1, c, handler[c].payload)
      /\ \A k \in DOMAIN pipe[c] : IsEventNo(logged + Pending(c) + k, c, pipe[c][k])
      /\ wire[c] # "broken" => logged + Pending(c) + Len(pipe[c]) = Asked(c, Read(c))

\* isFirst says whether c is in the output; its name is known from its first
\* message on, and nothing is printed for it after its goroutine ended.
FirstOK(c) ==
  /\ handler[c].pc = "connected" => handler[c].isFirst
  /\ handler[c].pc = "print" => ~handler[c].isFirst
  /\ handler[c].from = IF handler[c].isFirst /\ handler[c].pc # "connected" THEN NoName ELSE c
  /\ handler[c].isFirst <=> \A i \in DOMAIN output : output[i].from # c
  /\ handler[c].pc # "done" =>
       \A i \in DOMAIN output : output[i].from = c => output[i].kind # "disconnected"

\* The times that a handler has taken and not printed.
StampsOK(c) ==
  /\ handler[c].since <= clock /\ handler[c].stamp <= clock
  /\ handler[c].pc = "connected" => handler[c].since <= handler[c].stamp
  /\ handler[c].pc = "print" =>
       \A i \in DOMAIN output : output[i].from = c => output[i].stamp <= handler[c].stamp

\* LinesInOrder and TimesInOrder, for one client; it sends nothing after the
\* line that says it is gone.
LinesOK(c) ==
  \A i \in DOMAIN output : output[i].from = c =>
    /\ output[i].kind = "connected" <=> \A j \in 1 .. i - 1 : output[j].from # c
    /\ output[i].kind = "event" => IsEventNo(Logged(c, i), c, output[i].payload)
    /\ output[i].kind = "disconnected" =>
         /\ \A j \in DOMAIN output : j > i => output[j].from # c
         /\ Gone(c) /\ Logged(c, i) = Sent(c)

TimesOK(c) ==
  \A i, j \in DOMAIN output :
    (i < j /\ output[i].from = c /\ output[j].from = c) => output[i].stamp <= output[j].stamp

ClientInv(c) == RestOK(c) /\ InPlace(c) /\ FirstOK(c) /\ StampsOK(c) /\ LinesOK(c) /\ TimesOK(c)

IInv ==
  /\ TypeInv
  /\ \A i \in DOMAIN output : output[i].stamp <= clock
  /\ \A c \in Client : ClientInv(c)

-----------------------------------------------------------------------------
(***************************************************************************)
(* Counting.                                                               *)
(***************************************************************************)

\* The positions of a kind up to p + 1 are those up to p, and perhaps p + 1.
LEMMA CountNext ==
  ASSUME NEW p \in Nat, NEW S \in SUBSET (1 .. p), NEW T \in SUBSET (1 .. p + 1),
         \A q \in 1 .. p : q \in S <=> q \in T
  PROVE  /\ Cardinality(S) \in Nat
         /\ Cardinality(T) = Cardinality(S) + IF p + 1 \in T THEN 1 ELSE 0
<1>1. IsFiniteSet(1 .. p)
  BY FS_Interval
<1>2. IsFiniteSet(S) /\ Cardinality(S) \in Nat
  BY <1>1, FS_Subset, FS_CardinalityType
<1>3. p + 1 \notin S /\ \A q \in T : q \in 1 .. p \/ q = p + 1
  OBVIOUS
<1>4. CASE p + 1 \in T
  <2>1. T = S \cup {p + 1}
    BY <1>3, <1>4
  <2>2. Cardinality(T) = Cardinality(S) + 1
    BY <1>2, <1>3, <2>1, FS_AddElement
  <2>3. QED  BY <1>2, <1>4, <2>2
<1>5. CASE p + 1 \notin T
  <2>1. T = S
    BY <1>3, <1>5
  <2>2. QED  BY <1>2, <1>5, <2>1
<1>6. QED  BY <1>4, <1>5

\* The events of the input up to a line, and the line after it.
LEMMA AskedNext ==
  ASSUME NEW c \in Client, NEW p \in Nat
  PROVE  /\ Asked(c, p) \in Nat
         /\ Asked(c, p + 1) = Asked(c, p) + IF IsEvent(Input[c][p + 1]) THEN 1 ELSE 0
<1> DEFINE S == {q \in 1 .. p : IsEvent(Input[c][q])}
           T == {q \in 1 .. p + 1 : IsEvent(Input[c][q])}
<1>1. /\ S \in SUBSET (1 .. p) /\ T \in SUBSET (1 .. p + 1)
      /\ \A q \in 1 .. p : q \in S <=> q \in T
      /\ p + 1 \in T <=> IsEvent(Input[c][p + 1])
  OBVIOUS
<1>2. Asked(c, p) = Cardinality(S) /\ Asked(c, p + 1) = Cardinality(T)
  BY DEF Asked
<1> HIDE DEF S, T
<1>3. Cardinality(S) \in Nat /\ Cardinality(T) = Cardinality(S) + IF p + 1 \in T THEN 1 ELSE 0
  BY <1>1, CountNext
<1>4. QED  BY <1>1, <1>2, <1>3

\* Nothing is asked for by no line, and nothing is in an empty output.
LEMMA CountZero ==
  ASSUME NEW c
  PROVE  Asked(c, 0) = 0 /\ Logged(c, 0) = 0
<1>1. {q \in 1 .. 0 : IsEvent(Input[c][q])} = {}
      /\ {j \in 1 .. 0 : output[j].from = c /\ output[j].kind = "event"} = {}
  OBVIOUS
<1>2. QED  BY <1>1, FS_EmptySet DEF Asked, Logged

-----------------------------------------------------------------------------
(***************************************************************************)
(* Printing.                                                               *)
(***************************************************************************)

\* What printing e does to the output.
Prints(e) ==
  /\ Len(output') = Len(output) + 1
  /\ output' \in Seq(Entry)
  /\ output'[Len(output) + 1] = e
  /\ \A i \in 1 .. Len(output) : output'[i] = output[i]
  /\ \A c \in Client : \A i \in 0 .. Len(output) : Logged(c, i)' = Logged(c, i)
  /\ \A c \in Client : Logged(c, Len(output))' =
       Logged(c, Len(output)) + IF e.from = c /\ e.kind = "event" THEN 1 ELSE 0

\* Counts of events are numbers.
LEMMA LoggedType ==
  ASSUME NEW c, NEW i \in Nat
  PROVE  Logged(c, i) \in Nat
<1> DEFINE S == {j \in 1 .. i : output[j].from = c /\ output[j].kind = "event"}
<1>1. S \in SUBSET (1 .. i) /\ IsFiniteSet(1 .. i)
  BY FS_Interval
<1>2. Logged(c, i) = Cardinality(S)
  BY DEF Logged
<1> HIDE DEF S
<1>3. QED  BY <1>1, <1>2, FS_Subset, FS_CardinalityType

\* A line is printed after those that are in the output, which stay.
LEMMA AppendPrints ==
  ASSUME TypeInv, NEW e \in Entry, output' = Append(output, e)
  PROVE  Prints(e)
<1>1. output \in Seq(Entry)
  BY DEF TypeInv
<1>2. /\ Len(output') = Len(output) + 1
      /\ output' \in Seq(Entry)
      /\ output'[Len(output) + 1] = e
      /\ \A i \in 1 .. Len(output) : output'[i] = output[i]
  BY <1>1, AppendProperties
<1>3. Len(output) \in Nat
  BY <1>1, LenProperties
<1>4. ASSUME NEW c \in Client, NEW i \in 0 .. Len(output)  PROVE Logged(c, i)' = Logged(c, i)
  <2>1. \A j \in 1 .. i : output'[j] = output[j]
    BY <1>2, <1>3
  <2>2. {j \in 1 .. i : output'[j].from = c /\ output'[j].kind = "event"}
          = {j \in 1 .. i : output[j].from = c /\ output[j].kind = "event"}
    BY <2>1
  <2>3. QED  BY <2>2 DEF Logged
<1>5. ASSUME NEW c \in Client
      PROVE  Logged(c, Len(output))' =
               Logged(c, Len(output)) + IF e.from = c /\ e.kind = "event" THEN 1 ELSE 0
  <2>1. PICK p \in Nat : p = Len(output)
    BY <1>3
  <2> DEFINE S == {j \in 1 .. p : output[j].from = c /\ output[j].kind = "event"}
             T == {j \in 1 .. p + 1 : output'[j].from = c /\ output'[j].kind = "event"}
  <2>2. /\ S \in SUBSET (1 .. p) /\ T \in SUBSET (1 .. p + 1)
        /\ \A q \in 1 .. p : q \in S <=> q \in T
        /\ p + 1 \in T <=> e.from = c /\ e.kind = "event"
    BY <1>2, <2>1
  <2>3. Logged(c, Len(output)) = Cardinality(S)
    BY <2>1 DEF Logged
  <2>4. Logged(c, Len(output))' = Cardinality(T)
    BY <1>2, <2>1 DEF Logged
  <2> HIDE DEF S, T
  <2>5. Cardinality(T) = Cardinality(S) + IF p + 1 \in T THEN 1 ELSE 0
    BY <2>2, CountNext
  <2>6. QED  BY <2>2, <2>3, <2>4, <2>5
<1>6. QED  BY <1>2, <1>4, <1>5 DEF Prints

-----------------------------------------------------------------------------
(***************************************************************************)
(* A step of one goroutine leaves alone what is said of other clients.     *)
(***************************************************************************)

\* A client that has stopped reading its input does not take it up again.
Settled(d) == Gone(d) => Gone(d)' /\ left'[d] = left[d]

\* The client d and its handler do not move.
Same(d) ==
  /\ client'[d] = client[d] /\ left'[d] = left[d]
  /\ wire'[d] = wire[d] /\ pipe'[d] = pipe[d]
  /\ handler'[d] = handler[d]

\* While nothing is printed, nothing changes in the lines of the output.
LEMMA QuietLines ==
  ASSUME NEW c \in Client, output' = output
  PROVE  /\ \A i : Logged(c, i)' = Logged(c, i)
         /\ Settled(c) /\ LinesOK(c) => LinesOK(c)'
         /\ TimesOK(c) => TimesOK(c)'
<1>1. \A i : Logged(c, i)' = Logged(c, i)
  BY DEF Logged
<1>2. Settled(c) /\ LinesOK(c) => LinesOK(c)'
  BY <1>1 DEF LinesOK, Settled, Sent
<1>3. TimesOK(c) => TimesOK(c)'
  BY DEF TimesOK
<1>4. QED  BY <1>1, <1>2, <1>3

\* What is said of d stays when neither d nor its handler moves and nothing
\* is printed, though time may go on.
LEMMA QuietKeeps ==
  ASSUME TypeInv, TypeInv', NEW d \in Client, ClientInv(d), Same(d),
         output' = output, clock <= clock'
  PROVE  ClientInv(d)'
<1>0. Settled(d)
  BY DEF Same, Settled, Gone
<1>1. (\A i : Logged(d, i)' = Logged(d, i)) /\ LinesOK(d)' /\ TimesOK(d)'
  BY <1>0, QuietLines DEF ClientInv
<1>2. RestOK(d)' /\ FirstOK(d)'
  BY DEF ClientInv, RestOK, FirstOK, Read, Same
<1>3. InPlace(d)'
  BY <1>1 DEF ClientInv, InPlace, Read, Pending, Same
<1>4. StampsOK(d)'
  <2>1. handler[d].since \in Nat /\ handler[d].stamp \in Nat /\ clock \in Nat /\ clock' \in Nat
    BY DEF TypeInv, Handler
  <2>2. QED  BY <2>1 DEF ClientInv, StampsOK, Same
<1>5. QED  BY <1>1, <1>2, <1>3, <1>4 DEF ClientInv

\* The output, as its length and what is printed last.
OneMore(n, e) ==
  /\ n = Len(output) /\ DOMAIN output = 1 .. n
  /\ DOMAIN output' = 1 .. n + 1 /\ output'[n + 1] = e
  /\ \A i \in 1 .. n : output'[i] = output[i]

\* Printing makes the output longer by one.
LEMMA PrintsOne ==
  ASSUME TypeInv, NEW e, Prints(e)
  PROVE  \E n \in Nat : OneMore(n, e)
<1>1. PICK n \in Nat : n = Len(output) /\ DOMAIN output = 1 .. n
  BY LenProperties DEF TypeInv
<1>2. DOMAIN output' = 1 .. n + 1 /\ output'[n + 1] = e /\ \A i \in 1 .. n : output'[i] = output[i]
  BY <1>1, LenProperties DEF Prints
<1>3. QED  BY <1>1, <1>2 DEF OneMore

\* The lines of d stay in order when something is printed that is not about d.
LEMMA OtherLines ==
  ASSUME TypeInv, NEW d \in Client, Settled(d), LinesOK(d), TimesOK(d),
         NEW e, Prints(e), e.from # d
  PROVE  /\ Logged(d, Len(output))' = Logged(d, Len(output))
         /\ LinesOK(d)'
         /\ TimesOK(d)'
<1>1. PICK n \in Nat : OneMore(n, e)
  BY PrintsOne
<1>2. \A i \in 1 .. n : Logged(d, i)' = Logged(d, i)
  BY <1>1 DEF Prints, OneMore
<1>3. Logged(d, Len(output))' = Logged(d, Len(output))
  BY <1>1, LoggedType DEF Prints, OneMore
<1>4. \A i \in DOMAIN output' : output'[i].from = d => i \in 1 .. n
  BY <1>1 DEF OneMore
<1>5. LinesOK(d)'
  <2> SUFFICES ASSUME NEW i \in 1 .. n, output[i].from = d
               PROVE  /\ output[i].kind = "connected" <=> \A j \in 1 .. i - 1 : output'[j].from # d
                      /\ output[i].kind = "event" => IsEventNo(Logged(d, i), d, output[i].payload)
                      /\ output[i].kind = "disconnected" =>
                           /\ \A j \in DOMAIN output' : j > i => output'[j].from # d
                           /\ Gone(d) /\ Logged(d, i) = Sent(d)
    BY <1>1, <1>2, <1>4 DEF LinesOK, OneMore, Settled, Sent
  <2>1. \A j \in 1 .. i - 1 : output'[j] = output[j]
    BY <1>1 DEF OneMore
  <2>2. i \in DOMAIN output
    BY <1>1 DEF OneMore
  <2>3. QED  BY <1>1, <1>4, <2>1, <2>2 DEF LinesOK, OneMore
<1>6. TimesOK(d)'
  BY <1>1, <1>4 DEF TimesOK, OneMore
<1>7. QED  BY <1>3, <1>5, <1>6

\* What is said of d stays when something is printed that is not about d.
LEMMA OtherKeeps ==
  ASSUME TypeInv, NEW d \in Client, ClientInv(d), Same(d), clock' = clock,
         NEW e, Prints(e), e.from # d
  PROVE  ClientInv(d)'
<1>0. Settled(d)
  BY DEF Same, Settled, Gone
<1>1. Logged(d, Len(output))' = Logged(d, Len(output)) /\ LinesOK(d)' /\ TimesOK(d)'
  BY <1>0, OtherLines DEF ClientInv
<1>2. PICK n \in Nat : OneMore(n, e)
  BY PrintsOne
<1>3. \A i \in DOMAIN output' : output'[i].from = d => i \in DOMAIN output /\ output'[i] = output[i]
  BY <1>2 DEF OneMore
<1>4. \A i \in DOMAIN output : i \in DOMAIN output' /\ output'[i] = output[i]
  BY <1>2 DEF OneMore
<1>5. RestOK(d)'
  BY DEF ClientInv, RestOK, Read, Same
<1>6. InPlace(d)'
  BY <1>1 DEF ClientInv, InPlace, Read, Pending, Same
<1>7. FirstOK(d)' /\ StampsOK(d)'
  BY <1>3, <1>4 DEF ClientInv, FirstOK, StampsOK, Same
<1>8. QED  BY <1>1, <1>5, <1>6, <1>7 DEF ClientInv

\* A line about c that is the first one or not, as its kind says, and is not
\* older than those before it, keeps the lines of c in order.
LEMMA OwnLine ==
  ASSUME TypeInv, NEW c \in Client, ClientInv(c), handler[c].pc # "done", Settled(c),
         NEW e \in Entry, Prints(e), e.from = c,
         e.kind = "connected" <=> handler[c].isFirst,
         e.kind = "event" => IsEventNo(Logged(c, Len(output)) + 1, c, e.payload),
         e.kind = "disconnected" => Gone(c) /\ Logged(c, Len(output)) = Sent(c),
         \A i \in DOMAIN output : output[i].from = c => output[i].stamp <= e.stamp
  PROVE  LinesOK(c)' /\ TimesOK(c)'
<1>1. PICK n \in Nat : OneMore(n, e)
  BY PrintsOne
<1>2. \A i \in 1 .. n : Logged(c, i)' = Logged(c, i)
  BY <1>1 DEF Prints, OneMore
<1>3. /\ e.kind = "event" => Logged(c, n + 1)' = Logged(c, Len(output)) + 1
      /\ e.kind # "event" => Logged(c, n + 1)' = Logged(c, Len(output))
  <2>1. Len(output') = n + 1
    BY <1>1 DEF Prints, OneMore
  <2>2. Logged(c, Len(output))' = Logged(c, n + 1)'
    BY <2>1 DEF Logged
  <2>3. Logged(c, Len(output)) \in Nat
    BY <1>1, LoggedType DEF OneMore
  <2>4. QED  BY <2>2, <2>3 DEF Prints
<1>4. LinesOK(c)'
  <2> SUFFICES ASSUME NEW i \in 1 .. n + 1, output'[i].from = c
               PROVE  /\ output'[i].kind = "connected" <=> \A j \in 1 .. i - 1 : output'[j].from # c
                      /\ output'[i].kind = "event" => IsEventNo(Logged(c, i)', c, output'[i].payload)
                      /\ output'[i].kind = "disconnected" =>
                           /\ \A j \in DOMAIN output' : j > i => output'[j].from # c
                           /\ Gone(c)' /\ Logged(c, i)' = Sent(c)'
    BY <1>1 DEF LinesOK, OneMore
  <2>1. CASE i \in 1 .. n
    <3>1. output'[i] = output[i] /\ i \in DOMAIN output /\ \A j \in 1 .. i - 1 : output'[j] = output[j]
      BY <1>1, <2>1 DEF OneMore
    <3>2. output[i].kind # "disconnected"
      BY <3>1 DEF ClientInv, FirstOK
    <3>3. QED  BY <1>2, <2>1, <3>1, <3>2 DEF ClientInv, LinesOK
  <2>2. CASE i = n + 1
    <3>1. output'[i] = e /\ i - 1 = n /\ \A j \in 1 .. n : output'[j] = output[j] /\ j \in DOMAIN output
      BY <1>1, <2>2 DEF OneMore
    <3>2. handler[c].isFirst <=> \A j \in 1 .. n : output'[j].from # c
      BY <1>1, <3>1 DEF ClientInv, FirstOK, OneMore
    <3>3. ~\E j \in DOMAIN output' : j > i
      BY <1>1, <2>2 DEF OneMore
    <3>4. e.kind = "disconnected" => Gone(c)' /\ Sent(c)' = Sent(c)
      BY DEF Settled, Sent
    <3>5. QED  BY <1>3, <2>2, <3>1, <3>2, <3>3, <3>4
  <2>3. QED  BY <2>1, <2>2
<1>5. TimesOK(c)'
  <2> SUFFICES ASSUME NEW i \in 1 .. n + 1, NEW j \in 1 .. n + 1, i < j,
                      output'[i].from = c, output'[j].from = c
               PROVE  output'[i].stamp <= output'[j].stamp
    BY <1>1 DEF TimesOK, OneMore
  <2>1. i \in 1 .. n /\ i \in DOMAIN output /\ output'[i] = output[i]
    BY <1>1 DEF OneMore
  <2>2. CASE j = n + 1
    BY <1>1, <2>1, <2>2 DEF OneMore
  <2>3. CASE j \in 1 .. n
    <3>1. j \in DOMAIN output /\ output'[j] = output[j]
      BY <1>1, <2>3 DEF OneMore
    <3>2. QED  BY <2>1, <3>1 DEF ClientInv, TimesOK
  <2>4. QED  BY <2>2, <2>3
<1>6. QED  BY <1>4, <1>5

-----------------------------------------------------------------------------
(***************************************************************************)
(* Types.                                                                  *)
(***************************************************************************)

\* The lines of an input.
LEMMA InputLines ==
  ASSUME NEW c \in Client
  PROVE  Input[c] \in Seq(Line)
<1>1. Input[c] \in Seq(Range(Input[c])) /\ Range(Input[c]) \subseteq Line
  BY InputAssumption DEF Line
<1>2. QED  BY <1>1, SeqMonotonic

\* The first element of a sequence, and the sequence without it.
LEMMA Parts ==
  ASSUME NEW S, NEW s \in Seq(S), s # <<>>
  PROVE  /\ Len(s) \in Nat \ {0} /\ DOMAIN s = 1 .. Len(s)
         /\ Head(s) \in S /\ Head(s) = s[1]
         /\ Tail(s) \in Seq(S) /\ Len(Tail(s)) = Len(s) - 1
         /\ DOMAIN Tail(s) = 1 .. Len(s) - 1
         /\ \A i \in 1 .. Len(s) - 1 : Tail(s)[i] = s[i + 1]
<1>1. Tail(s) \in Seq(S) /\ Len(Tail(s)) = Len(s) - 1 /\ \A i \in 1 .. Len(Tail(s)) : Tail(s)[i] = s[i + 1]
  BY HeadTailProperties
<1>2. Len(s) \in Nat /\ Len(s) # 0 /\ DOMAIN s = 1 .. Len(s)
  BY LenProperties, EmptySeq
<1>3. Head(s) = s[1] /\ s[1] \in S
  BY <1>2, ElementOfSeq
<1>4. DOMAIN Tail(s) = 1 .. Len(Tail(s))
  BY <1>1, LenProperties
<1>5. QED  BY <1>1, <1>2, <1>3, <1>4

\* A connection that breaks keeps a prefix.
LEMMA Prefix ==
  ASSUME NEW S, NEW s \in Seq(S), NEW k \in 0 .. Len(s)
  PROVE  /\ SubSeq(s, 1, k) \in Seq(S) /\ Len(SubSeq(s, 1, k)) = k
         /\ \A i \in 1 .. k : SubSeq(s, 1, k)[i] = s[i]
<1>1. Len(s) \in Nat /\ DOMAIN s = 1 .. Len(s)
  BY LenProperties
<1>2. \A i \in 1 .. k : i \in 1 .. Len(s)
  BY <1>1
<1>3. \A i \in 1 .. k : s[i] \in S
  BY <1>1, <1>2, ElementOfSeq
<1>4. SubSeq(s, 1, k) = [i \in 1 .. k |-> s[i]]
  BY <1>1
<1>5. QED  BY <1>1, <1>3, <1>4

\* Every line printed is an entry.
LEMMA EntryType ==
  ASSUME TypeInv, NEW c \in Client, NEW kind \in {"connected", "event", "disconnected"},
         NEW payload \in Line, NEW stamp \in Nat
  PROVE  [kind |-> kind, from |-> handler[c].from, payload |-> payload, stamp |-> stamp] \in Entry
BY DEF TypeInv, Handler, Entry

\* Nobody prints, sends or is handled at the start.
LEMMA TypeInit == Init => TypeInv
<1> SUFFICES ASSUME Init  PROVE TypeInv
  OBVIOUS
<1>1. left \in [Client -> Seq(Line)]
  BY InputAssumption, InputLines DEF Init
<1>2. bad \in Line /\ NoName \in Name
  BY DEF Line, Name
<1>3. handler \in [Client -> Handler]
  BY <1>2 DEF Init, Handler
<1>4. QED  BY <1>1, <1>3, EmptySeq DEF Init, TypeInv

\* Every step keeps the types.
LEMMA TypeStep == TypeInv /\ [Next]_vars => TypeInv'
<1> SUFFICES ASSUME TypeInv, [Next]_vars  PROVE TypeInv'
  OBVIOUS
<1>0. bad \in Line
  BY DEF Line
<1>1. CASE Tick
  BY <1>1 DEF Tick, TypeInv, clientVars, connVars
<1>2. ASSUME NEW c \in Client, Dial(c)  PROVE TypeInv'
  BY <1>2 DEF Dial, TypeInv
<1>3. ASSUME NEW c \in Client, SkipLine(c) \/ SendLine(c)  PROVE TypeInv'
  <2>1. left[c] \in Seq(Line) /\ left[c] # <<>> /\ left' = [left EXCEPT ![c] = Tail(@)]
    BY <1>3 DEF SkipLine, SendLine, TypeInv
  <2>2. Tail(left[c]) \in Seq(Line) /\ Head(left[c]) \in Line
    BY <2>1, Parts
  <2>3. left' \in [Client -> Seq(Line)]
    BY <2>1, <2>2 DEF TypeInv
  <2>4. Append(pipe[c], Head(left[c])) \in Seq(Line)
    BY <2>2, AppendProperties DEF TypeInv
  <2>5. pipe' \in [Client -> Seq(Line)]
    BY <1>3, <2>4 DEF SkipLine, SendLine, TypeInv, connVars
  <2>6. QED  BY <1>3, <2>3, <2>5 DEF SkipLine, SendLine, TypeInv, connVars
<1>4. ASSUME NEW c \in Client, Close(c) \/ Kill(c)  PROVE TypeInv'
  BY <1>4 DEF Close, Kill, EndClient, TypeInv
<1>5. ASSUME NEW c \in Client, Break(c)  PROVE TypeInv'
  <2>1. PICK k \in 0 .. Len(pipe[c]) : pipe' = [pipe EXCEPT ![c] = SubSeq(@, 1, k)]
    BY <1>5 DEF Break
  <2>2. SubSeq(pipe[c], 1, k) \in Seq(Line)
    BY Prefix DEF TypeInv
  <2>3. pipe' \in [Client -> Seq(Line)]
    BY <2>1, <2>2 DEF TypeInv
  <2>4. QED  BY <1>5, <2>3 DEF Break, TypeInv, clientVars
<1>6. ASSUME NEW c \in Client, Accept(c)  PROVE TypeInv'
  BY <1>6 DEF Accept, TypeInv, Handler, clientVars, connVars
<1>7. ASSUME NEW c \in Client, Decode(c)  PROVE TypeInv'
  <2>1. Tail(pipe[c]) \in Seq(Line) /\ Head(pipe[c]) \in Line
    BY <1>7, Parts DEF Decode, TypeInv
  <2>2. pipe' \in [Client -> Seq(Line)]
    BY <1>7, <2>1 DEF Decode, TypeInv
  <2>3. ASSUME NEW pc \in {"connected", "print"}
        PROVE  [handler[c] EXCEPT !.pc = pc, !.from = c, !.payload = Head(pipe[c]), !.stamp = clock]
                 \in Handler
    BY <2>1 DEF TypeInv, Handler, Name
  <2>4. handler' \in [Client -> Handler]
    BY <1>7, <2>3 DEF Decode, TypeInv
  <2>5. QED  BY <1>7, <2>2, <2>4 DEF Decode, TypeInv, clientVars
<1>8. ASSUME NEW c \in Client, PrintConnected(c) \/ PrintEvent(c) \/ EndOfConnection(c)
      PROVE  TypeInv'
  <2>1. handler[c] \in Handler
    BY DEF TypeInv
  <2>2. /\ [kind |-> "connected", from |-> handler[c].from, payload |-> bad,
             stamp |-> handler[c].since] \in Entry
        /\ [kind |-> "event", from |-> handler[c].from, payload |-> handler[c].payload,
             stamp |-> handler[c].stamp] \in Entry
        /\ [kind |-> "disconnected", from |-> handler[c].from, payload |-> bad,
             stamp |-> clock] \in Entry
    BY <1>0, <2>1, EntryType DEF Handler, TypeInv
  <2>3. \A e \in Entry : Append(output, e) \in Seq(Entry)
    BY AppendProperties DEF TypeInv
  <2>4. output' \in Seq(Entry)
    BY <1>8, <2>2, <2>3 DEF PrintConnected, PrintEvent, EndOfConnection, Printed, ConnectedTime, TypeInv
  <2>5. CASE PrintConnected(c)
    BY <2>1, <2>4, <2>5 DEF PrintConnected, TypeInv, Handler, clientVars, connVars
  <2>6. ASSUME NEW pc \in {"decode", "done"}, handler' = [handler EXCEPT ![c].pc = pc]
        PROVE  handler' \in [Client -> Handler]
    BY <2>1, <2>6 DEF TypeInv, Handler
  <2>7. CASE PrintEvent(c) \/ EndOfConnection(c)
    <3>1. handler' \in [Client -> Handler]
      BY <2>6, <2>7 DEF PrintEvent, EndOfConnection
    <3>2. QED
      BY <2>4, <2>7, <3>1 DEF PrintEvent, EndOfConnection, TypeInv, clientVars, connVars
  <2>8. QED  BY <1>8, <2>5, <2>7
<1>9. CASE UNCHANGED vars
  BY <1>9 DEF vars, clientVars, connVars, TypeInv
<1>10. QED
  BY <1>1, <1>2, <1>3, <1>4, <1>5, <1>6, <1>7, <1>8, <1>9 DEF Next, CopyStdinToTCP, HandleRequest

-----------------------------------------------------------------------------
(***************************************************************************)
(* One lemma per action.                                                   *)
(***************************************************************************)

\* A step of c that prints nothing.
Quiet(c) ==
  /\ output' = output /\ clock' = clock /\ Settled(c)
  /\ \A d \in Client \ {c} : Same(d)

\* After such a step, only what is said of c has to be shown.
LEMMA QuietStep ==
  ASSUME IInv, TypeInv', NEW c \in Client, Quiet(c),
         RestOK(c)', InPlace(c)', FirstOK(c)', StampsOK(c)'
  PROVE  IInv'
<1>1. clock <= clock'
  BY DEF IInv, TypeInv, Quiet
<1>2. \A d \in Client \ {c} : ClientInv(d)'
  BY <1>1, QuietKeeps DEF IInv, Quiet
<1>3. ClientInv(c)'
  BY QuietLines DEF IInv, ClientInv, Quiet
<1>4. QED  BY <1>2, <1>3 DEF IInv, Quiet

\* A step of c that prints a line, about c or about nobody.
LEMMA PrintStep ==
  ASSUME IInv, TypeInv', NEW c \in Client, clock' = clock, \A d \in Client \ {c} : Same(d),
         NEW e \in Entry, Prints(e), e.from \in {c, NoName}, e.stamp <= clock,
         ClientInv(c)'
  PROVE  IInv'
<1>1. PICK n \in Nat : OneMore(n, e)
  BY PrintsOne DEF IInv
<1>2. \A i \in DOMAIN output' : output'[i].stamp <= clock'
  BY <1>1 DEF OneMore, IInv
<1>3. \A d \in Client \ {c} : e.from # d
  BY NameAssumption
<1>4. \A d \in Client \ {c} : ClientInv(d)'
  BY <1>3, OtherKeeps DEF IInv
<1>5. QED  BY <1>2, <1>4 DEF IInv

\* While nothing is printed and the handler stays, so does what it has to print.
LEMMA HandlerStays ==
  ASSUME IInv, NEW c \in Client, Quiet(c), handler' = handler
  PROVE  FirstOK(c)' /\ StampsOK(c)'
BY DEF IInv, ClientInv, FirstOK, StampsOK, Quiet

\* So does dialing.
LEMMA DialKeeps ==
  ASSUME IInv, TypeInv', NEW c \in Client, Dial(c)
  PROVE  IInv'
<1>1. Quiet(c) /\ handler' = handler /\ left' = left /\ pipe' = pipe
  BY DEF Dial, Quiet, Settled, Gone, Same, IInv, TypeInv
<1>2. /\ wire[c] = "none" /\ wire'[c] \in {"none", "open"}
      /\ client'[c] \in {"send", "failed"} /\ (client'[c] = "send" => wire'[c] = "open")
  BY DEF Dial, IInv, TypeInv, ClientInv, RestOK
<1>3. RestOK(c)'
  BY <1>1, <1>2 DEF IInv, ClientInv, RestOK, Read
<1>4. InPlace(c)'
  BY <1>1, <1>2, QuietLines DEF IInv, ClientInv, InPlace, Pending, Read, Quiet
<1>5. QED  BY <1>1, <1>3, <1>4, HandlerStays, QuietStep

\* The line that c reads, and what is left after it.
ReadsLine(c) ==
  /\ Read(c) \in Nat /\ Read(c)' = Read(c) + 1
  /\ Read(c) + 1 \in DOMAIN Input[c]
  /\ Input[c][Read(c) + 1] = Head(left[c])
  /\ Len(left'[c]) <= Len(Input[c])
  /\ \A k \in DOMAIN left'[c] : left'[c][k] = Input[c][Read(c)' + k]

\* Reading a line is reading the next one of the input.
LEMMA NextLine ==
  ASSUME TypeInv, NEW c \in Client, RestOK(c), left[c] # <<>>, left' = [left EXCEPT ![c] = Tail(@)]
  PROVE  ReadsLine(c)
<1>1. PICK n \in Nat : n = Len(Input[c]) /\ DOMAIN Input[c] = 1 .. n
  BY InputLines, LenProperties
<1>2. PICK m \in Nat \ {0} : m = Len(left[c]) /\ DOMAIN left[c] = 1 .. m
  BY Parts DEF TypeInv
<1>3. left'[c] = Tail(left[c])
  BY DEF TypeInv
<1>4. /\ Head(left[c]) = left[c][1]
      /\ Len(left'[c]) = m - 1 /\ DOMAIN left'[c] = 1 .. m - 1
      /\ \A i \in 1 .. m - 1 : left'[c][i] = left[c][i + 1]
  BY <1>2, <1>3, Parts DEF TypeInv
<1>5. m <= n /\ \A k \in 1 .. m : left[c][k] = Input[c][n - m + k]
  BY <1>1, <1>2 DEF RestOK, Read
<1>6. Read(c) = n - m /\ Read(c)' = n - (m - 1)
  BY <1>1, <1>2, <1>4 DEF Read
<1>7. Input[c][n - m + 1] = Head(left[c])
  BY <1>4, <1>5
<1>8. \A k \in 1 .. m - 1 : left'[c][k] = Input[c][n - (m - 1) + k]
  <2>1. ASSUME NEW k \in 1 .. m - 1  PROVE left'[c][k] = Input[c][n - (m - 1) + k]
    <3>1. k + 1 \in 1 .. m /\ n - m + (k + 1) = n - (m - 1) + k
      OBVIOUS
    <3>2. QED  BY <1>4, <1>5, <3>1
  <2>2. QED  BY <2>1
<1>9. n - m \in Nat /\ n - (m - 1) = n - m + 1 /\ n - m + 1 \in 1 .. n /\ m - 1 <= n
  BY <1>5
<1>10. QED  BY <1>1, <1>4, <1>6, <1>7, <1>8, <1>9 DEF ReadsLine

\* Skipping a line that is no event.
LEMMA SkipLineKeeps ==
  ASSUME IInv, TypeInv', NEW c \in Client, SkipLine(c)
  PROVE  IInv'
<1>1. /\ Quiet(c) /\ handler' = handler /\ wire' = wire /\ pipe' = pipe /\ client' = client
      /\ left' = [left EXCEPT ![c] = Tail(@)]
  BY DEF SkipLine, Quiet, Settled, Gone, Same, IInv, TypeInv, connVars
<1>2. client[c] = "send" /\ left[c] # <<>> /\ Head(left[c]) = bad
  BY DEF SkipLine
<1>3. ReadsLine(c) /\ RestOK(c) /\ InPlace(c)
  BY <1>1, <1>2, NextLine DEF IInv, ClientInv
<1>4. RestOK(c)'
  BY <1>1, <1>2, <1>3 DEF RestOK, ReadsLine
<1>5. Asked(c, Read(c)') = Asked(c, Read(c))
  <2>1. PICK r \in Nat : r = Read(c)
    BY <1>3 DEF ReadsLine
  <2>2. Read(c)' = r + 1 /\ Input[c][r + 1] = bad
    BY <1>2, <1>3, <2>1 DEF ReadsLine
  <2>3. Asked(c, r) \in Nat /\ Asked(c, r + 1) = Asked(c, r)
    BY <2>2, AskedNext DEF IsEvent
  <2>4. QED  BY <2>1, <2>2, <2>3
<1>6. InPlace(c)'
  BY <1>1, <1>3, <1>5, QuietLines DEF InPlace, Pending, Quiet
<1>7. QED  BY <1>1, <1>4, <1>6, HandlerStays, QuietStep

\* Sending a line.
LEMMA SendLineKeeps ==
  ASSUME IInv, TypeInv', NEW c \in Client, SendLine(c)
  PROVE  IInv'
<1>1. /\ Quiet(c) /\ handler' = handler /\ wire' = wire
      /\ left' = [left EXCEPT ![c] = Tail(@)]
  BY DEF SendLine, Quiet, Settled, Gone, Same, IInv, TypeInv
<1>2. client[c] = "send" /\ left[c] # <<>> /\ IsEvent(Head(left[c]))
  BY DEF SendLine
<1>3. ReadsLine(c) /\ RestOK(c) /\ InPlace(c)
  BY <1>1, <1>2, NextLine DEF IInv, ClientInv
<1>4. client'[c] \in {"send", "failed"}
  BY <1>2 DEF SendLine, IInv, TypeInv
<1>5. RestOK(c)'
  BY <1>1, <1>2, <1>3, <1>4 DEF RestOK, ReadsLine
<1>6. CASE wire[c] = "broken"
  <2>1. pipe'[c] = pipe[c]
    BY <1>6 DEF SendLine, IInv, TypeInv
  <2>2. InPlace(c)'
    BY <1>1, <1>3, <1>6, <2>1, QuietLines DEF InPlace, Pending, Quiet
  <2>3. QED  BY <1>1, <1>5, <2>2, HandlerStays, QuietStep
<1>7. CASE wire[c] = "open"
  <2>1. PICK line \in Line : line = Head(left[c])
    BY <1>2, Parts DEF IInv, TypeInv
  <2>2. pipe'[c] = Append(pipe[c], line)
    BY <1>7, <2>1 DEF SendLine, IInv, TypeInv
  <2>3. PICK m \in Nat : m = Len(pipe[c]) /\ DOMAIN pipe[c] = 1 .. m
    BY LenProperties DEF IInv, TypeInv
  <2>4. /\ Len(pipe'[c]) = m + 1 /\ DOMAIN pipe'[c] = 1 .. m + 1
        /\ pipe'[c][m + 1] = line
        /\ \A k \in 1 .. m : pipe'[c][k] = pipe[c][k]
    <3>1. pipe[c] \in Seq(Line)
      BY DEF IInv, TypeInv
    <3>2. /\ Append(pipe[c], line) \in Seq(Line)
          /\ Len(Append(pipe[c], line)) = m + 1
          /\ Append(pipe[c], line)[m + 1] = line
          /\ \A k \in 1 .. m : Append(pipe[c], line)[k] = pipe[c][k]
      BY <2>3, <3>1, AppendProperties
    <3>3. DOMAIN Append(pipe[c], line) = 1 .. m + 1
      BY <3>2, LenProperties
    <3>4. QED  BY <2>2, <3>2, <3>3
  <2>5. PICK logged \in Nat : logged = Logged(c, Len(output))
    BY LoggedType, LenProperties DEF IInv, TypeInv
  <2>6. PICK held \in {0, 1} : held = Pending(c)
    BY DEF Pending
  <2>7. logged + held + m = Asked(c, Read(c))
    BY <1>3, <1>7, <2>3, <2>5, <2>6 DEF InPlace
  <2>8. Asked(c, Read(c) + 1) = logged + held + (m + 1)
    <3>1. PICK r \in Nat : r = Read(c)
      BY <1>3 DEF ReadsLine
    <3>2. IsEvent(Input[c][r + 1])
      BY <1>2, <1>3, <3>1 DEF ReadsLine
    <3>3. Asked(c, r + 1) = Asked(c, r) + 1
      BY <3>2, AskedNext
    <3>4. QED  BY <2>7, <3>1, <3>3
  <2>9. IsEventNo(logged + held + (m + 1), c, line)
    BY <1>2, <1>3, <2>1, <2>8 DEF ReadsLine, IsEventNo
  <2>10. \A k \in 1 .. m + 1 : IsEventNo(logged + held + k, c, pipe'[c][k])
    <3>1. ASSUME NEW k \in 1 .. m  PROVE IsEventNo(logged + held + k, c, pipe'[c][k])
      BY <1>3, <2>3, <2>4, <2>5, <2>6 DEF InPlace
    <3>2. \A k \in 1 .. m + 1 : k \in 1 .. m \/ k = m + 1
      OBVIOUS
    <3>3. QED  BY <2>4, <2>9, <3>1, <3>2
  <2>11. Logged(c, Len(output))' = logged /\ Pending(c)' = held /\ handler'[c].payload = handler[c].payload
    BY <1>1, <2>5, <2>6, QuietLines DEF Pending, Quiet
  <2>12. held = 1 => IsEventNo(logged + 1, c, handler[c].payload)
    BY <1>3, <2>5, <2>6 DEF InPlace
  <2>13. Read(c)' = Read(c) + 1
    BY <1>3 DEF ReadsLine
  <2>14. InPlace(c)'
    BY <2>4, <2>8, <2>10, <2>11, <2>12, <2>13 DEF InPlace
  <2>15. QED  BY <1>1, <1>5, <2>14, HandlerStays, QuietStep
<1>8. wire[c] \in {"open", "broken"}
  BY <1>2, <1>3 DEF RestOK
<1>9. QED  BY <1>6, <1>7, <1>8

\* The end of a client, at the end of its input or before.
LEMMA EndClientKeeps ==
  ASSUME IInv, TypeInv', NEW c \in Client, NEW how \in {"ended", "killed"}, EndClient(c, how)
  PROVE  IInv'
<1>1. Quiet(c) /\ handler' = handler /\ left' = left /\ pipe' = pipe
  BY DEF EndClient, Quiet, Settled, Gone, Same, IInv, TypeInv
<1>2. /\ client'[c] = how /\ wire'[c] \in {"none", "broken", "closed"}
      /\ wire'[c] = "broken" <=> wire[c] = "broken"
  BY DEF EndClient, IInv, TypeInv
<1>3. RestOK(c)'
  BY <1>1, <1>2 DEF IInv, ClientInv, RestOK, Read
<1>4. InPlace(c)'
  BY <1>1, <1>2, QuietLines DEF IInv, ClientInv, InPlace, Pending, Read, Quiet
<1>5. QED  BY <1>1, <1>3, <1>4, HandlerStays, QuietStep

\* A connection that breaks loses its last events, and nothing is counted
\* any more.
LEMMA BreakKeeps ==
  ASSUME IInv, TypeInv', NEW c \in Client, Break(c)
  PROVE  IInv'
<1>1. Quiet(c) /\ handler' = handler /\ left' = left /\ client' = client
  BY DEF Break, Quiet, Settled, Gone, Same, IInv, TypeInv, clientVars
<1>2. wire[c] \in {"open", "closed"} /\ wire'[c] = "broken"
  BY DEF Break, IInv, TypeInv
<1>3. PICK k \in 0 .. Len(pipe[c]) : pipe'[c] = SubSeq(pipe[c], 1, k)
  BY DEF Break, IInv, TypeInv
<1>4. pipe[c] \in Seq(Line)
  BY DEF IInv, TypeInv
<1>5. pipe'[c] \in Seq(Line) /\ Len(pipe'[c]) = k /\ \A i \in 1 .. k : pipe'[c][i] = pipe[c][i]
  BY <1>3, <1>4, Prefix
<1>6. \A i \in DOMAIN pipe'[c] : i \in DOMAIN pipe[c] /\ pipe'[c][i] = pipe[c][i]
  <2>1. DOMAIN pipe'[c] = 1 .. k /\ DOMAIN pipe[c] = 1 .. Len(pipe[c]) /\ Len(pipe[c]) \in Nat
    BY <1>4, <1>5, LenProperties
  <2>2. QED  BY <1>5, <2>1
<1>7. RestOK(c)'
  BY <1>1, <1>2 DEF IInv, ClientInv, RestOK, Read
<1>8. InPlace(c)'
  BY <1>1, <1>2, <1>6, QuietLines DEF IInv, ClientInv, InPlace, Pending, Quiet
<1>9. QED  BY <1>1, <1>7, <1>8, HandlerStays, QuietStep

\* Accepting the connection.
LEMMA AcceptKeeps ==
  ASSUME IInv, TypeInv', NEW c \in Client, Accept(c)
  PROVE  IInv'
<1>1. Quiet(c) /\ left' = left /\ client' = client /\ wire' = wire /\ pipe' = pipe
  BY DEF Accept, Quiet, Settled, Gone, Same, IInv, TypeInv, clientVars, connVars
<1>2. PICK h \in Handler : h = handler[c] /\ h.pc = "none"
  BY DEF Accept, IInv, TypeInv
<1>3. /\ handler'[c].pc = "decode" /\ handler'[c].isFirst = h.isFirst /\ handler'[c].from = h.from
      /\ handler'[c].payload = h.payload /\ handler'[c].since = clock /\ handler'[c].stamp = h.stamp
  BY <1>2 DEF Accept, IInv, TypeInv, Handler
<1>4. RestOK(c)'
  BY <1>1 DEF IInv, ClientInv, RestOK, Read
<1>5. InPlace(c)'
  BY <1>1, <1>2, <1>3, QuietLines DEF IInv, ClientInv, InPlace, Pending, Read, Quiet
<1>6. FirstOK(c)'
  BY <1>1, <1>2, <1>3 DEF IInv, ClientInv, FirstOK, Quiet
<1>7. StampsOK(c)'
  BY <1>1, <1>2, <1>3 DEF IInv, TypeInv, ClientInv, StampsOK, Quiet
<1>8. QED  BY <1>1, <1>4, <1>5, <1>6, <1>7, QuietStep

\* Decoding moves an event from the connection to the handler, and the
\* present time is not before any that was printed.
LEMMA DecodeKeeps ==
  ASSUME IInv, TypeInv', NEW c \in Client, Decode(c)
  PROVE  IInv'
<1>1. Quiet(c) /\ left' = left /\ client' = client /\ wire' = wire
  BY DEF Decode, Quiet, Settled, Gone, Same, IInv, TypeInv, clientVars
<1>2. PICK h \in Handler : h = handler[c] /\ h.pc = "decode"
  BY DEF Decode, IInv, TypeInv
<1>3. /\ handler'[c].pc = IF h.isFirst THEN "connected" ELSE "print"
      /\ handler'[c].isFirst = h.isFirst /\ handler'[c].from = c
      /\ handler'[c].payload = Head(pipe[c]) /\ handler'[c].since = h.since /\ handler'[c].stamp = clock
  BY <1>2 DEF Decode, IInv, TypeInv, Handler
<1>4. PICK m \in Nat : m + 1 = Len(pipe[c])
  <2>1. Len(pipe[c]) \in Nat \ {0}
    BY Parts DEF Decode, IInv, TypeInv
  <2>2. Len(pipe[c]) - 1 \in Nat /\ (Len(pipe[c]) - 1) + 1 = Len(pipe[c])
    BY <2>1
  <2>3. QED  BY <2>2
<1>5. /\ DOMAIN pipe[c] = 1 .. m + 1
      /\ Head(pipe[c]) = pipe[c][1]
      /\ Len(pipe'[c]) = m /\ DOMAIN pipe'[c] = 1 .. m
      /\ \A k \in 1 .. m : pipe'[c][k] = pipe[c][k + 1]
  <2>1. pipe[c] \in Seq(Line) /\ pipe[c] # <<>> /\ pipe'[c] = Tail(pipe[c])
    BY DEF Decode, IInv, TypeInv
  <2>2. Len(pipe[c]) - 1 = m
    BY <1>4
  <2>3. QED  BY <1>4, <2>1, <2>2, Parts
<1>6. RestOK(c)'
  BY <1>1 DEF IInv, ClientInv, RestOK, Read
<1>7. InPlace(c)'
  <2>1. PICK logged \in Nat : logged = Logged(c, Len(output))
    BY LoggedType, LenProperties DEF IInv, TypeInv
  <2>2. Pending(c) = 0 /\ Pending(c)' = 1 /\ Logged(c, Len(output))' = logged
    BY <1>1, <1>2, <1>3, <2>1, QuietLines DEF Pending, Quiet
  <2>3. \A k \in 1 .. m + 1 : IsEventNo(logged + 0 + k, c, pipe[c][k])
    BY <1>5, <2>1, <2>2 DEF IInv, ClientInv, InPlace
  <2>4. IsEventNo(logged + 1, c, handler'[c].payload)
    BY <1>3, <1>5, <2>3
  <2>5. ASSUME NEW k \in 1 .. m  PROVE IsEventNo(logged + 1 + k, c, pipe'[c][k])
    <3>1. k + 1 \in 1 .. m + 1 /\ logged + 0 + (k + 1) = logged + 1 + k
      OBVIOUS
    <3>2. QED  BY <1>5, <2>3, <3>1
  <2>6. wire[c] # "broken" => logged + 0 + (m + 1) = Asked(c, Read(c))
    BY <1>4, <2>1, <2>2 DEF IInv, ClientInv, InPlace
  <2>7. wire[c] # "broken" => logged + 1 + m = Asked(c, Read(c))'
    <3>1. logged + 0 + (m + 1) = logged + 1 + m
      OBVIOUS
    <3>2. Asked(c, Read(c))' = Asked(c, Read(c))
      BY <1>1 DEF Read
    <3>3. QED  BY <2>6, <3>1, <3>2
  <2>8. QED  BY <1>1, <1>5, <2>2, <2>4, <2>5, <2>7 DEF InPlace
<1>8. FirstOK(c)'
  BY <1>1, <1>2, <1>3 DEF IInv, ClientInv, FirstOK, Quiet
<1>9. StampsOK(c)'
  <2>1. clock \in Nat /\ h.since <= clock /\ \A i \in DOMAIN output : output[i].stamp <= clock
    BY <1>2 DEF IInv, TypeInv, ClientInv, StampsOK
  <2>2. QED  BY <1>1, <1>3, <2>1 DEF StampsOK, Quiet
<1>10. QED  BY <1>1, <1>6, <1>7, <1>8, <1>9, QuietStep

\* Printing that c connected: its first line.
LEMMA PrintConnectedKeeps ==
  ASSUME IInv, TypeInv', NEW c \in Client, PrintConnected(c)
  PROVE  IInv'
<1>1. /\ clock' = clock /\ left' = left /\ client' = client /\ wire' = wire /\ pipe' = pipe
      /\ \A d \in Client \ {c} : Same(d)
  BY DEF PrintConnected, Same, IInv, TypeInv, clientVars, connVars
<1>0. Settled(c)
  BY <1>1 DEF Settled, Gone
<1>2. PICK h \in Handler : h = handler[c] /\ h.pc = "connected"
  BY DEF PrintConnected, IInv, TypeInv
<1>3. /\ handler'[c].pc = "print" /\ ~handler'[c].isFirst /\ handler'[c].from = h.from
      /\ handler'[c].payload = h.payload /\ handler'[c].since = h.since /\ handler'[c].stamp = h.stamp
  BY <1>2 DEF PrintConnected, IInv, TypeInv, Handler
<1>4. h.isFirst /\ h.from = c /\ h.since <= h.stamp /\ \A i \in DOMAIN output : output[i].from # c
  BY <1>2 DEF IInv, ClientInv, FirstOK, StampsOK
<1>5. PICK e \in Entry : /\ e.kind = "connected" /\ e.from = c /\ e.stamp = h.since
                         /\ output' = Append(output, e)
  <2>1. bad \in Line /\ h.since \in Nat
    BY DEF Line, Handler
  <2>2. [kind |-> "connected", from |-> handler[c].from, payload |-> bad, stamp |-> h.since] \in Entry
    BY <2>1, EntryType DEF IInv
  <2>3. QED  BY <1>2, <1>4, <2>2 DEF PrintConnected, Printed, ConnectedTime
<1>6. Prints(e)
  BY <1>5, AppendPrints DEF IInv
<1>7. PICK n \in Nat : OneMore(n, e)
  BY <1>6, PrintsOne DEF IInv
<1>8. LinesOK(c)' /\ TimesOK(c)'
  BY <1>0, <1>2, <1>4, <1>5, <1>6, OwnLine DEF IInv
<1>9. RestOK(c)'
  BY <1>1 DEF IInv, ClientInv, RestOK, Read
<1>10. Logged(c, Len(output))' = Logged(c, Len(output))
  BY <1>5, <1>6, <1>7, LoggedType DEF Prints, OneMore
<1>11. InPlace(c)'
  BY <1>1, <1>2, <1>3, <1>10 DEF IInv, ClientInv, InPlace, Pending, Read
<1>12. \A i \in DOMAIN output' : output'[i].from = c => output'[i] = e
  BY <1>4, <1>7 DEF OneMore
<1>13. n + 1 \in DOMAIN output' /\ output'[n + 1].from = c
  BY <1>5, <1>7 DEF OneMore
<1>14. FirstOK(c)'
  BY <1>3, <1>4, <1>5, <1>12, <1>13 DEF FirstOK
<1>15. StampsOK(c)'
  BY <1>1, <1>2, <1>3, <1>4, <1>5, <1>12 DEF IInv, ClientInv, StampsOK
<1>16. e.stamp <= clock
  BY <1>2, <1>5 DEF IInv, ClientInv, StampsOK
<1>17. QED  BY <1>1, <1>5, <1>6, <1>8, <1>9, <1>11, <1>14, <1>15, <1>16, PrintStep DEF ClientInv

\* Printing an event: it is the next one of c, and its time was taken after
\* those of the lines of c before it.
LEMMA PrintEventKeeps ==
  ASSUME IInv, TypeInv', NEW c \in Client, PrintEvent(c)
  PROVE  IInv'
<1>1. /\ clock' = clock /\ left' = left /\ client' = client /\ wire' = wire /\ pipe' = pipe
      /\ \A d \in Client \ {c} : Same(d)
  BY DEF PrintEvent, Same, IInv, TypeInv, clientVars, connVars
<1>0. Settled(c)
  BY <1>1 DEF Settled, Gone
<1>2. PICK h \in Handler : h = handler[c] /\ h.pc = "print"
  BY DEF PrintEvent, IInv, TypeInv
<1>3. /\ handler'[c].pc = "decode" /\ handler'[c].isFirst = h.isFirst /\ handler'[c].from = h.from
      /\ handler'[c].payload = h.payload /\ handler'[c].since = h.since /\ handler'[c].stamp = h.stamp
  BY <1>2 DEF PrintEvent, IInv, TypeInv, Handler
<1>4. /\ ~h.isFirst /\ h.from = c
      /\ \A i \in DOMAIN output : output[i].from = c =>
           output[i].stamp <= h.stamp /\ output[i].kind # "disconnected"
      /\ \E i \in DOMAIN output : output[i].from = c
  BY <1>2 DEF IInv, ClientInv, FirstOK, StampsOK
<1>5. PICK e \in Entry : /\ e.kind = "event" /\ e.from = c /\ e.stamp = h.stamp /\ e.payload = h.payload
                         /\ output' = Append(output, e)
  <2>1. h.payload \in Line /\ h.stamp \in Nat
    BY DEF Handler
  <2>2. [kind |-> "event", from |-> handler[c].from, payload |-> h.payload, stamp |-> h.stamp] \in Entry
    BY <2>1, EntryType DEF IInv
  <2>3. QED  BY <1>2, <1>4, <2>2 DEF PrintEvent, Printed
<1>6. Prints(e)
  BY <1>5, AppendPrints DEF IInv
<1>7. PICK n \in Nat : OneMore(n, e)
  BY <1>6, PrintsOne DEF IInv
<1>8. PICK logged \in Nat : logged = Logged(c, Len(output))
  BY <1>7, LoggedType DEF OneMore
<1>9. Pending(c) = 1 /\ Pending(c)' = 0 /\ Logged(c, Len(output))' = logged + 1
  BY <1>2, <1>3, <1>5, <1>6, <1>8 DEF Pending, Prints
<1>10. IsEventNo(logged + 1, c, e.payload)
  BY <1>2, <1>5, <1>8, <1>9 DEF IInv, ClientInv, InPlace
<1>11. LinesOK(c)' /\ TimesOK(c)'
  BY <1>0, <1>2, <1>4, <1>5, <1>6, <1>8, <1>10, OwnLine DEF IInv
<1>12. RestOK(c)'
  BY <1>1 DEF IInv, ClientInv, RestOK, Read
<1>13. InPlace(c)'
  <2>1. /\ \A k \in DOMAIN pipe[c] : IsEventNo(logged + 1 + k, c, pipe[c][k])
        /\ wire[c] # "broken" => logged + 1 + Len(pipe[c]) = Asked(c, Read(c))
    BY <1>8, <1>9 DEF IInv, ClientInv, InPlace
  <2>2. pipe[c] \in Seq(Line)
    BY DEF IInv, TypeInv
  <2>3. Len(pipe[c]) \in Nat /\ DOMAIN pipe[c] = 1 .. Len(pipe[c])
    BY <2>2, LenProperties
  <2>4. PICK after \in Nat : after = logged + 1
    OBVIOUS
  <2>5. /\ \A k \in DOMAIN pipe[c] : IsEventNo(after + 0 + k, c, pipe[c][k])
        /\ wire[c] # "broken" => after + 0 + Len(pipe[c]) = Asked(c, Read(c))
    <3>1. ASSUME NEW k \in Nat  PROVE after + 0 + k = logged + 1 + k
      BY <2>4
    <3>2. \A k \in DOMAIN pipe[c] : k \in Nat
      BY <2>3
    <3>3. QED  BY <2>1, <2>3, <3>1, <3>2
  <2>6. Logged(c, Len(output))' = after /\ Pending(c)' = 0
    BY <1>9, <2>4
  <2>7. Asked(c, Read(c))' = Asked(c, Read(c)) /\ pipe'[c] = pipe[c] /\ wire'[c] = wire[c]
    BY <1>1 DEF Read
  <2>8. QED  BY <2>5, <2>6, <2>7 DEF InPlace
<1>14. \A i \in DOMAIN output' : output'[i].from = c => output'[i].kind # "disconnected"
  BY <1>4, <1>5, <1>7 DEF OneMore
<1>15. \E i \in DOMAIN output' : output'[i].from = c
  BY <1>5, <1>7 DEF OneMore
<1>16. FirstOK(c)'
  BY <1>3, <1>4, <1>14, <1>15 DEF FirstOK
<1>17. StampsOK(c)'
  BY <1>1, <1>2, <1>3 DEF IInv, ClientInv, StampsOK
<1>18. e.stamp <= clock
  BY <1>2, <1>5 DEF IInv, ClientInv, StampsOK
<1>19. QED  BY <1>1, <1>5, <1>6, <1>11, <1>12, <1>13, <1>16, <1>17, <1>18, PrintStep DEF ClientInv

\* The end of the goroutine.  At io.EOF all events of c have been printed, and
\* the last line says that c is gone, unless nothing was heard of it.
LEMMA EndKeeps ==
  ASSUME IInv, TypeInv', NEW c \in Client, EndOfConnection(c)
  PROVE  IInv'
<1>1. /\ clock' = clock /\ left' = left /\ client' = client /\ wire' = wire /\ pipe' = pipe
      /\ \A d \in Client \ {c} : Same(d)
  BY DEF EndOfConnection, Same, IInv, TypeInv, clientVars, connVars
<1>0. Settled(c)
  BY <1>1 DEF Settled, Gone
<1>2. PICK h \in Handler : h = handler[c] /\ h.pc = "decode"
  BY DEF EndOfConnection, IInv, TypeInv
<1>3. /\ handler'[c].pc = "done" /\ handler'[c].isFirst = h.isFirst /\ handler'[c].from = h.from
      /\ handler'[c].payload = h.payload /\ handler'[c].since = h.since /\ handler'[c].stamp = h.stamp
  BY <1>2 DEF EndOfConnection, IInv, TypeInv, Handler
<1>4. RestOK(c)'
  BY <1>1 DEF IInv, ClientInv, RestOK, Read
<1>5. StampsOK(c)'
  BY <1>1, <1>2, <1>3 DEF IInv, ClientInv, StampsOK
<1>6. h.from = (IF h.isFirst THEN NoName ELSE c) /\ (h.isFirst <=> \A i \in DOMAIN output : output[i].from # c)
  BY <1>2 DEF IInv, ClientInv, FirstOK
<1>7. /\ Pending(c) = 0 /\ Pending(c)' = 0
      /\ Asked(c, Read(c))' = Asked(c, Read(c)) /\ pipe'[c] = pipe[c] /\ wire'[c] = wire[c]
  BY <1>1, <1>2, <1>3 DEF Pending, Read
<1>8. CASE output' = output
  <2>1. Quiet(c)
    BY <1>1, <1>8 DEF Quiet, Settled, Gone
  <2>2. InPlace(c)'
    BY <1>7, <1>8, QuietLines DEF IInv, ClientInv, InPlace
  <2>3. FirstOK(c)'
    BY <1>3, <1>6, <1>8 DEF FirstOK
  <2>4. QED  BY <1>4, <1>5, <2>1, <2>2, <2>3, QuietStep
<1>9. CASE wire[c] = "closed" /\ Printed("disconnected", handler[c].from, bad, clock)
  <2>1. PICK e \in Entry : /\ e.kind = "disconnected" /\ e.from = h.from /\ e.stamp = clock
                           /\ output' = Append(output, e)
    <3>1. bad \in Line /\ clock \in Nat
      BY DEF Line, IInv, TypeInv
    <3>2. [kind |-> "disconnected", from |-> handler[c].from, payload |-> bad, stamp |-> clock] \in Entry
      BY <3>1, EntryType DEF IInv
    <3>3. QED  BY <1>2, <1>9, <3>2 DEF Printed
  <2>2. Prints(e)
    BY <2>1, AppendPrints DEF IInv
  <2>3. PICK n \in Nat : OneMore(n, e)
    BY <2>2, PrintsOne DEF IInv
  <2>4. Logged(c, Len(output))' = Logged(c, Len(output))
    BY <2>1, <2>2, <2>3, LoggedType DEF Prints, OneMore
  <2>5. InPlace(c)'
    BY <1>7, <2>4 DEF IInv, ClientInv, InPlace
  <2>6. LinesOK(c)' /\ TimesOK(c)'
    <3>1. CASE h.isFirst
      <4>1. e.from # c
        BY <1>6, <2>1, <3>1, NameAssumption
      <4>2. QED  BY <1>0, <2>2, <4>1, OtherLines DEF IInv, ClientInv
    <3>2. CASE ~h.isFirst
      <4>1. Logged(c, Len(output)) = Sent(c)
        <5>1. pipe[c] = <<>>
          BY <1>9 DEF EndOfConnection, AtEnd
        <5>2. Len(pipe[c]) = 0
          BY <5>1
        <5>3. PICK logged \in Nat : logged = Logged(c, Len(output))
          BY <2>3, LoggedType DEF OneMore
        <5>4. logged + 0 + 0 = Asked(c, Read(c))
          BY <1>7, <1>9, <5>2, <5>3 DEF IInv, ClientInv, InPlace
        <5>5. Sent(c) = Asked(c, Read(c))
          BY DEF Read, Sent
        <5>6. logged + 0 + 0 = logged
          OBVIOUS
        <5>7. QED  BY <5>3, <5>4, <5>5, <5>6
      <4>5. Gone(c)
        BY <1>9 DEF IInv, ClientInv, RestOK, Gone
      <4>2. \A i \in DOMAIN output : output[i].from = c => output[i].stamp <= e.stamp
        BY <2>1 DEF IInv
      <4>3. e.from = c /\ ~handler[c].isFirst
        BY <1>2, <1>6, <2>1, <3>2
      <4>4. QED  BY <1>0, <1>2, <2>1, <2>2, <4>1, <4>2, <4>3, <4>5, OwnLine DEF IInv
    <3>3. QED  BY <3>1, <3>2 DEF Handler
  <2>7. (\A i \in DOMAIN output' : output'[i].from # c) <=> h.isFirst
    <3>1. e.from = c <=> ~h.isFirst
      BY <1>6, <2>1, NameAssumption
    <3>2. QED  BY <1>6, <2>3, <3>1 DEF OneMore
  <2>8. FirstOK(c)'
    BY <1>3, <1>6, <2>7 DEF FirstOK
  <2>9. e.from \in {c, NoName} /\ e.stamp <= clock
    BY <1>6, <2>1 DEF IInv, TypeInv
  <2>10. QED  BY <1>1, <1>4, <1>5, <2>2, <2>5, <2>6, <2>8, <2>9, PrintStep DEF ClientInv
<1>10. QED  BY <1>8, <1>9 DEF EndOfConnection, IsEOF

-----------------------------------------------------------------------------
\* Nothing is read, sent or printed at the start.
LEMMA InitIInv == Init => IInv
<1> SUFFICES ASSUME Init  PROVE IInv
  OBVIOUS
<1>1. TypeInv
  BY TypeInit
<1>2. DOMAIN output = {} /\ Len(output) = 0
  BY DEF Init
<1>3. ASSUME NEW c \in Client  PROVE ClientInv(c)
  <2>1. PICK n \in Nat : n = Len(Input[c]) /\ Len(left[c]) = n /\ left[c] = Input[c]
    BY InputLines, LenProperties DEF Init
  <2>2. Read(c) = 0 /\ \A k \in DOMAIN left[c] : k \in Nat
    BY <2>1, InputLines, LenProperties DEF Read
  <2>3. RestOK(c)
    BY <2>1, <2>2 DEF RestOK, Init
  <2>4. Pending(c) = 0 /\ pipe[c] = <<>> /\ Len(pipe[c]) = 0 /\ DOMAIN pipe[c] = {}
    BY DEF Init, Pending
  <2>5. InPlace(c)
    BY <1>2, <2>2, <2>4, CountZero DEF InPlace
  <2>6. FirstOK(c) /\ StampsOK(c)
    BY <1>2 DEF Init, FirstOK, StampsOK
  <2>7. LinesOK(c) /\ TimesOK(c)
    BY <1>2 DEF LinesOK, TimesOK
  <2>8. QED  BY <2>3, <2>5, <2>6, <2>7 DEF ClientInv
<1>4. QED  BY <1>1, <1>2, <1>3 DEF IInv

\* Every step keeps the invariant.
LEMMA NextIInv == IInv /\ [Next]_vars => IInv'
<1> SUFFICES ASSUME IInv, [Next]_vars  PROVE IInv'
  OBVIOUS
<1>0. TypeInv'
  BY TypeStep DEF IInv
<1>1. CASE Tick \/ UNCHANGED vars
  <2>1. output' = output /\ clock <= clock' /\ clock \in Nat /\ clock' \in Nat
    BY <1>1, <1>0 DEF Tick, vars, IInv, TypeInv
  <2>2. \A d \in Client : Same(d)
    BY <1>1 DEF Tick, vars, clientVars, connVars, Same
  <2>3. \A d \in Client : ClientInv(d)'
    BY <1>0, <2>1, <2>2, QuietKeeps DEF IInv
  <2>4. \A i \in DOMAIN output' : output'[i].stamp <= clock'
    <3>1. ASSUME NEW i \in DOMAIN output  PROVE output[i].stamp \in Nat
      <4>1. output[i] \in Entry
        BY ElementOfSeq, LenProperties DEF IInv, TypeInv
      <4>2. QED  BY <4>1 DEF Entry
    <3>2. QED  BY <2>1, <3>1 DEF IInv
  <2>5. QED  BY <1>0, <2>3, <2>4 DEF IInv
<1>2. ASSUME NEW c \in Client, CopyStdinToTCP(c)  PROVE IInv'
  BY <1>0, <1>2, DialKeeps, SkipLineKeeps, SendLineKeeps, EndClientKeeps DEF CopyStdinToTCP, Close
<1>3. ASSUME NEW c \in Client, Kill(c) \/ Break(c)  PROVE IInv'
  BY <1>0, <1>3, EndClientKeeps, BreakKeeps DEF Kill
<1>4. ASSUME NEW c \in Client, HandleRequest(c)  PROVE IInv'
  BY <1>0, <1>4, AcceptKeeps, DecodeKeeps, PrintConnectedKeeps, PrintEventKeeps, EndKeeps
     DEF HandleRequest
<1>5. QED  BY <1>1, <1>2, <1>3, <1>4 DEF Next

\* However many clients there are, whatever they send and however the
\* goroutines interleave: the lines of one client are that it connected, its
\* events in order and without a gap, and, after the last event that it sent,
\* that it disconnected, at the end of its input or before
\* (handleRequest, cmd/mp0/server/root.go:84-129).
THEOREM LinesInOrderHolds == Spec => []LinesInOrder
<1>1. IInv => LinesInOrder
  BY DEF IInv, ClientInv, LinesOK, LinesInOrder
<1>2. QED  BY <1>1, InitIInv, NextIInv, PTL DEF Spec

\* The times on the lines of one client never go back, for any number of
\* clients that print in between (cmd/mp0/server/root.go:93-109).
THEOREM TimesInOrderHolds == Spec => []TimesInOrder
<1>1. IInv => TimesInOrder
  <2> SUFFICES ASSUME IInv, NEW i \in DOMAIN output, NEW j \in DOMAIN output,
                      i < j, output[i].from = output[j].from, output[i].from # NoName
               PROVE  output[i].stamp <= output[j].stamp
    BY DEF TimesInOrder
  <2>1. output[i] \in Entry
    BY ElementOfSeq, LenProperties DEF IInv, TypeInv
  <2>2. output[i].from \in Client
    BY <2>1 DEF Entry, Name
  <2>3. QED  BY <2>2 DEF IInv, ClientInv, TimesOK
<1>2. QED  BY <1>1, InitIInv, NextIInv, PTL DEF Spec
=============================================================================
