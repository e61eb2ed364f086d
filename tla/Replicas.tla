------------------------------ MODULE Replicas ------------------------------
(***************************************************************************)
(* The nodes of MP1 as a whole: each reads events from its standard input  *)
(* (TransactionEventListenerPipeline), multicasts them (RootCMDMain), and  *)
(* applies what the total order delivers to its accounts (Processor).      *)
(*                                                                         *)
(* What TotalOrding does between the multicast of an event and its handler *)
(* is left open here: a node handles a message that was multicast at most  *)
(* once, and in any order, for it may be overtaken there.  That it handles *)
(* it at all is taken from there only while no node has crashed; after a   *)
(* crash, a message that was not agreed on may block those behind it.      *)
(***************************************************************************)
EXTENDS Transaction, SequencesExt

CONSTANTS
  Node,
  Inputs,    \* what a node may read: sequences of lines, each its fields
  Atoi,      \* the integers among the fields, with their values
  Cap,       \* how many events the channel of the pipeline holds
  MayCrash   \* nodes that may crash (bound of the environment)

ASSUME InputsAssumption == \A lines \in Inputs : lines \in Seq(Range(lines))
ASSUME AtoiAssumption == \A s \in DOMAIN Atoi : Atoi[s] \in GoInt
ASSUME CapAssumption == Cap \in Nat \ {0}

VARIABLES
  up,        \* nodes that have not crashed
  input,     \* input[n]: the lines n is given
  read,      \* read[n]: how many of them the pipeline has read
  out,       \* out[n]: the channel of the pipeline
  asked,     \* messages that were multicast
  applied,   \* applied[n]: what n has delivered, in its order
  succeeded, \* succeeded[n]: those whose handler returned no error
  balances   \* balances[n]: Transaction.balances of n

inputVars == <<input, read, out>>
deliveryVars == <<applied, succeeded, balances>>
vars == <<up, inputVars, asked, deliveryVars>>

\* The message of the i-th line of n; different lines are different messages.
Msg(n, i) == [from |-> n, line |-> i, fields |-> input[n][i]]

\* EncodeTransactionsMsg
IsDeposit(f) == Len(f) = 3 /\ f[1] = "DEPOSIT" /\ f[3] \in DOMAIN Atoi
IsTransfer(f) == Len(f) = 5 /\ f[1] = "TRANSFER" /\ f[5] \in DOMAIN Atoi
IsEvent(f) == IsDeposit(f) \/ IsTransfer(f)

DepositOf(f) == [account |-> f[2], amount |-> Atoi[f[3]]]
TransferOf(f) == [from |-> f[2], to |-> f[4], amount |-> Atoi[f[5]]]
-----------------------------------------------------------------------------
Init ==
  /\ up = Node
  /\ input \in [Node -> Inputs]
  /\ read = [n \in Node |-> 0]
  /\ out = [n \in Node |-> <<>>]
  /\ asked = {}
  /\ applied = [n \in Node |-> <<>>]
  /\ succeeded = [n \in Node |-> {}]
  /\ balances = [n \in Node |-> NoAccounts]

\* Seeded fault: a line that is no event ends the pipeline.
StopAtError(n, i) == Len(input[n])

\* The pipeline goes on with the next line.
Continue(n, i) == i

\* One iteration of the pipeline: the channel blocks when it is full, a line
\* that is no event is skipped.
ReadLine(n) ==
  /\ n \in up
  /\ read[n] < Len(input[n])
  /\ LET i == read[n] + 1
     IN  IF IsEvent(input[n][i])
           THEN /\ Len(out[n]) < Cap
                /\ out' = [out EXCEPT ![n] = Append(@, Msg(n, i))]
                /\ read' = [read EXCEPT ![n] = i]
           ELSE /\ read' = [read EXCEPT ![n] = Continue(n, i)]
                /\ UNCHANGED out
  /\ UNCHANGED <<up, input, asked, deliveryVars>>

\* One iteration of the loop of RootCMDMain.
MulticastEvent(n) ==
  /\ n \in up
  /\ out[n] # <<>>
  /\ out' = [out EXCEPT ![n] = Tail(@)]
  /\ asked' = asked \cup {Head(out[n])}
  /\ UNCHANGED <<up, input, read, deliveryVars>>

\* Whether the handler of m at n returns no error, and what it does then
\* (processDeposit, processTransfer).
Succeeds(b, f) ==
  IF IsDeposit(f) THEN Deposits(DepositOf(f).amount)
                  ELSE Transfers(b, TransferOf(f).from, TransferOf(f).amount)

Result(b, f) ==
  IF IsDeposit(f) THEN Deposit(b, DepositOf(f).account, DepositOf(f).amount)
                  ELSE Transfer(b, TransferOf(f).from, TransferOf(f).to, TransferOf(f).amount)

Process(n, m) ==
  /\ applied' = [applied EXCEPT ![n] = Append(@, m)]
  /\ IF Succeeds(balances[n], m.fields)
       THEN /\ balances' = [balances EXCEPT ![n] = Result(@, m.fields)]
            /\ succeeded' = [succeeded EXCEPT ![n] = @ \cup {m}]
       ELSE UNCHANGED <<balances, succeeded>>

\* The total order hands m over at n.
Deliver(n, m) ==
  /\ n \in up
  /\ m \in asked \ Range(applied[n])
  /\ Process(n, m)
  /\ UNCHANGED <<up, inputVars, asked>>

Crash(n) ==
  /\ n \in MayCrash \cap up
  /\ up' = up \ {n}
  /\ UNCHANGED <<inputVars, asked, deliveryVars>>

DeliverAny(n) == \E m \in asked : Deliver(n, m)

Next ==
  \E n \in Node : ReadLine(n) \/ MulticastEvent(n) \/ DeliverAny(n) \/ Crash(n)

Spec == Init /\ [][Next]_vars

\* Both goroutines of the input are scheduled.  The total order hands over
\* what was multicast as long as nobody crashes (EverythingDelivered of
\* TotalOrding); nothing is assumed of it afterwards.
FairSpec ==
  /\ Spec
  /\ \A n \in Node : /\ WF_vars(ReadLine(n)) /\ WF_vars(MulticastEvent(n))
                     /\ WF_vars(up = Node /\ DeliverAny(n))
-----------------------------------------------------------------------------
Message == [from : Node, line : Nat, fields : UNION {Range(lines) : lines \in Inputs}]

TypeOK ==
  /\ up \subseteq Node
  /\ \A n \in Node : read[n] \in 0 .. Len(input[n]) /\ Len(out[n]) <= Cap
  /\ out \in [Node -> Seq(Message)]
  /\ asked \subseteq Message /\ \A m \in asked : IsEvent(m.fields)
  /\ applied \in [Node -> Seq(Message)]
  /\ \A n \in Node : succeeded[n] \subseteq Range(applied[n])
  /\ \A n \in Node : Range(balances[n]) \subseteq GoInt

\* The money that the successful events of a node bring in: deposits, and
\* transfers from an account to itself, which create their amount.
Money(f) == IF IsDeposit(f) THEN DepositOf(f).amount
            ELSE IF TransferOf(f).from = TransferOf(f).to THEN TransferOf(f).amount ELSE 0
Income(n) == SumFunction([m \in succeeded[n] |-> Money(m.fields)])

\* The balances of a replica add up to what came in, in whichever order it
\* applies the events and whichever of them it refuses, modulo the width of
\* an int; while the money fits in an int they do exactly, and nobody is in
\* debt (transaction.go:30-82).
MoneyAccounted ==
  \A n \in Node :
    /\ (Total(balances[n]) - Income(n)) % IntCount = 0
    /\ Income(n) <= MaxInt =>
         Total(balances[n]) = Income(n) /\ \A a \in DOMAIN balances[n] : balances[n][a] >= 0

\* Refusals are all that order can change: replicas whose successful events
\* are the same have the same accounts and balances, in whatever orders they
\* applied them (processor.go:25-61, transaction.go:30-82).
SameEventsSameBalances ==
  \A n, d \in Node : succeeded[n] = succeeded[d] => balances[n] = balances[d]

\* While no node crashes, every event in the input of a node is applied by
\* every node, whatever lines surround it (event_listener.go:20-38,
\* types.go:67-120, cmd/mp1/root.go:86-94).
EveryEventApplied ==
  [](up = Node) =>
    \A n, d \in Node :
      <>(\A i \in DOMAIN input[n] : IsEvent(input[n][i]) => Msg(n, i) \in Range(applied[d]))
=============================================================================
