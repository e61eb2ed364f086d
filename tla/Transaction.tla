---------------------------- MODULE Transaction -----------------------------
(***************************************************************************)
(* The accounts of a node (lib/mp1/transaction): a map b from accounts to  *)
(* balances, and what Deposit and Transfer make of it.  A balance is a Go  *)
(* int, which wraps around.                                                *)
(***************************************************************************)
EXTENDS Integers, Functions

CONSTANT MaxInt  \* the largest Go int (2^63 - 1 in the code)

ASSUME MaxIntAssumption == MaxInt \in Nat

GoInt == -MaxInt - 1 .. MaxInt

\* How many ints there are: 2 to the width.
IntCount == 2 * (MaxInt + 1)

\* Seeded fault: an int that does not wrap.
Unbounded(x) == x

\* The value of an int expression.
Wrap(x) == ((x + MaxInt + 1) % IntCount) - MaxInt - 1

\* The map after an assignment to one account, which may be a new one.
Assigned(b, a, v) == [x \in DOMAIN b \cup {a} |-> IF x = a THEN v ELSE b[x]]

\* Seeded fault: an existing balance is overwritten.
CreditedAsNew(b, a, amount) == amount

\* prev + amount, or amount for an account that is not in the map.
Credited(b, a, amount) == IF a \in DOMAIN b THEN Wrap(b[a] + amount) ELSE amount

NoAccounts == [a \in {} |-> 0]

\* Transaction.Deposit: whether it returns no error, and the map then.
Deposits(amount) == amount >= 0
Deposit(b, a, amount) == Assigned(b, a, Credited(b, a, amount))

\* Seeded fault: the destination is credited whatever the source has.
AnyFunds(b, from, amount) == TRUE

\* The source has enough funds; the difference is an int.
EnoughFunds(b, from, amount) == Wrap(b[from] - amount) >= 0

\* Transaction.Transfer: whether it returns no error, and the map then.
\* Both balances are read first, so a transfer to the same account overwrites
\* the debit.
Transfers(b, from, amount) ==
  /\ amount >= 0
  /\ from \in DOMAIN b
  /\ EnoughFunds(b, from, amount)

Transfer(b, from, to, amount) ==
  Assigned(Assigned(b, from, Wrap(b[from] - amount)), to, Credited(b, to, amount))

Total(b) == SumFunction(b)
=============================================================================
