SPECIFICATION FairSpec
CONSTANTS
  MaxInt = 7
  Node <- Nodes
  Inputs <- SomeInputs
  Atoi <- Ints
  Cap = 1
  MayCrash <- Crashing
INVARIANTS TypeOK MoneyAccounted SameEventsSameBalances
PROPERTIES EveryEventApplied
CHECK_DEADLOCK FALSE
