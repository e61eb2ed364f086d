SPECIFICATION Spec
CONSTANTS
  a = a
  b = b
  Node = {1, 2, 3}
  MayCrash = {2}
  MayReset = {}
  Msg <- OneMessage
  Origin <- FromNode1
INVARIANTS
  AgreementUnique
  VotesCountedOnce
CHECK_DEADLOCK FALSE
