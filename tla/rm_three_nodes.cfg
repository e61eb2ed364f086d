SPECIFICATION FairSpec
CONSTANTS
  a = a
  Node = {1, 2, 3}
  MayCrash = {1, 2}
  MayReset <- ResetOf13
  Payload <- OneMessage
  Origin <- FromNode1
INVARIANTS
  TypeOK
  Integrity
  RelayedBeforeDelivered
  EjectionsPublished
PROPERTIES
  ImplementsReliableMulticast
  ReliableAgreement
CHECK_DEADLOCK FALSE
