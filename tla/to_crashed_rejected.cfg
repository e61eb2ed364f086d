SPECIFICATION FairSpec
CONSTANTS
  a = a
  b = b
  Node = {1, 2}
  MayCrash = {1}
  MayReset = {}
  Msg <- OneMessage
  Origin <- FromNode1
PROPERTY CrashedRejected
CHECK_DEADLOCK FALSE
