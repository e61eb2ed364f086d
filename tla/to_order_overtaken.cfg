SPECIFICATION Spec
CONSTANTS
  a = a
  b = b
  Node = {1, 2}
  MayCrash = {}
  MayReset = {}
  Msg <- TwoMessages
  Origin <- FromEach
INVARIANT TotalOrder
CHECK_DEADLOCK FALSE
