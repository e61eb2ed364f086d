SPECIFICATION FairSpec
CONSTANTS
  a = a
  b = b
  Node = {1, 2}
  MayCrash = {1}
  MayReset = {}
  Msg <- TwoMessages
  Origin <- BothFromNode2
PROPERTIES
  EverythingDelivered
  AnnouncedWithoutTheCrashed
CHECK_DEADLOCK FALSE
