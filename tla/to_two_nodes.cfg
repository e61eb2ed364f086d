SPECIFICATION Spec
CONSTANTS
  a = a
  b = b
  Node = {1, 2}
  MayCrash = {1}
  MayReset <- ResetOf21
  Msg <- TwoMessages
  Origin <- FromEach
INVARIANTS
  TypeOK
  DeliveredOnce
  TotalOrderUnlessOvertaken
  DeliveredInOrder
  AgreedKeysDistinct
  AnnouncementDominates
  NothingDeliverableWaits
CHECK_DEADLOCK FALSE
