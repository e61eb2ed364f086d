SPECIFICATION PFairSpec
CONSTANTS
  Node <- Nodes
  MayCrash <- Crashing
  MayReset <- NoReset
  Payload <- Msgs
  Origin <- Origins
  Cap = 1
  App = App
INVARIANTS HandledReachesAll
PROPERTIES ImplementsReliableMulticast OnlyCyclesWaitForever
CHECK_DEADLOCK FALSE
