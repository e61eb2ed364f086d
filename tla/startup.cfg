SPECIFICATION FairSpec
CONSTANTS
  Node <- Nodes
  blank = blank
  ConfigFiles <- Files
  MayCrash <- Crashing
  MayFailListen <- NoPort
INVARIANTS TypeOK ReadyBeforeReading GroupComplete PanicsOnlyWhileAdding
PROPERTIES EveryoneStarts
CHECK_DEADLOCK FALSE
