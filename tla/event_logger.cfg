SPECIFICATION FairSpec
CONSTANTS
  Client <- Clients
  bad = bad
  long = long
  NoName = NoName
  Input <- Lines
  MayBreak <- Breaking
  MayKill <- Killed
  MaxClock = 1
INVARIANTS LinesInOrder TimesInOrder
PROPERTIES EverythingLogged
CHECK_DEADLOCK FALSE
