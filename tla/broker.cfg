SPECIFICATION FairSpec
CONSTANTS
  Member = {d1, d2, d3, d4, d5}
  Unreachable = {d2, d3, d4, d5}
  Handler = {h1, h2}
  collector = collector
  nobody = nobody
  MaxWaiting = 2
  SubCap = 1
INVARIANTS
  KnownNotTooSmall
PROPERTIES
  LockReleased
  KnownInTheEnd
  ImplementsMemberUpdates
