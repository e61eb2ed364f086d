SPECIFICATION Spec
CONSTANTS
  Msg = {m1, m2, m3, m4, m5}
  SeqNum = {1, 2}
  Process = {1, 2}
SYMMETRY MessagesAreAlike
INVARIANTS
  TypeOK
  IndexInPlace
  HeadIsMinimum
PROPERTY
  ImplementsMinQueue
