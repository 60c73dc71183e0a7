SPECIFICATION FairSpec
CONSTANTS
  Sender = {s1, s2, s3}
  Size = 2
  Loop = Loop
  Closer = Closer
  Free = Free
  Faults = {"connection", "epoll"}
CHECK_DEADLOCK FALSE
INVARIANTS
  SendTypeOK
  WireInOrder
  NothingStuck
  NoInversion
PROPERTIES
  SendsReturn
  LoopEnds
  AllSent
