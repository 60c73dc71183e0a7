SPECIFICATION FairSpec
CONSTANTS
  Byte <- Bits
  Garbage = Garbage
  FirstCapacity = 4
  MaxCapacity = 16
  Base = 2
  Chunk = 9
  Ids = {1}
  Bodies <- Letters
  MaxMessages = 3
  MaxFailures = 2
CHECK_DEADLOCK FALSE
INVARIANTS
  ReceiveInv
  BytesKept
  MessagesWhole
  NoneWaiting
PROPERTIES
  AllDelivered
