SPECIFICATION FairSpec
CONSTANTS
  Process = {p, q}
  Name <- Names
  Path <- Chain
  Serial <- Once
  Modes = {"S", "X"}
  Liberties = {"missing"}
  MaxRequests = 2
  MaxHeld = 2
  NoCall = NoCall
  NoProcess = NoProcess
PROPERTIES
  UnregisterEnds
