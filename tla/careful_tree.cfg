SPECIFICATION FairSpec
CONSTANTS
  Process = {p, q}
  Name <- Names
  Path <- Tree
  Serial <- Once
  Modes = {"S", "Splus", "X"}
  Liberties = {}
  MaxRequests = 3
  MaxHeld = 3
  NoCall = NoCall
  NoProcess = NoProcess
INVARIANTS
  HierarchicalExclusion
  NoStaleIntents
  NoLostWakeup
PROPERTIES
  HandlerEnds
