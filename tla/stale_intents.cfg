SPECIFICATION Spec
CONSTANTS
  Process = {p, q}
  Name <- Names
  Path <- Tree
  Serial <- Once
  Modes = {"S", "X"}
  Liberties = {"missing"}
  MaxRequests = 2
  MaxHeld = 2
  NoCall = NoCall
  NoProcess = NoProcess
SYMMETRY Symmetry
INVARIANTS
  NoStaleIntents
