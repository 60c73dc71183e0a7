SPECIFICATION Spec
CONSTANTS
  Process = {p, q}
  Name <- Names
  Path <- Chain
  Serial <- Twice
  Modes = {"S", "X"}
  Liberties = {"repeat"}
  MaxRequests = 2
  MaxHeld = 2
  NoCall = NoCall
  NoProcess = NoProcess
SYMMETRY Symmetry
INVARIANTS
  NoLocksOfTheDead
