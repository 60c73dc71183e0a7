SPECIFICATION Spec
CONSTANTS
  Process = {p, q, r}
  Name <- Names
  Path <- Chain
  Serial <- Once
  Modes = {"S", "Splus", "X"}
  Liberties = {}
  MaxRequests = 4
  MaxHeld = 4
  NoCall = NoCall
  NoProcess = NoProcess
SYMMETRY Symmetry
INVARIANTS
  TypeOK
  IntentsCover
  NoLostWakeup
  HeldLocksExact
  NoLocksOfTheDead
