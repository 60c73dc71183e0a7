SPECIFICATION Spec
CONSTANTS
  Process = {p, q}
  Name <- Names
  Path <- Chain
  Serial <- Twice
  Modes = {"S", "Splus", "X"}
  Liberties = {"repeat", "missing", "cancel"}
  MaxRequests = 2
  MaxHeld = 2
  NoCall = NoCall
  NoProcess = NoProcess
SYMMETRY Symmetry
INVARIANTS
  HierarchicalExclusion
  OnePlace
  NoDanglingRequester
PROPERTIES
  NoPhantoms
  ImplementsService
