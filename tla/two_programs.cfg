SPECIFICATION TclmSpec
CONSTANTS
  t1 = t1
  t2 = t2
  tm = tm
  c1 = c1
  c2 = c2
  cm = cm
  Process <- TwoIds
  Name <- Names
  Path <- Chain
  Serial <- Twice
  Modes = {"X"}
  Liberties <- AnyLiberty
  MaxRequests = 9
  MaxHeld = 9
  NoCall = NoCall
  NoProcess = NoProcess
  Clients <- TwoClients
  Thread <- Threads
  Manager = {}
  Kills = {}
  ClientOf <- Apart
  Habits = {}
  Faults = {"loss"}
  MaxId = 1
  MaxNonce = 1
  MaxCalls = 3
  Nobody = Nobody
  NoAnswer = NoAnswer
  NoHandler = NoHandler
CHECK_DEADLOCK FALSE
INVARIANTS
  TclmTypeOK
  GrantedIsHeld
  ClientExclusion
  Remembered
  NothingLost
  OneCreator
  IdsValid
