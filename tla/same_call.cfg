SPECIFICATION TclmSpec
CONSTANTS
  t1 = t1
  t2 = t2
  tm = tm
  c1 = c1
  c2 = c2
  cm = cm
  Process <- TwoIds
  Name <- Names
  Path <- Single
  Serial <- Twice
  Modes = {"S"}
  Liberties <- AnyLiberty
  MaxRequests = 9
  MaxHeld = 9
  NoCall = NoCall
  NoProcess = NoProcess
  Clients <- OneClient
  Thread <- Threads
  Manager = {}
  Kills = {}
  ClientOf <- Together
  Habits = {"share", "same"}
  Faults = {}
  MaxId = 1
  MaxNonce = 1
  MaxCalls = 2
  Nobody = Nobody
  NoAnswer = NoAnswer
  NoHandler = NoHandler
CHECK_DEADLOCK FALSE
INVARIANTS
  Remembered
