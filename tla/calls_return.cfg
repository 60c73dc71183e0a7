SPECIFICATION FairTclmSpec
CONSTANTS
  t1 = t1
  t2 = t2
  tm = tm
  c1 = c1
  c2 = c2
  cm = cm
  Process <- FourIds
  Name <- Names
  Path <- Single
  Serial <- Twice
  Modes = {"S", "X"}
  Liberties <- AnyLiberty
  MaxRequests = 9
  MaxHeld = 9
  NoCall = NoCall
  NoProcess = NoProcess
  Clients <- ClientsAndKiller
  Thread <- WithKiller
  Manager <- Killer
  Kills = {0}
  ClientOf <- ApartFromKiller
  Habits = {}
  Faults = {}
  MaxId = 3
  MaxNonce = 1
  MaxCalls = 2
  Nobody = Nobody
  NoAnswer = NoAnswer
  NoHandler = NoHandler
CHECK_DEADLOCK FALSE
INVARIANTS
  NothingLost
  
PROPERTIES
  CallsReturn
