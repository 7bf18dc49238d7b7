SPECIFICATION Spec
CONSTANTS
  p1 = p1
  p2 = p2
  c1 = c1
  c2 = c2
  Pid = {p1, p2}
  BootPid = {p1}
  Status = {0}
  Client = {c1, c2}
  Priv = {c1}
  User = {1}
  HidCount = 1
  SidCount = 2
  EvCap = 1
  Lossy = TRUE
  Reuse = TRUE
  Zombies = TRUE
  Calls <- DisableCalls
  LinkCap = 2
  CsadMayStart = TRUE
  CsadMayStop = TRUE
  JobdMayStop = TRUE
INVARIANTS TablesConsistent WaitersConsistent
CHECK_DEADLOCK FALSE
