SPECIFICATION CFairSpec
CONSTANTS
  p1 = p1
  p2 = p2
  c1 = c1
  c2 = c2
  Pid = {p1, p2}
  BootPid = {p1, p2}
  Status = {0}
  Client = {c1, c2}
  Priv = {c1}
  User = {1}
  HidCount = 1
  SidCount = 3
  EvCap = 2
  Lossy = FALSE
  Reuse = FALSE
  Zombies = FALSE
  Calls <- AttachCalls
  LinkCap = 3
  CsadMayStart = TRUE
  CsadMayStop = FALSE
  JobdMayStop = FALSE
  CtlCalls <- NoRequests
  WritesFail = FALSE
PROPERTIES JobsEnd  JobsClosed
CHECK_DEADLOCK FALSE
