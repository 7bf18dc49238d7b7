SPECIFICATION CSpec
CONSTANTS
  p1 = p1
  p2 = p2
  c1 = c1
  c2 = c2
  Pid = {p1, p2}
  BootPid = {p1}
  Status = {0}
  Client = {c1, c2}
  Priv = {c1}
  User = {1}
  HidCount = 2
  SidCount = 2
  EvCap = 2
  Lossy = FALSE
  Reuse = FALSE
  Zombies = TRUE
  Calls <- AdminCalls
  LinkCap = 2
  CsadMayStart = FALSE
  CsadMayStop = FALSE
  JobdMayStop = TRUE
  CtlCalls <- NoRequests
  WritesFail = FALSE
INVARIANTS TypeOK
PROPERTIES WaitersAnswered CreatedJobIsFresh
CHECK_DEADLOCK FALSE
