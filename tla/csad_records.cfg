SPECIFICATION CSpec
CONSTANTS
  p1 = p1
  p2 = p2
  c1 = c1
  c2 = c2
  Pid = {p1, p2}
  BootPid = {p1}
  Status = {0}
  Client = {c1}
  Priv = {c1}
  User = {1}
  HidCount = 1
  SidCount = 3
  EvCap = 2
  Lossy = FALSE
  Reuse = FALSE
  Zombies = FALSE
  Calls <- LoginsOnly
  LinkCap = 2
  CsadMayStart = TRUE
  CsadMayStop = TRUE
  JobdMayStop = FALSE
  CtlCalls <- SwitchCalls
  WritesFail = TRUE
INVARIANTS  TableTracksJobd Framed
PROPERTIES ChargedToItsJob ExitCharged 
CHECK_DEADLOCK FALSE
