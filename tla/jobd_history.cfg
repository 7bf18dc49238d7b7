SPECIFICATION CSpec
CONSTANTS
  p1 = p1
  p2 = p2
  c1 = c1
  c2 = c2
  Pid = {p1, p2}
  BootPid = {p1}
  Status = {0, 1}
  Client = {c1, c2}
  Priv = {c1}
  User = {1}
  HidCount = 1
  SidCount = 3
  EvCap = 2
  Lossy = FALSE
  Reuse = FALSE
  Zombies = FALSE
  Calls <- LoginCalls
  LinkCap = 2
  CsadMayStart = TRUE
  CsadMayStop = FALSE
  JobdMayStop = TRUE
  CtlCalls <- NoRequests
  WritesFail = FALSE
INVARIANTS MembershipSettles DeadMembersPending
PROPERTIES WaitStatus  AnswersSettled
CHECK_DEADLOCK FALSE
