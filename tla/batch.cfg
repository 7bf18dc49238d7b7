SPECIFICATION Spec
CONSTANTS
  u1 = u1
  u2 = u2
  MaxJob = 2
  Req = {1}
  User = {u1, u2}
  Size <- Sizes
  UserOf <- Owner
  JobUser <- JobUsers
  ReqUser <- ReqUsers
  MaxExit = 1
  MaxClock = 7
  MaxLost = 1
  MaxNight = 3
  Options <- Plain
  All = {TRUE, FALSE}
  MayWait = FALSE
  EndFirst = TRUE
INVARIANTS EachOnce JobsApart JobsWhole  
CHECK_DEADLOCK FALSE
