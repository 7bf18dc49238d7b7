SPECIFICATION FairSpec
CONSTANTS
  r1 = r1
  r2 = r2
  j1 = j1
  j2 = j2
  Run = {r1}
  Job = {j1, j2}
  Ending = {j1}
  Early <- Unfinished
  Named = {"VERIFY"}
  MaxDate = 2
  MaxFile = 3
  MaxBad = 1
  MaxFaults = 2
  CrashPoints = {"lock", "args", "VERIFY", "verify", "mvbad", "ARCHIVE1", "BUILD", "next", "CMS", "REPORT", "recy", "mvrecycled", "reports", "DREP", "FEF", "USEREXIT", "CLEANUP"}
  RecyFails = FALSE
  SwitchInSetup = FALSE
  OptionsKept = TRUE
  PeriodAlone = TRUE
INVARIANTS NoRecordLost WholeJobs PeriodFollowsNights
PROPERTIES BillsOnce NightsComplete
CHECK_DEADLOCK FALSE
