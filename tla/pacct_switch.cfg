SPECIFICATION Spec
CONSTANTS
  csarun = csarun
  csackpacct = csackpacct
  Switcher = {csarun, csackpacct}
  Csarun = csarun
  MaxFile = 3
  MaxRec = 3
  Serial = TRUE
  LateErrors = FALSE
INVARIANTS RecordsKept 
 
CHECK_DEADLOCK FALSE
