SPECIFICATION Spec
CONSTANTS
  Size <- MCSize
  User = {1, 2}
  UserOf <- MCUserOf
  SecsPerDay = 4
  Days = 6
  FirstDay = 4
  PopTimes <- MCPopTimes
  Holidays = {0}
  MaxQueue = 3
  Word = 8
  JobRecord <- MCJobRecord
  Selection <- MCSelection
  MaxJobs = 3
  MaxNights = 3
INVARIANTS CmsAddUp DrepAddUp RequestsSplit SplitsAddUp
CHECK_DEADLOCK FALSE
