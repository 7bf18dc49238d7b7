SPECIFICATION Spec
CONSTANTS
  Size <- Sizes
  Record <- Mixed
  Arg <- Every
  Day = 2
  MaxRecord = 3
  MaxFile = 2
INVARIANTS ChosenAsAsked CopyReadable
CHECK_DEADLOCK FALSE
