SPECIFICATION Spec
CONSTANTS
  Size <- Sizes
  Kind <- Kinds
  MaxEntry = 4
  MaxCut = 2
INVARIANTS ExactlyWhole
PROPERTIES LoopEnds
CHECK_DEADLOCK FALSE
