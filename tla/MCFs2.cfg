SPECIFICATION MCSpec
CONSTANTS
  NInodes = 3
  Names = {1, 2}
  Fold <- TwoKeys
  Modes = {0}
  Vals = {1}
  Writes <- SomeWrites
  Sizes = {1}
  NBlocks = 3
  Payload = 3
  DirentCells = 2
  FullMountCheck = TRUE
  ReadErrors = 1
  MaxUpdates = 4
INVARIANTS CleanIsConsistent BlocksAreOwned MemoryIsTrue
PROPERTY ImplementsTree
CHECK_DEADLOCK FALSE
