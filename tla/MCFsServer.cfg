SPECIFICATION MCSpec
CONSTANTS
  NInodes = 4
  Names <- MCNames
  Fold <- MCFold
  Machines <- MCMachines
  Disks <- MCDisks
  DsfsNames <- MCDsfs
  FS_OBJECTS = 3
  MaxBadge = 4
  MaxLookups = 2
  MaxSize = 2
  Menu <- MCMenu
  Profiles = {"names", "lists", "owners", "data"}
INVARIANTS RefsAreLive ListedOnce ObjectsAreOwned
CHECK_DEADLOCK FALSE
