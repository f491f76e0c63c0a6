CONSTANTS
  NThreads = 2
  NPrios = 2
  Procs = {pa}
  SliceTicks = 2
  TickMod = 8
  Timeouts = {1, 2, 4, 5}
  StaleReuse = FALSE
  None = None
SPECIFICATION FairSpec
INVARIANTS
  NoLateTimeout
  NoEarlyTimeout
PROPERTIES
  UrgentThreadRuns
