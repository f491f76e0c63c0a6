CONSTANTS
  NThreads = 3
  NPrios = 2
  Procs = {pa, pb}
  SliceTicks = 1
  TickMod = 4
  Timeouts = {}
  StaleReuse = FALSE
  None = None
SPECIFICATION Spec
SYMMETRY ProcSymmetry
INVARIANTS
  TypeOK
  ReadyIsQueued
  OneRunning
  MostUrgentRuns
PROPERTIES
  ImplementsFifo
