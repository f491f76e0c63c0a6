SPECIFICATION MmSpec
CONSTANTS
  p1 = p1 p2 = p2 p3 = p3
  Procs = {p1, p2}
  Nobody = Nobody
  NFrames = 8
  Reserved = 1
  NPages = 4
  PerTable = 2
  Text = {1}
  Data = {2}
  Device = 4
  HeapStart = 3
  HeapLimit = 4
  Vals = {0, 1}
  ImageVal = 1
  NRegions = 2
  NArena = 4
  MaxArena = 2
SYMMETRY Symmetry
INVARIANTS PoolExact ArenasArePrivate NothingIsStale
PROPERTY ImplementsPrivate
CHECK_DEADLOCK FALSE
