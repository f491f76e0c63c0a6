\* The disk service with one drive whose medium is changed, the pipe service with two pipes, a table of
\* three entries and four calls, and the console with a ring of two keys and two calls.
SPECIFICATION AllSpec
CONSTANTS
  d0 = d0
  all = all
  b1 = b1
  b2 = b2
  nobody = nobody
  none = none
  bad = bad
  Drives = {d0}
  All = all
  Badges = {b1, b2}
  Nobody = nobody
  Gone = none
  Contents = {0, 1}
  Bad = bad
  Media <- MCMedia
  NWindows = 3
  CacheSectors = 3
  MaxSectors = 2
  MaxLba = 4
  NPipes = 2
  NPending = 3
  PipeSize = 2
  NCalls = 4
  MaxBadge = 3
  NStreams = 1
  NWaiting = 2
  NKeys = 2
  LineMax = 4
  Kinds = {"wide", "enter", "back", "ctrl_c", "ctrl_d"}
  Maxes = {2}
  NConCalls = 2
  MaxOpens = 2
  MaxTyped = 3
INVARIANTS CacheInv Coherent BytesInOrder WaitersInv InputInOrder ReadersAreServed
PROPERTIES ReadsTheDrive GoodSectorsAreRead
CHECK_DEADLOCK FALSE
