\* Reads of one byte, keys of two, and a program in RAW mode.
SPECIFICATION ConSpec
CONSTANTS
  NStreams = 1
  NWaiting = 2
  NKeys = 2
  LineMax = 4
  Kinds = {"wide", "enter", "back", "ctrl_c", "ctrl_d"}
  Maxes = {1}
  NConCalls = 2
  MaxOpens = 2
  MaxTyped = 3
INVARIANT ReadersAreServed
CHECK_DEADLOCK FALSE
