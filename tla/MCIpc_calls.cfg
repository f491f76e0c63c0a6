SPECIFICATION CallSpec
CONSTANTS
  t1 = t1 t2 = t2 t3 = t3 p1 = p1 p2 = p2
  k1 = k1 c1 = c1 c2 = c2 i1 = i1 n1 = n1
  Null = Null
  Threads = {t1, t2, t3}
  Procs = {p1}
  Ports = {k1}
  Chans = {c1, c2}
  Irqs = {}
  Names = {}
  MaxHandles = 3
  MaxSpawnHandles = 0
  Ops <- CallOps
SYMMETRY Symmetry
INVARIANTS NoLostWakeup CallersAreServable GoneOwedOnce
PROPERTY CallsServedInOrder
CHECK_DEADLOCK FALSE
