SPECIFICATION ServerSpec
CONSTANTS
  t0 = t0 t1 = t1 t2 = t2 t3 = t3 p0 = p0 p1 = p1 p2 = p2 p3 = p3
  Threads = {t0, t1, t2, t3}
  Procs = {p0, p1, p2, p3}
  Ports = {k1}
  Chans = {c1, c2, c3}
  Irqs = {}
  Names = {}
  Null = Null
  MaxHandles = 1
  MaxSpawnHandles = 0
  Ops <- AllOps
  Server = t0
  Home <- HomeOf
PROPERTIES CallReturns GoneIsDelivered
CHECK_DEADLOCK FALSE
