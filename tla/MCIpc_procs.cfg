SPECIFICATION MixSpec
CONSTANTS
  t1 = t1 t2 = t2 t3 = t3 p1 = p1 p2 = p2
  k1 = k1 c1 = c1 c2 = c2 i1 = i1 n1 = n1
  Null = Null
  Threads = {t1, t2}
  Procs = {p1, p2}
  Ports = {k1}
  Chans = {c1}
  Irqs = {i1}
  Names = {n1}
  MaxHandles = 3
  MaxSpawnHandles = 1
  Ops <- ServiceOps
SYMMETRY Symmetry
INVARIANTS RefsAreSound IrqNeverStuck ExitedOwnsNothing
CHECK_DEADLOCK FALSE
