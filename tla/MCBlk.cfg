SPECIFICATION FairSpec
CONSTANTS
  t1 = t1 t2 = t2 t3 = t3 p1 = p1 p2 = p2
  Null = Null
  Threads = {t1, t2, t3}
  Procs = {p1, p2}
  Home <- HomeOf
  MaxQueue = 3
INVARIANTS QueueInv DmaIntoLiveMemory
PROPERTIES RightAnswer EveryRequestEnds
