SPECIFICATION FairSpec
CONSTANTS
  Nil = Nil
  Free = Free
  Tasks = {t1, t2}
  Capacity = 5
  Producers = {p1}
  Consumers = {c1}
  Stoppers = {s1, s2}
INVARIANTS TypeOK NoPanic WindowOK HalfFull SlotsExact ExitSound ExitComplete
PROPERTIES RefinesFifo ShutdownReturns
