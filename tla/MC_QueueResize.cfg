SPECIFICATION Spec
CONSTANTS
  NoTask = NoTask
  Tasks = {t1, t2, t3}
  InMemory = FALSE
  HasLifecycle = FALSE
  Capacity = 3
  InitialCount = 1
  Updates = {0, 2}
  Callers = {c1}
  Ops = {"Start"}
  Managers = {}
  Wanted = {}
INVARIANTS HandlersBounded
SYMMETRY Interchangeable
CHECK_DEADLOCK FALSE
