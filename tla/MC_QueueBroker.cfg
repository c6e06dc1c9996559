SPECIFICATION Spec
CONSTANTS
  NoTask = NoTask
  Tasks = {t1, t2}
  InMemory = FALSE
  HasLifecycle = TRUE
  Capacity = 2
  InitialCount = 1
  Updates = {}
  Callers = {c1}
  Ops = {"Start", "ReleaseContext"}
  Managers = {m1}
  Wanted = {"active", "paused", "draining", "terminating"}
INVARIANTS  GateExact BoundaryHolds TransportOutlivesWork
SYMMETRY Interchangeable
CHECK_DEADLOCK FALSE
