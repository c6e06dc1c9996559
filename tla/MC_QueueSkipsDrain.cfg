SPECIFICATION Spec
CONSTANTS
  NoTask = NoTask
  Tasks = {t1}
  InMemory = TRUE
  HasLifecycle = FALSE
  Capacity = 1
  InitialCount = 1
  Updates = {}
  Callers = {c1}
  Ops = {"Start", "CloseAdmission", "Shutdown"}
  Managers = {}
  Wanted = {}
INVARIANT ShutdownDrains
CHECK_DEADLOCK FALSE
