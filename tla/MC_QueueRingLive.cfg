SPECIFICATION FairSpec
CONSTANTS
  NoTask = NoTask
  Tasks = {t1, t2}
  InMemory = TRUE
  HasLifecycle = FALSE
  Capacity = 2
  InitialCount = 1
  Updates = {}
  Callers = {c1}
  Ops = {"Start", "Release"}
  Managers = {}
  Wanted = {}
INVARIANT ShutdownDrains
PROPERTIES AcceptedHandled QuitStops 
CHECK_DEADLOCK FALSE
