SPECIFICATION FairSpec
CONSTANTS
  NoTask = NoTask
  Tasks = {t1}
  InMemory = FALSE
  HasLifecycle = TRUE
  Capacity = 0
  InitialCount = 1
  Updates = {}
  Callers = {c1}
  Ops = {"Start", "Release"}
  Managers = {m1}
  Wanted = {"active", "paused"}
PROPERTIES KeepsRequesting QuitStops
CHECK_DEADLOCK FALSE
