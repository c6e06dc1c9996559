SPECIFICATION FairSpec
CONSTANTS
  NoTask = NoTask
  Tasks = {t1}
  InMemory = TRUE
  HasLifecycle = FALSE
  Capacity = 1
  InitialCount = 1
  Updates = {}
  Callers = {c1}
  Ops = {"Start", "CloseAdmission"}
  Managers = {}
  Wanted = {}
PROPERTY AcceptedHandled
CHECK_DEADLOCK FALSE
