SPECIFICATION Spec
CONSTANTS
  NoTask = NoTask
  Tasks = {t1}
  InMemory = FALSE
  HasLifecycle = TRUE
  Capacity = 1
  InitialCount = 1
  Updates = {}
  Callers = {c1}
  Ops = {"Start", "CloseAdmission"}
  Managers = {m1}
  Wanted = {"active"}
INVARIANT ReservationWithdrawn
CHECK_DEADLOCK FALSE
