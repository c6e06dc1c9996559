SPECIFICATION Spec
CONSTANTS
  NoTask = NoTask
  Tasks = {t1, t2}
  InMemory = TRUE
  HasLifecycle = FALSE
  Capacity = 2
  InitialCount = 1
  Updates = {}
  Callers = {c1, c2}
  Ops = {"Start", "Shutdown", "Release", "CloseAdmission", "ReleaseContext"}
  Managers = {}
  Wanted = {}
INVARIANTS TypeOK AdmissionsDoneOnce PublishesDone GracefulRelease
SYMMETRY Interchangeable
CHECK_DEADLOCK FALSE
