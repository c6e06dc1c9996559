SPECIFICATION Spec
CONSTANTS
  NoCall = NoCall
  Free = Free
  Callers = {c1, c2}
  Commands <- OneCommand
  Desired <- SomeRevisions
  Keys = {"k1", "k2", "k3"}
  Kinds = {"queue", "worker", "worker_group"}
  MaxResults = 2
  MaxCount = 2
INVARIANTS NoLostWakeup WaitsForStateInForce
PROPERTIES RefinesGate RevisionsMonotone BoundaryStable
