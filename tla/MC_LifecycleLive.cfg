SPECIFICATION FairSpec
CONSTANTS
  NoCall = NoCall
  Free = Free
  Callers = {c1, c2}
  Commands <- TwoCommands
  Desired <- OneRevision
  Keys = {"k1", "k2", "k3"}
  Kinds = {"queue", "worker", "worker_group"}
  MaxResults = 2
  MaxCount = 2
PROPERTY CallsReturn
