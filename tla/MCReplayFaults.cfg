SPECIFICATION Spec
CONSTANTS
  w1 = w1
  w2 = w2
  energy = energy
  cost = cost
  None = None
  LastHour = 3
  Writers = {w1, w2}
  Energy = energy
  Cost = cost
  LockRank <- MCRank
  Near = 1
  Far = 2
  Offers <- Usual
  InitTables <- MCRetry
  SettleBarriers = 2
  ConfirmBarriers = 3
  MaxReplays = 3
  MaxRequeues = 1
  MaxDrops = 1
  MaxTimeouts = 1
  MaxCancels = 1
  MaxAdjusts = 0
  MaxRestarts = 1
\* The bounds stop the system: a writer may have no replay left to begin.
CHECK_DEADLOCK FALSE
INVARIANTS
  TypeOK
  ReadsStayCurrent
  QueuedIsMarked
  SeamsAreUnconfirmed
