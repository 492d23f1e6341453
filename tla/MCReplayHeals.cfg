SPECIFICATION Spec
CONSTANTS
  w1 = w1
  w2 = w2
  energy = energy
  cost = cost
  None = None
  LastHour = 3
  Writers = {w1, w2}
  Energy = energy
  Cost = cost
  LockRank <- MCRank
  Near = 1
  Far = 2
  Offers <- OddOffers
  InitTables <- MCOdd
  SettleBarriers = 2
  ConfirmBarriers = 3
  MaxReplays = 2
  MaxRequeues = 0
  MaxDrops = 0
  MaxTimeouts = 1
  MaxCancels = 0
  MaxAdjusts = 1
  MaxRestarts = 1
\* The bounds stop the system: a writer may have no replay left to begin.
CHECK_DEADLOCK FALSE
PROPERTIES
  ConfirmedIsStored
  ConfirmedIsSeamless
  LaterStepsAreKept
