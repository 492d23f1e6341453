SPECIFICATION Spec
CONSTANTS
  None = None
  Flows = {first, second}
  MaxAttempts = 2
  Passes = 2
  Trials <- MCTrials
SYMMETRY Symmetric
INVARIANTS
  TypeOK
  ImportsAreOwned
  EntryOnce
  NothingIsLeft
PROPERTIES
  StartsClean
  RowsAreKept
  HalfSavedIsKnown
\* Every setup ends.
CHECK_DEADLOCK FALSE
