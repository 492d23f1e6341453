SPECIFICATION Spec
CONSTANTS
  import = import
  export = export
  None = None
  LongestBackoff = 2
  MostFailures = 2
  Units = {import, export}
  PropertyOf <- MCTwoProperties
  TargetedInterval = 2
  FullInterval = 4
  RateLimitWaits = {1}
  LongestRateLimit = 2
  Readings = {"usage", "cost"}
  MaxFaults = 2
  MaxLate = 2
  MaxAborts = 0
  MaxReplans = 1
  MaxReloads = 1
SYMMETRY Exchanged
INVARIANTS
  TypeOK
  StatusTellsWaits
  ReconciledOrOwed
  NoneStarves
