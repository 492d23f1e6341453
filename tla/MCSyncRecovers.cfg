SPECIFICATION FairSpec
CONSTANTS
  import = import
  export = export
  None = None
  LongestBackoff = 3
  MostFailures = 3
  Units = {import, export}
  PropertyOf <- MCOneProperty
  TargetedInterval = 2
  FullInterval = 4
  RateLimitWaits = {1}
  LongestRateLimit = 2
  Readings = {"cost"}
  MaxFaults = 2
  MaxLate = 1
  MaxAborts = 1
  MaxReplans = 0
  MaxReloads = 0
PROPERTY UnitsRecover
