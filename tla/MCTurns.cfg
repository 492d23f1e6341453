SPECIFICATION FairSpec
CONSTANTS
  Lanes = {1, 2, 3}
  PropertyOf <- MCPropertyOf
  CoverageWindows = 2
  Most = 3
  Interval = 2
  LongestUpdate = 1
  RateLimitWaits = {1, 3}
  LongestRateLimit = 5
  Trials <- MCTrials
INVARIANTS
  TypeOK
  TurnsAreEven
  OneTimeoutEach
PROPERTIES
  LimitIsObeyed
  AllLanesCovered
