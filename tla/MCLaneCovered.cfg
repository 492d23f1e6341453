SPECIFICATION FairSpec
CONSTANTS
  None = None
  AllCame = AllCame
  RefusalFails = RefusalFails
  HoursPerDay = 1
  WindowDays = 2
  LongestBackoff = 2
  MostFailures = 2
  FirstToday = 6
  LastToday = 7
  Depth = 4
  Longest = 6
  Overlap = 1
  EmptyDays = 2
  CoverageWindows = 2
  RevisionDates = {7}
  Grace = 1
  BillingStarts = {1}
  Trials <- Lucky
PROPERTIES
  Covered
