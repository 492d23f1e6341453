SPECIFICATION Spec
CONSTANTS
  None = None
  AllCame = AllCame
  RefusalFails = RefusalFails
  HoursPerDay = 2
  WindowDays = 2
  LongestBackoff = 2
  MostFailures = 2
  FirstToday = 6
  LastToday = 7
  Depth = 4
  Longest = 6
  Overlap = 1
  EmptyDays = 2
  CoverageWindows = 1
  RevisionDates = {7}
  Grace = 1
  BillingStarts = {1}
  Trials <- Safety
INVARIANTS
  TypeOK
  WaitsAreCounted
  TornIsUnsaved
  PassAsksAll
  ReportsTruth
  StartIsShown
PROPERTIES
  ReportsHold
