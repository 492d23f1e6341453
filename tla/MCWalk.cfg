SPECIFICATION Spec
CONSTANTS
  None = None
  AllCame = AllCame
  RefusalFails = RefusalFails
  HoursPerDay = 2
  WindowDays = 3
  FirstToday = 9
  LastToday = 11
  SpanOf <- MCSpans
  LongestSpan = 18
  LadderDays = 2
  EmptyWindows = 2
  WholeShare = 6
  Trials <- MCTrials
INVARIANTS
  TypeOK
  EachDateOnce
  MisreadingIsFound
  StartIsShown
  NewerIsStored
  LadderClimbs
PROPERTIES
  FetchesOneBlock
