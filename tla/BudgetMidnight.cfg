SPECIFICATION MCSpec
CONSTANTS
  None = None
  Sample <- MCSample
  MaxFrames = 2
  MaxPages = 2
  Banner = 4
  Directive = 3
  Framing = 4
  DefaultLimit = 2
  MaxLimit = 3
  MaxTag = 4
  MaxTags = 3
  DayLength = 4
  MonthStarts <- MCMonthStarts
\* A behaviour is over when its input is chosen, or its stream is over.
CHECK_DEADLOCK FALSE
INVARIANT
  MidnightFirst
