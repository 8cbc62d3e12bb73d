CONSTANTS
  None = None
  Same = Same
  MaxVisions = 1
  MaxDepth = 5
  DefaultResetHour = 4
  RebuildThreshold = 4
  DayOf <- MCDayOf
  InitNodes <- MCNodes
  InitRules <- MCRules
  InitFacts <- MCFacts
  Commands <- MCCommands
  Arrivals <- MCArrivals
  MaxCommands = 2
  MaxArrivals = 2
SPECIFICATION Spec
INVARIANT IndexAgrees
PROPERTY BackstopQuiet
CHECK_DEADLOCK FALSE
