CONSTANTS
  None = None
  Same = Same
  MaxVisions = 1
  MaxDepth = 5
  DefaultResetHour = 4
  RebuildThreshold = 4
  DayOf <- MCDayOf
  InitNodes <- MCNodes
  InitRules <- MCKindRules
  InitFacts <- MCFacts
  Commands <- MCIdeas
  Arrivals <- MCArrivals
  MaxCommands = 1
  MaxArrivals = 0
SPECIFICATION Spec
PROPERTY AnswerHidesNothing
CHECK_DEADLOCK FALSE
