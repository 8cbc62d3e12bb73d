SPECIFICATION Spec
CONSTANTS
  None = None
  Unusable = Unusable
  RetentionDays = 1
  HorizonDays = 1
  ReviewDays = 0
  DayLength = 4
  ResetHour = 1
  PeriodLength <- MCPeriodLength
  MaxOccurrences = 9
  MaxEntries = 1
  Plans <- MCDropping
  MaxImports = 1
CHECK_DEADLOCK FALSE
INVARIANTS PurgeCompletes
