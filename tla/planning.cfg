SPECIFICATION PlanSpec
CONSTANTS
  None <- MCNone
  DayLength = 4
  Tasks <- MCTasks
  InitBlocks <- MCBlocks
  Spans <- MCSpans
  Windows <- MCWindows
  HorizonDays = 2
  MaxDay = 1
  MaxCommands = 2
  MaxRuns = 2
  MaxScans = 1
CHECK_DEADLOCK FALSE
INVARIANT AcceptMirrors
PROPERTY PlacementSound
