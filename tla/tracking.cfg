CONSTANTS
  None = 0
  MaxVisions = 1
  Tasks = {1, 2}
  Entries = {1, 2}
  Devices = {"a", "b"}
  Times = {1, 2, 3}
  Links <- MCLinks
  Rules <- MCRules
  Commands <- MCCommands
  Requests = {1, 2}
  MaxCommands = 4
  DayMinutes = 6
  MinSegmentMinutes = 2
SPECIFICATION Spec
PROPERTIES SheetSpec SerialGates SerialTimersResolve RejectionKeepsFacts
CHECK_DEADLOCK FALSE
