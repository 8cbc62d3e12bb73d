SPECIFICATION Spec
CONSTANTS
  q1 = q1  q2 = q2  r1 = r1  r2 = r2
  Requests = {q1, q2}
  Rows = {r1, r2}
  Fields = {1, 2}
  NoRow = NoRow
  Parent <- MCParent
  InitRows = {r1}
  MaxCommands = 2
  MaxBatch = 2
  MaxFaults = 1
CHECK_DEADLOCK FALSE
INVARIANTS OneVerdict SerialLastWriterWins SerialLiveParent
PROPERTIES EveryRequestEnds
