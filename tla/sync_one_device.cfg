SPECIFICATION Spec
CONSTANTS
  d1 = d1  d2 = d2  r1 = r1  r2 = r2  f1 = f1  f2 = f2
  Devices = {d1}
  Rows = {r1, r2}
  Fields = {f1, f2}
  NoRow = NoRow
  Parent <- MCParent
  InitRows = {r1}
  Unsigned = {}
  Verbs = {"create", "update", "delete"}
  MaxCommands = 3
  MaxBatch = 2
  MaxFaults = 1
  SerialWrites = TRUE
  SyncedClocks = TRUE
  OrderedIds = TRUE
CHECK_DEADLOCK FALSE
PROPERTIES EveryCommandSettles DeletedRowsDropOut
