SPECIFICATION Spec
CONSTANTS
  d1 = d1  d2 = d2  r1 = r1  r2 = r2  f1 = f1  f2 = f2
  Devices = {d1, d2}
  Rows = {r1, r2}
  Fields = {f1, f2}
  NoRow = NoRow
  Parent <- MCParent
  InitRows = {r1}
  Unsigned = {r1}
  Verbs = {"create", "update", "delete"}
  MaxCommands = 2
  MaxBatch = 2
  MaxFaults = 1
  SerialWrites = FALSE
  SyncedClocks = FALSE
  OrderedIds = TRUE
CHECK_DEADLOCK FALSE
INVARIANTS LastWriterWins
PROPERTIES ClearedOnlyWhenArrived EveryCommandDecided
