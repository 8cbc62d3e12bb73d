SPECIFICATION Spec
CONSTANTS
  Devices <- MCDevices
  Scripts <- MCScripts
  MaxLost = 1
CHECK_DEADLOCK FALSE
INVARIANTS PredictionHolds RecordedSettle RowsFit
PROPERTY NoTextDropped
