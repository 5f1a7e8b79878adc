CHECK_DEADLOCK FALSE
SPECIFICATION Spec
CONSTANTS
  BufSize = 9
  ShiftSize = 8
  LED_ARRAY_SIZE = 1
  MSG_OVERHEAD = 6
  MIN_DATA_SIZE = 1
  SerialMax = 1
  MaxQueue = 1
  MaxNotes = 1
  MaxLost = 1
  Reconnect = FALSE
INVARIANTS EdgesTellLevel
