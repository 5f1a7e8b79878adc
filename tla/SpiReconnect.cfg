SPECIFICATION FairSpec
CONSTANTS
  BufSize = 12
  ShiftSize = 8
  LED_ARRAY_SIZE = 1
  MSG_OVERHEAD = 6
  MIN_DATA_SIZE = 1
  SerialMax = 1
  MaxQueue = 1
  MaxNotes = 1
  MaxLost = 0
  Reconnect = TRUE
PROPERTIES StatusReturns
