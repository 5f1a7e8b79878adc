SPECIFICATION RestartSpec
CONSTANTS
  ShiftSize = 7
  LED_ARRAY_SIZE = 2
  MSG_OVERHEAD = 1
  MIN_DATA_SIZE = 2
  SerialMax = 2
  MaxDown = 3
  MaxUp = 3
INVARIANTS NoMismatch
