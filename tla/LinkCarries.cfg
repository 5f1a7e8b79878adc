\* The link without losses: it implements the message exchange, and is live.
SPECIFICATION MappedFairSpec
CONSTANTS
  BufSize = 9
  ShiftSize = 7
  LED_ARRAY_SIZE = 1
  MSG_OVERHEAD = 6
  MIN_DATA_SIZE = 1
  SerialMax = 2
  MaxQueue = 1
  MaxNotes = 1
  MaxLost = 0
  Reconnect = FALSE
INVARIANTS LowMeansReceived WriteBufKeepsMargin
PROPERTIES CarriesMessages Greeted StatusReturns
