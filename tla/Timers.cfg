SPECIFICATION FairSpec
CONSTANTS
  AT_DELAY = 3
  SLAVE_DELAY = 2
  CONFIRM_HOLD_TIME = 2
  DELAY_SELECT = 3
  MaxStarts = 2
  MaxQueued = 2
INVARIANTS Served
PROPERTIES HeldLongEnough ConfirmEnds
