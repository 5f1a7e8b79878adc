SPECIFICATION FairSpec
CONSTANTS
  Size = 24
  Modes = {"WATCH", "RADIO"}
  Times <- MCTimes
  MaxCalls = 2
  MaxPulses = 2
  MaxFaults = 1
INVARIANTS Framed SuccessIsTrue TimeOfDay PulsesInWatchMode
PROPERTIES WatchEnds
CHECK_DEADLOCK FALSE
