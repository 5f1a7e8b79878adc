SPECIFICATION FairSpec
CONSTANTS
  MaxWaiting = 3
INVARIANTS SleepsInGapOnly NoSleepOverWork
PROPERTIES StopEnds
