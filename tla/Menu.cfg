SPECIFICATION Spec
CONSTANTS
  FLUSH_BRIGHTNESS_MIDDLE = 0
  FLUSH_BRIGHTNESS_MAX = 0
  HB_MISS = 1
  Listed <- MCListed
  Answers <- MCAnswers
  MaxValue = 1
  MaxNames = 1
  Knobs = {"PARAM", "PLAYLIST", "APPLY"}
  Hardships = {"late", "handshake"}
INVARIANTS DrainMatchesState OpenMenuTimesOut IdleLeavesMenu
  WatchedWhileConnected NotLeftSuspended ConnectionKept KnobTakesEffect
  AppliesSelection ListInRange
