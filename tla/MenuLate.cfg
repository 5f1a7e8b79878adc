SPECIFICATION Spec
CONSTANTS
  FLUSH_BRIGHTNESS_MIDDLE = 1
  FLUSH_BRIGHTNESS_MAX = 1
  HB_MISS = 1
  Listed <- MCListed
  Answers <- MCAnswers
  MaxValue = 2
  MaxNames = 1
  Knobs = {"PARAM", "TRACK", "VOLUME", "PLAYLIST", "APPLY"}
  Hardships = {"late"}
INVARIANTS StopLeavesMenu
