SPECIFICATION FairSpec
CONSTANTS
  Numbers = {}
  Names = {"name"}
  QUEUE_SIZE_LIMIT = 3
  Arrays = {1, 2}
  MaxClocks = 2
  MaxMenus = 1
  MaxBehind = 3
INVARIANTS NothingForgotten AnsweredOnce FlowAlive ArraysBounded
  SuspendAgrees
PROPERTIES EveryCommandReported FlowGoesOn
CHECK_DEADLOCK FALSE
