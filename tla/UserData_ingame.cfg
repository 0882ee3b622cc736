SPECIFICATION Spec
CONSTANTS
  Gold <- SmallGold
  Deltas = {1}
  NoRecord = NoRecord
  InitDisk <- SomeRecord
  SaveCnt = 2
  KillCnt = 3
  MaxLoads = 2
  Answers <- OnlySuccess
INVARIANT NeverEndsInGame
CHECK_DEADLOCK FALSE
