SPECIFICATION FairSpec
CONSTANTS
  Gold <- SmallGold
  Deltas = {1}
  NoRecord = NoRecord
  InitDisk <- AnyRecord
  SaveCnt = 2
  KillCnt = 3
  MaxLoads = 2
  Answers <- BothAnswers
INVARIANT ClearFlagMeansWritten
 
INVARIANT NoDanglingEntry
 
CHECK_DEADLOCK FALSE
