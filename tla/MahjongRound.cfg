SPECIFICATION FairSpec
CONSTANTS
  WallSize = 16
  MaxTimes = 2
  MaxWins = 2
  MaxMelds = 2
  Bankers = {1}
  Away = {2}
 
 
INVARIANT RobPending
INVARIANT StaleNeverWins
 
PROPERTY RoundEnds
CHECK_DEADLOCK FALSE
