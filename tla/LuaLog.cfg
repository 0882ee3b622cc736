SPECIFICATION FairSpec
CONSTANTS
  BufferSize = 3
  MaxBuffers = 2
  RollSize = 3
  Faults <- AllFaults
  MaxMessages = 7
  MaxDays = 2
INVARIANT BuffersSuffice
PROPERTY ImplementsStream
PROPERTY EventuallyWritten
INVARIANT RollsInTime
CHECK_DEADLOCK FALSE
