CONSTANTS
  Keys = {k0}
  Capacity = 1
  QueueLen = 1
  MaxFrames = 2
  MaxRequests = 2
  MaxRestarts = 1
  None = None
SPECIFICATION FairSpec
PROPERTIES Released Answered
CHECK_DEADLOCK FALSE
