CONSTANTS
  Keys = {k0, k1}
  Capacity = 1
  QueueLen = 1
  MaxFrames = 2
  MaxRequests = 3
  MaxRestarts = 1
  None = None
SPECIFICATION Spec
INVARIANTS FeedsSound NoStrayFeed
CHECK_DEADLOCK FALSE
