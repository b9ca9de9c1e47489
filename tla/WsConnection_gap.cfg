CONSTANTS
  Keys = {k0}
  Capacity = 1
  QueueLen = 1
  MaxFrames = 4
  MaxRequests = 1
  MaxRestarts = 0
  None = None
SPECIFICATION Spec
INVARIANT NoSilentGap
CHECK_DEADLOCK FALSE
