CONSTANTS
  MaxWrites = 5
  MaxEdgeFrames = 2
  RequestQueue = 1
  EdgeQueue = 1
  EdgeRing = 1
  NetLen = 1
SPECIFICATION MirrorFairSpec
INVARIANTS WritesSound MirrorLogSound
PROPERTIES WritesReturn FramesReachLog
CHECK_DEADLOCK FALSE
