CONSTANTS
  MaxWrites = 3
  MaxEdgeFrames = 2
  RequestQueue = 1
  EdgeQueue = 1
  EdgeRing = 2
  NetLen = 1
SPECIFICATION DeviceFairSpec
PROPERTY FramesMirrored
CHECK_DEADLOCK FALSE
