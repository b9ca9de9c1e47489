CONSTANTS
  Clients = {c1, c2}
  Embedders = {c1, c2}
  Runners = {r1, r2}
  FrameLens = {1}
  MaxFrames = 1
  MaxRecords = 0
  None = None
SPECIFICATION FairSpec
PROPERTY EverythingEnds
CHECK_DEADLOCK FALSE
