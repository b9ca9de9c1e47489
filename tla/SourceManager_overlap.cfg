CONSTANTS
  Clients = {c1}
  Embedders = {}
  Runners = {r1, r2}
  FrameLens = {1}
  MaxFrames = 1
  MaxRecords = 0
  None = None
SPECIFICATION Spec
INVARIANT IndexPointsAtFrame
CHECK_DEADLOCK FALSE
