CONSTANTS
  Clients = {c1, c2}
  Embedders = {c1, c2}
  Runners = {r1, r2}
  FrameLens = {1}
  MaxFrames = 2
  MaxRecords = 1
  None = None
SPECIFICATION Spec
SYMMETRY Symmetry
INVARIANTS IndexInBounds LosslessLog
CHECK_DEADLOCK FALSE
