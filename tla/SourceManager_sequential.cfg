CONSTANTS
  Clients = {c1}
  Embedders = {c1}
  Runners = {r1, r2, r3}
  FrameLens = {0, 2}
  MaxFrames = 1
  MaxRecords = 0
  None = None
SPECIFICATION Spec
SYMMETRY Symmetry
INVARIANTS OneRunnerShown NoOrphan
CHECK_DEADLOCK FALSE
