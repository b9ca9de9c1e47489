CONSTANTS
  WebSids = {w1}
  MaxViews = 2
  MaxKept = 1
  MaxFrames = 2
  MaxCommands = 4
  MaxLosses = 2
SPECIFICATION WebSpec
INVARIANT TableConverges
CHECK_DEADLOCK FALSE
