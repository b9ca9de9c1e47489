CONSTANTS
  MaxSent = 2
  SampleFrames = 2
  SinkWriters = {k1, k2}
  Pieces = 2
  Chars = 20
  Malformed = {0, 1}
  Controls = {0, 3}
  Rules = 3
  Matches = {0, 1}
  RecordTags = {"x", "y"}
  MaxInput = 6
  MaxFrame = 3
  MaxBytes = 4
  ReadChunk = 2
  Rotations = 1
  MaxEmitted = 6
  MaxPackets = 3
  MaxRuns = 2
  PartPackets = 2
  RecBuffer = 4
  FlushPeriod = 2
  FrameLens = {0, 1, 2, 4}
  MaxRecorded = 4
  MaxRecordings = 2
  Lens = {0, 2, 3}
  MaxPayload = 2
  MaxAppends = 3
  MaxCrashes = 2
  Disks = {"ordered", "weak", "full"}
  ShownSids = {v1, v2}
  Encodings_ = {"u", "v"}
  StartEncoding = "u"
  Limits = {1, 2}
  TileLimit = 1
  TILE_COUNT = 1
  MaxShown = 2
  MaxChanges = 1
SPECIFICATION DataSpec
INVARIANTS
  SourcesSound SinksSound DetectionSound ChunksDoNotMatter TailInOrder
   ReadBackIsRecorded LogSound PanelsShowBuffers
PROPERTY ImplementsDurableLog
CHECK_DEADLOCK FALSE
