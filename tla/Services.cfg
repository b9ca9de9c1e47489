CONSTANTS
  Callers = {a, b, c, d, e}
  Cap = 2
  Lens = {0, 1, 2}
  HdrLen = 2
  SizeBytes = 7
  Window = 2
  MaxTime = 6
  QueueCap = 3
  EntrySizes = {1, 2, 4}
  MaxPushes = 6
  Burst = 2
  Rate = 1
  Costs = {1, 2}
  LivePeriod = 1
  VisiblePeriod = 2
  HiddenPeriod = 4
  Threads = {t1, t2}
  IdBits = 2
  LastTick = 6
  ClockNodes = {n1, n2}
  Nanos = 2
  OffsetMax = 4
  Skews = {0, 3, 9}
  LastTime = 7
  TableOffsets = {1, 2}
  MaxRows = 3
  Conns = {c1, c2}
  Sids = {s1}
  Encodings = {e1}
  Patterns = {p1, p2}
  MaxRequests = 4
  MaxCerts = 3
  Ids = {i1, i2}
  Texts = {x1, x2}
  Reqs = {r1, r2}
  Scopes = {x, y}
  MaxTickets = 1
  TTL = 1
  LastSecond = 2
  MaxEntries = 4
  NameTries = 4
  ZipMax = 6
  WebSids = {w1}
  MaxViews = 2
  MaxKept = 1
  MaxFrames = 2
  MaxCommands = 3
  MaxLosses = 2
  Signatures = {1, 3}
  MAX_TOASTS = 2
  MAX_NOTIFICATION_HISTORY = 2
  DuplicateWindow = 1
  MaxToasts = 3
  EndOfTime = 4
  Browsers = {b1}
  NoteTargets = {"session"}
  NoteTexts = {"x"}
  Behind = 0
  MaxEdits = 2
  MaxCalls = 3
  MaxReloads = 1
  Labels = {"sjis", "utf-8"}
  MaxWatched = 3
SPECIFICATION ServicesSpec
INVARIANTS
  CapHolds LittleAtRisk QueuesAccount PacingHolds 
  LifecycleKeeps NoFalseAlarm NoteKept GoneStaysGone
  TicketOnce ArtifactsRemoved ZipReadable PageAgrees ToastsAccount
  SavedEditStays CliReportsTrue
CONSTRAINT SmallBacklog
CHECK_DEADLOCK FALSE
