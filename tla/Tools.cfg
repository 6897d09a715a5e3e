\* Each command on its own: a worker, the summary file, a QR code, a transcript,
\* a video, a recording's audio, a deck,
\* a talk's images.
SPECIFICATION Spec
CONSTANTS
  Wall = 1
  Cleanup = 1
  Replies = {"good"}
  Platforms = {"linux", "darwin", "windows"}
  StatusRuns = {s1, s2}
  PatternRuns = {t1}
  MaxGeneration = 1
  MaxSaves = 1
  Publishers = {p1, p2}
  Targets = {A, B}
  Services = {"bitly", "rebrandly"}
  AgentLinks = TRUE
  MaxLinks = 2
  MaxEdits = 1
  Fetchers = {f1}
  Recordings = {"short", "long", "recut"}
  Tracks = {"many", "huge"}
  MaxFetches = 2
  MaxChanges = 1
  Invocations = {v1, v2, v3}
  MaxDownloads = 1
  Extractors = {e1, e2}
  MaxExtracts = 2
  MaxRewrites = 2
  MaxLosses = 1
  Numbers = {0, 1, 3}
  Frames = {0, 2}
  Artists = {a1, a2}
  Models = {m1, m2}
  Exts = {"png"}
  MaxRenders = 2
  MaxMoves = 1
  None = None
INVARIANTS TypesOK ReportsTrue RecordsHonest MediaKept DeckAssembled
PROPERTIES CallReturns RecordsKept VersionsKept
CHECK_DEADLOCK FALSE
