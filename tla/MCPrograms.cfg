CONSTANTS
  disk = disk
  Destinations = {disk}
  Topology <- MCTopology
  MaxAge <- MCMaxAge
  Tolerance = 0
  MaxClock = 2
  MaxStarts = 2
  Adapters = {"hci0", "hci1"}
  MaxGenerations = 3
  Captures = {c1, c2}
  Output <- MCOutput
  MaxTree = 2
  MaxMoves = 1
  forking = c1
  Cast <- MCCast
  CapturedPhases <- MCPhases
  Repeats <- MCRepeats
  Required = {"build"}
  MaxTime = 2
  NoPath = NoPath
  Connections = {"esa", "commons"}
  Commons = "commons"
  Parent <- MCParent
  Routes <- MCRoutes
  Defaults <- MCDefaults
  Images <- MCImages
  Operators = {p1, p2}
  MaxEdits = 2
  NoImage = NoImage
  Fetchers = {f1, f2}
  Items <- MCItems
  Files <- MCFiles
  Target <- MCTarget
  MaxPixels = 100
  LastPage = 2
  MaxPages = 2
  MaxDownloads = 1
  MaxImages = 1
  MaxSeen = 1
  NoFile = NoFile
  Objects = {"old", "new", "first"}
  Local = {"old", "new", "first"}
  Kind <- MCKind
  Reach <- MCReach
  Symbols = {"a", "%", "@"}
  Samples <- MCSamples
  Patterns <- MCPatterns
  Chunk = 1
  AllowsPrivate = TRUE
SPECIFICATION Spec
INVARIANTS
  TypeOK
  FailureVisible CurrentMeansProven
  NoneMissed SuccessMeansOff
  PassedIsBound LatestVerdict TrialsAlone
  ChoicesKept DisabledLeaves
  LibrarySound ShownKept
  NothingLeaks
CHECK_DEADLOCK FALSE
