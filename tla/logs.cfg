CONSTANTS
  None = None
  s1 = s1
  s2 = s2
  v = v
  a = a
  Streams <- MCStreams
  Viewers <- MCViewers
  Admins <- MCAdmins
  Paths <- MCPaths
  Texts <- MCTexts
  Roots <- MCRoots
  Resolve <- MCResolve
  AllowedPaths <- MCAllowed
  BlockedPaths <- MCBlocked
  BlockedPrefixes <- MCPrefixes
  LogPath <- MCLogPath
  MaxViewerStreams = 2
  MaxAdminStreams = 1
  MaxAgentStreams = 2
  MaxTailSessions = 1
  ChanCap = 1
  SendCap = 1
  ReadCap = 1
  MaxConn = 2
  MaxGen = 2
  MaxSize = 2
  MaxPair = 3
  MaxRows = 1
SPECIFICATION Spec
INVARIANTS TypeOK SlotsMatchStreams LossIsReported TailIsWanted AccessIsContainment NothingTwice
SYMMETRY MCSymmetry
CHECK_DEADLOCK FALSE
