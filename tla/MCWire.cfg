SPECIFICATION Spec
CONSTANTS
  Requests <- McRequests
  AttrLimit = 3
  MaxAnswers = 3
  PacketHeads <- McPacketHeads
  Modulus = 16
  MaxIndex = 40
  MinLines = 2
  MaxLines = 5
  MaxSdps = 2
  Radix = 4
  VarBytes = 16
  Values = {2, 300}
  MaxItems = 2
  MaxReads = 3
  Data = {1}
  MaxCapacity = 3
  Handles = {h1, h2}
  MaxSize = 2
  Ips <- McIps
  HostTexts <- McHostTexts
  Ports = {65537}
  Scopes = {0, 1}
  Alphabet <- McAlphabet
  MaxText = 5
  MaxNumber = 255
  ByteBits = 1
  Samples = {1, 2, 3}
  WindowSize = 3
  Percentiles <- McPercentiles
  MaxSamples = 7
  Transports = {t1, t2}
  Suites = {"sha1_32", "gcm", "null"}
  SrtpKeys = {"k1", "k2"}
  PacketLens = {1, 20}
  MaxKeyings = 2
  Uids = {1, 2}
  MaxClicks = 2
  Socks = {s1, s2}
  Fds = {1, 2}
  MaxKeys = 3
  MaxActs = 4
  Backends = {"select", "epoll"}
  TlsConfigs <- McTlsConfigs
  MaxSessions = 2
  MaxSends = 3
  Signals = {g1, g2}
  Slots = {o1, o2}
  MaxConns = 3
  MaxDepth = 2
  UnitMax = 63
  Magnitudes = {0, 1, 2, 3, 20}
  PerMilli = 4
  MaxOps = 4
  Delays = {0, 3, 6}
  MaxTaskTime = 12
  MaxGuarded = 1
  SslConfigs <- McSslConfigs
  SuiteLists <- McSuiteLists
  RecordSizes = {1, 2}
  Loggers = {1, 2}
  Enablers = {1, 2}
  HistNames = {"a", "b"}
  MetricValues = {0, 5}
  Boundary = 2
  kMaxSampleMapSize = 1
  MaxLogs = 2
  SampleYears = {1970, 1972, 2000, 2001, 2100, 2400}
  LastYear = 2401
  MsPerSec = 4
  UsPerSec = 12
  FractionsPerSec = 64
  WrapRange = 64
  MaxStamp = 136
  kNumRtcpReportsToUse = 3
  kMaxAllowedRtcpNtpIntervalMs = 4
  MaxRtpJump = 6
  MaxReportTime = 11
  MaxBogus = 2
  Objects = {1, 2, 3, 4, 5, 6}
  Identities = {1, 2}
  kChunkSize = 3
  MaxArg = 2
  Producers = {p1, p2, p3}
  Consumers = {d1, d2, d3}
  Cleaners = {x1}
  Lookups = {1, 2}
  LookupNames = {"x", "y"}
  AddrInfos <- McAddrInfos
  Tracers = {1, 2}
  MaxEvents = 4
  MaxCaptures = 2
INVARIANTS
  WalkExact
  RefusedOnlyAfterReoffer
  ParserKeepsOffer
  AnswerReadsBack
  BuffersKeepBytes
  AddressesKeepOrder
  LibraryConverts
  SrtpCarriesPackets
  RequestsFollowButtons
  SocketsServed
  TlsKeepsData
  SlotsCalledRight
  StreamOpensVerified
  RecordsTakenOnce
  FlagsTellSize
  NoLostWakeup
PROPERTIES
  MediaKeepsPlace
  TasksKeepTime
CHECK_DEADLOCK FALSE
