SPECIFICATION MCSpec
CONSTANTS
  Parts = {"udp", "tcp", "endpoint"}
  Thresholds = {0, 2}
  Forever = Forever
  Timeouts = {Forever, 0, 2}
  MaxTicks = 4
  MaxArrivals = 2
  MaxCalls = 2
  MaxOpens = 2
  Streams = {s1, s2}
  Handles = {1, 2, 3}
  Candidates = 2
  MaxBytes = 2
  Configs <- Strangers
  PeerLimit = 1
  PeerQueueMessages = 1
  AcceptsPerService = 2
  MaxLingering = 1
  LingerTime = 1
  HandshakeTimeout = 1
  ReconnectInitial = 1
  ReconnectMax = 4
  MaxOwed = 2
INVARIANTS
  ReceiverInvariant
  StreamsOwnTheirSockets
PROPERTIES
  CallsReportWhatHappened
  StrangersLeave
CHECK_DEADLOCK FALSE
