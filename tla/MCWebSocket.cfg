SPECIFICATION MCSpec
CONSTANTS
  Parts = {"connector", "endpoint", "framing", "handshake"}
  RequestedCapacities = {1}
  MaxPushes = 4
  Messages <- TwoActors
  Garbage = Garbage
  Profile = profile
  AnyProfile = AnyProfile
  Peers = {p1}
  NoPeer = NoPeer
  SilenceTimeout = 1
  MaxClock = 1
  MaxMessages = 3
  MaxOpens = 1
  MaxConnections = 2
  Actor1 = a1
  Actor2 = a2
  Other = other
  Configs <- SmallConfigs
  PeerLimit = 1
  PeerQueueMessages = 1
  AcceptsPerService = 2
  MaxLingering = 1
  LingerTime = 1
  HandshakeTimeout = 1
  ReconnectInitial = 1
  ReconnectMax = 4
  MaxOwed = 2
  Streams <- Cut
  MaxMessageBytes = 5
  Max7 = 3
  Max16 = 4
  Bytes16 = 1
  Bytes64 = 2
  BytesMask = 1
  Ascii = a
  Lead = l
  Trail = t
  Requests <- Asked
  Answers <- Elsewhere
  Path = "path"
  AllowedOrigins = {"page"}
  Subprotocol = "frames"
  Host = "host"
  Key = "key"
  ValidKeys = {"key", "other"}
INVARIANTS
  StreamIsHonest
  PeersGetTheirFrames
  EventsNest
  FramingInvariant
  HandshakeInvariant
PROPERTIES
  AttemptsSpaced
CHECK_DEADLOCK FALSE
