SPECIFICATION MCSpec
CONSTANTS
  Parts = {"recorder", "webxr", "openxr", "mediapipe", "feed", "python"}
  Peers = {n1, n2, n3}
  Payloads <- SmallPayloads
  Codes = {"SOURCE_TIMEOUT"}
  MaxNamedPeers = 1
  MaxTrackedPeers = 2
  MaxTrackedLengths = 2
  MaxPrefixBytes = 2
  Options <- SmallOptions
  MaxTime = 3
  Inputs = {n1, n2, n3}
  InputLimit = 2
  XrCapacities = {2}
  Times = {0, 1, 2}
  MaxOpens = 2
  MaxAcquires = 3
  SpaceLists <- Configured
  BodyCapacities = {2}
  MaxBodyAcquires = 2
  Count = 1
  Scores = {1, 2}
  Shapes = {s1, s2}
  MpCapacities = {2}
  MaxResults = 1
  MaxFed = 3
  Threads = {t1, t2}
  Daemons = {}
  Handles = {1, 2}
  MaxCalls = 3
  Views = 2
SYMMETRY Alike
INVARIANTS
  SessionInvariant
  EpochInvariant
  FramesDescribeOneInstant
  DetectionsInvariant
  EveryCallGetsItsOwn
CHECK_DEADLOCK FALSE
