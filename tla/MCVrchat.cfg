SPECIFICATION MCSpec
CONSTANTS
  Parts = {"sessions", "silence", "message", "solve"}
  Packets <- SessionPackets
  Peers = {p1, p2}
  NoPeer = NoPeer
  Advances = {0, 2}
  FrameWindow = 1
  Staleness = 2
  SourceTimeout = 3
  Jump = 1
  NotFinite = NotFinite
  None = None
  MaxPackets = 3
  MaxResets = 1
  Head1 = head
  Head2 = t1
  OscPackets <- SomePackets
  HeadName <- HeadSegment
  Channels <- BothChannels
  MinTrackerIndex = 1
  MaxTrackerIndex = 8
  MaxDigits = 3
  NaN = 99
  HumanJointParent <- Parents
  RegionJoint <- Placement
  Unplaceable = 9
  Specs <- SomeSpecs
  Frames <- SomeFrames
  MaxFrames = 3
INVARIANTS
  
  SilencesCountedOnce
  OneIdentityPerTracker
  HeldPoseIsReported
CHECK_DEADLOCK FALSE
