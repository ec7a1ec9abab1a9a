SPECIFICATION MCSpec
CONSTANTS
  Parts = {"assembler", "packet", "joints", "capture", "wire", "text", "handle", "view"}
  Bones = {b1, b2}
  Formed = {{}, {b1}}
  Rigs = {r1}
  Width = 3
  Times = {0, 1, 3}
  Offsets = {0, 1}
  RestartBackwards = 1
  None = None
  MaxPackets = 5
  Datagrams <- SomeDatagrams
  Tag <- Tags
  FormatType <- Format
  FormatVersion = 1
  SenderIdBytes = 2
  TimecodeBytes = 2
  RotationFloats = 2
  TransformFloats = 3
  NaN = 150
  ParentColumn <- Column
  MeasuredBones <- Measured
  NoBone = 0
  Skeletons <- SomeSkeletons
  JointFrames <- SomeFrames
  Keys <- HeaderKeys
  Captures <- SomeCaptures
  Texts <- SomeTexts
  Pipe = 7
  Dot = 8
  Printable = {7, 8, 9}
  BytesPerLine = 2
  MaxDatagramBytes = 8
  Tick = 2
  WireFrames <- SomeWireFrames
  Altered <- SomeAltered
  MaxFloat = 2
  MaxDouble = 4
  MaxCounter = 3
  MaxMessage = 95
  MaxDepth = 6
  WireFormat = "v1"
  Vocabulary <- JointNames
  ByName <- OrderedNames
  Clocks <- Words
  Kinds <- Words
  Feet <- Words
  NotUtf8 <- BadTexts
  Contents <- SomeContents
  Spelled <- SomeSpelled
  SourceIds = {"vmc", "websocket"}
  DefaultDiagnosticCapacity = 2
  Configs <- SomeConfigs
  MaxFrames = 2
  MaxRaised = 4
  MaxOpens = 2
  FrameJoints = {hips}
  Names = {n1}
  MaxActors = 2
  MaxEntries = 1
  Absent = Absent
  Released = Released
INVARIANTS
  AssemblerInvariant
  PosesTellTheirStream
  EveryChunkAccounted
  PosesAreTheRigs
  CapturesReadBack
  WireInvariant
  ReadTextIsUtf8
  ViewsShowTheFrame
PROPERTY HandleKeepsItsBooks
CHECK_DEADLOCK FALSE
