SPECIFICATION MCSpec
CONSTANTS
  Parts = {"assembler", "osc", "message", "connector"}
  Bones = {hips, head}
  Others = {root}
  SenderTimes = {1, 2, 4}
  ReceiveTimes = {3}
  Staleness = 1
  RestartBackwards = 1
  None = None
  NotANumber = NotANumber
  MaxPackets = 3
  MaxMessages = 5
  Word = 2
  SizeLimit = 1000000
  MaxBundleDepth = 2
  Datagrams <- SomeDatagrams
  Packets <- SomePackets
  Forms <- AllForms
  VmcBoneNames = {"Hips"}
  NaN = 99
  RequestedCapacities = {0, 2}
  MaxPushes = 6
  MaxFrames = 2
  MaxArrivals = 2
  MaxInputs = 1
  MaxOpens = 2
  MaxCaptures = 1
INVARIANTS
  AssemblerInvariant
  SamplesAccounted
  BytesReadOnce
  ReadAsTheirForm
  ConnectorInvariant
PROPERTIES
  DeliveryKeepsUp
CHECK_DEADLOCK FALSE
