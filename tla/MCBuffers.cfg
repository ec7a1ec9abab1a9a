SPECIFICATION MCSpec
CONSTANTS
  Parts = {"buffer", "queue", "bridge"}
  RequestedCapacities = {0, 2, 3}
  MaxPushes = 5
  Consumers = {c1, c2}
  MaxDatagrams = 2
  MaxBytes = 4
  Sizes = {1, 3, 5}
  MaxQueued = 4
  MaxResets = 1
  Endpoints = {"a", "b"}
  Replays <- SmallReplays
  MaxFrames = 2
  DrainTime = 1
  QueueBound = 1
  MaxLive = 2
  MaxTime = 3
INVARIANTS
  BufferInvariant
  QueueInvariant
  BridgeKeepsItsBooks
PROPERTIES
  ImplementsChannel
  EventuallyHandedOut
  InterruptEnds
CHECK_DEADLOCK FALSE
