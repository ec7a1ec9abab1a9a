SPECIFICATION Spec
CONSTANTS
  Bones = {hips, head}
  Others = {root}
  SenderTimes = {1, 2, NotANumber}
  ReceiveTimes = {3}
  Staleness = 1
  RestartBackwards = 1
  None = None
  NotANumber = NotANumber
  MaxPackets = 3
  MaxMessages = 6
INVARIANTS
  StreamAdvances
CHECK_DEADLOCK FALSE
