SPECIFICATION Spec
CONSTANTS
  Bones = {b1, b2}
  Formed = {{}, {b1}, {b1, b2}}
  Rigs = {r1}
  Width = 3
  Times = {0, 1, 3}
  Offsets = {0, 1}
  RestartBackwards = 1
  None = None
  MaxPackets = 4
PROPERTY LostWereNeverHeard
CHECK_DEADLOCK FALSE
