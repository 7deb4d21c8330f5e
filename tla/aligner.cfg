SPECIFICATION Spec
CONSTANTS
  FrameSize = 2
  Capacity = 3
  Tolerance = 1
  MaxHold = 1
  InitialLead = 1
  RetargetDelay = 1
  MaxMic = 4
  MaxIndex = 3
  None = None
  Silence = Silence
  Untimed = Untimed
  LeadRange = {0, 1}
  WorkingWindow = {1}
  Locks = {0, 4}
  Times = {0, 3}
  Lengths = {1, 3}
INVARIANTS ReferenceIsRight
PROPERTIES WaitingFramesKeepTheirReference HeldMicIsReleased
CHECK_DEADLOCK FALSE
