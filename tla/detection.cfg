SPECIFICATION Spec
CONSTANTS
  Windows = {standup}
  AudioMeeting = call
  StartTicks = 2
  EndTicks = 3
  DisappearThreshold = 2
  IdleScans = 1
  SlowInterval = 2
  MaxTimers = 1
  None = None
INVARIANTS DetectionIsConsistent NoticedInTime
PROPERTIES DetectedRecordingEnds
CHECK_DEADLOCK FALSE
