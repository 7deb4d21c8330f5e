SPECIFICATION FairSpec
CONSTANTS
  MaxSessions = 2
  c1 = c1
  c2 = c2
  u1 = u1
  u2 = u2
  r1 = r1
  r2 = r2
  k1 = k1
  Clicks <- OneClick
  DetectedClicks <- NoClick
  Stops <- OneStop
  Reports <- TwoReports
  Cleanups <- OneCleanup
  MaxCrashes = 0
  CaptureMayFail = TRUE
  SaveMayFail = FALSE
  StopMayThrow = FALSE
  StopsMayOverlap = TRUE
  None = None
PROPERTY CaptureFailureIsHandled
