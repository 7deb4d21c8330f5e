SPECIFICATION Spec
CONSTANTS
  MaxSessions = 2
  c1 = c1
  c2 = c2
  u1 = u1
  u2 = u2
  r1 = r1
  r2 = r2
  k1 = k1
  Clicks <- TwoClicks
  DetectedClicks <- OneClick
  Stops <- TwoStops
  Reports <- TwoReports
  Cleanups <- OneCleanup
  MaxCrashes = 1
  CaptureMayFail = TRUE
  SaveMayFail = TRUE
  StopMayThrow = TRUE
  StopsMayOverlap = TRUE
  None = None
SYMMETRY Interchangeable
INVARIANTS AtMostOneRecording LiveCaptureIsOwned
