SPECIFICATION Spec
CONSTANTS
  a = a
  b = b
  t1 = t1
  t2 = t2
  Ids <- TwoIds
  Titles <- OneTitle
  MaxManagers = 2
  WriteMayFail = FALSE
  RemoveMayFail = FALSE
  Missing = Missing
  NotLoaded = NotLoaded
  NoCall = NoCall
SYMMETRY Interchangeable
VIEW Unlisted
INVARIANT OneRecordingFile
