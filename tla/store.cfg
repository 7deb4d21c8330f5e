SPECIFICATION Spec
CONSTANTS
  a = a
  b = b
  t1 = t1
  t2 = t2
  Ids <- TwoIds
  Titles <- OneTitle
  MaxManagers = 1
  WriteMayFail = TRUE
  RemoveMayFail = FALSE
  Missing = Missing
  NotLoaded = NotLoaded
  NoCall = NoCall
INVARIANTS TypeOK CacheCoherent
PROPERTY ImplementsCatalog
