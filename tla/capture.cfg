SPECIFICATION FairSpec
CONSTANTS
  MaxRecordings = 2
  MaxSamples = 2
  MaxLaterSamples = 1
  Capacity = 1
  EngineMayStop = TRUE
  DiskMayFail = TRUE
  CallbackMayLag = FALSE
INVARIANTS Bookkeeping NothingIsLostSilently TracksLoseOnlyFailedWrites NoStreamOutlivesStop
PROPERTIES PlayersAreAttached StopReturns FailureIsDelivered
CHECK_DEADLOCK FALSE
