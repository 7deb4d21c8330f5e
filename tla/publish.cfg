SPECIFICATION FairSpec
CONSTANTS
  untitled = untitled
  t1 = t1
  t2 = t2
  p1 = p1
  p2 = p2
  n1 = n1
  n2 = n2
  b1 = b1
  k1 = k1
  Titles <- ThreeTitles
  Placeholder = untitled
  MaxRuns = 2
  Runs <- TwoRuns
  Renames <- TwoRenames
  Backfills <- NoBackfill
  Reconciles <- OneReconcile
  WritesMayFail = FALSE
  UserDeletes = TRUE
  UserWaits = TRUE
  None = None
INVARIANT Converged
PROPERTY PublishingSettles
CHECK_DEADLOCK FALSE
