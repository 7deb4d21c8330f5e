SPECIFICATION Spec
CONSTANTS
  untitled = untitled
  t1 = t1
  t2 = t2
  p1 = p1
  p2 = p2
  n1 = n1
  n2 = n2
  b1 = b1
  k1 = k1
  Titles <- TwoTitles
  Placeholder = untitled
  MaxRuns = 2
  Runs <- TwoRuns
  Renames <- OneRename
  Backfills <- OneBackfill
  Reconciles <- NoReconcile
  WritesMayFail = TRUE
  UserDeletes = FALSE
  UserWaits = FALSE
  None = None
INVARIANTS AdmissionIsTrue LinkTargetsExist NotesOrAudioRemain
CHECK_DEADLOCK FALSE
