SPECIFICATION FairSpec
CONSTANTS
  p1 = p1
  Paths = {p1}
  MaxRetries = 1
  DeleteAfter = TRUE
  DeleteOrig = TRUE
  RemnantOff = TRUE
  KeepHistory = FALSE
  StateFile = TRUE
  Parallel = 1
  MaxJobs = 1
  UpdateBuf = 1
  Crashes = TRUE
  UserActions = TRUE
PROPERTY FolderWorkEnds
