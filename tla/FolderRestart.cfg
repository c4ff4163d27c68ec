SPECIFICATION Spec
CONSTANTS
  p1 = p1
  Paths = {p1}
  MaxRetries = 1
  DeleteAfter = TRUE
  DeleteOrig = TRUE
  RemnantOff = FALSE
  KeepHistory = TRUE
  StateFile = TRUE
  Parallel = 2
  MaxJobs = 2
  UpdateBuf = 1
  Crashes = TRUE
  UserActions = TRUE
INVARIANTS RecoveryCovers DeletesExtracted NoFolderLost FoldersAgree
PROPERTIES ExtractedResumes
