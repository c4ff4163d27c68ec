SPECIFICATION FairSpec
CONSTANTS
  Titles = {t1}
  Servers = {1}
  AppOf <- OneApp
  Cleanup <- DeleteExtracted
  MaxRetries = 1
  KeepHistory = TRUE
  RemnantAction = "rename"
  Parallel = 1
  MaxJobs = 1
  UpdateBuf = 2
  DelBuf = 1
  MaxManual = 0
  Crashes = TRUE
  IdleRestarts = FALSE
  Edits = FALSE
  HistoryEdits = TRUE
PROPERTIES EverythingSettles ImportedLeaves TombstonesEnd
