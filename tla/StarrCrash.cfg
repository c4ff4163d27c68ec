SPECIFICATION Spec
CONSTANTS
  Titles = {t1}
  Servers = {1}
  AppOf <- OneApp
  Cleanup <- DeleteExtracted
  MaxRetries = 1
  KeepHistory = TRUE
  RemnantAction = "rename"
  Parallel = 2
  MaxJobs = 2
  UpdateBuf = 1
  DelBuf = 1
  MaxManual = 1
  Crashes = TRUE
  IdleRestarts = TRUE
  Edits = TRUE
  HistoryEdits = FALSE
INVARIANTS NoLostExtraction RetryBudget RowsResume ForgottenStayOut
PROPERTIES SilenceDecidesNothing LiftedOnlyWhenGone GaveUpStaysDown
