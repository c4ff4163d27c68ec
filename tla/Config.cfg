SPECIFICATION Spec
CONSTANTS
  Texts <- Strings
  KeyNames <- Tried
  Slugs = {"a"}
  Setups <- AllSetups
  GeneralBodies <- Generals
  MapBodies <- Maps
  WebEdits <- Edits
  TrayTexts = {"t1"}
  Fresh <- Made
  Roles = {"ops"}
  Perms = {"stats", "queue"}
  MaxPuts = 2
  MaxWaiting = 1
  MaxStarts = 2
  MaxFails = 1
  MaxTray = 1
  MaxResets = 1
INVARIANTS RunsTheFile SecretsStayOut AdminKeyWorks ToldHolds RestartOwed RightsAreCurrent
CHECK_DEADLOCK FALSE
PROPERTY FormKeepsKeys
