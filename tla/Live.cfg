SPECIFICATION Spec
CONSTANTS
  Items = {i1}
  Rows = {r1, r2}
  Clients = {c1}
  HubEventBuf = 1
  ClientSendBuf = 2
  HubClientBuf = 1
  FollowLog = 1
  LogLines = 1
  MaxChanges = 3
  MaxSubs = 1
  None = None
SYMMETRY Symmetry
INVARIANTS TableShown HistoryShown
