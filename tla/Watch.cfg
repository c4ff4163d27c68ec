SPECIFICATION Spec
CONSTANTS
  Root = "root"
  Dirs = {"root", "d", "s", "o", "e"}
  Archives = {"a", "c", "x", "y"}
  Up <- Tree
  Above <- AboveOf
  Output <- Beside
  Elsewhere <- ExtractPath
  Inner = {"x", "y"}
  Excluded = {"e"}
  Settings <- FourSettings
  Buffer = 1
  MaxQueue = 2
  MaxChanges = 4
  MaxStarts = 2
INVARIANTS NoArchiveMissed TableTrue  OutputIsNoWork
CHECK_DEADLOCK FALSE
